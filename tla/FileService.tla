----------------------------- MODULE FileService -----------------------------
(***************************************************************************)
(* What the server of the third program promises to clients that do not    *)
(* get in each other's way: every request takes effect at one instant      *)
(* between its call and its answer.  A name and its file appear and        *)
(* disappear together, and an open descriptor stands for one file for as   *)
(* long as it is open.                                                     *)
(***************************************************************************)
EXTENDS TfsApi

CONSTANTS Id, None

VARIABLES
  names,   \* the file under each name, or -1
  inodes,  \* owner, permissions and content of each file that exists
  table,   \* the open files of each session
  req,     \* the request of each session
  done,    \* has it had its effect?
  answer   \* the last answer of each session, until its next call

vars == <<names, inodes, table, req, done, answer>>

Init ==
  /\ names = [n \in Name |-> -1]
  /\ inodes = [i \in Id |-> None]
  /\ table = [s \in Session |-> [fd \in fds |-> Closed]]
  /\ req = [s \in Session |-> NoRequest]
  /\ done = [s \in Session |-> FALSE]
  /\ answer = [s \in Session |-> NULL]

Mount(s) ==
  /\ req[s] = NoRequest
  /\ table' = [table EXCEPT ![s] = [fd \in fds |-> Closed]]
  /\ UNCHANGED <<req, done, answer, names, inodes>>

Call(s, r) ==
  /\ req[s] = NoRequest
  /\ req' = [req EXCEPT ![s] = r]
  /\ answer' = [answer EXCEPT ![s] = NULL]
  /\ UNCHANGED <<names, inodes, table, done>>

\* The request has its effect, and its answer with it or later.
Effect(s, a) ==
  /\ ~done[s]
  /\ answer' = [answer EXCEPT ![s] = a]
  /\ \/ /\ req' = [req EXCEPT ![s] = NoRequest]
        /\ UNCHANGED done
     \/ /\ done' = [done EXCEPT ![s] = TRUE]
        /\ UNCHANGED req

Deliver(s) ==
  /\ done[s]
  /\ done' = [done EXCEPT ![s] = FALSE]
  /\ req' = [req EXCEPT ![s] = NoRequest]
  /\ UNCHANGED <<names, inodes, table, answer>>

\* All the room is taken, or the creates of other sessions may have taken it.
NoRoom(s) ==
  \/ \A i \in Id : inodes[i] # None
  \/ \E t \in Session \ {s} : ~done[t] /\ req[t].kind = "create"

\* A create that finds no room is answered like one that does.
Create(s) ==
  LET n == req[s].name
      p == req[s].permissions
  IN
  /\ req[s].kind = "create"
  /\ UNCHANGED table
  /\ \/ names[n] # -1 /\ Effect(s, FILE_ALREADY_EXISTS) /\ UNCHANGED <<names, inodes>>
     \/ names[n] = -1 /\ NoRoom(s) /\ Effect(s, 0) /\ UNCHANGED <<names, inodes>>
     \/ \E i \in Id :
          /\ names[n] = -1 /\ inodes[i] = None
          /\ names' = [names EXCEPT ![n] = i]
          /\ inodes' = [inodes EXCEPT ![i] =
               [owner |-> userOf[s], ownerPermissions |-> p \div 10,
                othersPermissions |-> p % 10, fileContent |-> NULL]]
          /\ Effect(s, 0)

\* Only the owner deletes or renames.
Owns(s, n) == inodes[names[n]].owner = userOf[s]

Delete(s) ==
  LET n == req[s].name IN
  /\ req[s].kind = "delete"
  /\ UNCHANGED table
  /\ IF names[n] # -1 /\ Owns(s, n)
     THEN /\ names' = [names EXCEPT ![n] = -1]
          /\ inodes' = [inodes EXCEPT ![names[n]] = None]
          /\ Effect(s, 0)
     ELSE /\ Effect(s, IF names[n] = -1 THEN FILE_NOT_FOUND ELSE PERMISSION_DENIED)
          /\ UNCHANGED <<names, inodes>>

Rename(s) ==
  LET n == req[s].name
      new == req[s].name2
  IN
  /\ req[s].kind = "rename"
  /\ UNCHANGED <<table, inodes>>
  /\ IF names[n] # -1 /\ names[new] = -1 /\ Owns(s, n)
     THEN /\ names' = [names EXCEPT ![n] = -1, ![new] = names[n]]
          /\ Effect(s, 0)
     ELSE /\ Effect(s, IF names[n] = -1 THEN FILE_NOT_FOUND
                       ELSE IF names[new] # -1 THEN FILE_ALREADY_EXISTS
                       ELSE PERMISSION_DENIED)
          /\ UNCHANGED names

IsOpen(s, i) == \E fd \in fds : table[s][fd].iNumber = i

Open(s) ==
  LET i == names[req[s].name] IN
  /\ req[s].kind = "open"
  /\ UNCHANGED <<names, inodes>>
  /\ \/ i = -1 /\ Effect(s, FILE_NOT_FOUND) /\ UNCHANGED table
     \/ i # -1 /\ IsOpen(s, i) /\ Effect(s, FILE_IS_OPEN) /\ UNCHANGED table
     \/ /\ i # -1 /\ ~IsOpen(s, i) /\ ~IsOpen(s, -1)
        /\ Effect(s, MAXED_OPEN_FILES)
        /\ UNCHANGED table
     \/ \E fd \in fds :
          /\ i # -1 /\ ~IsOpen(s, i) /\ table[s][fd].iNumber = -1
          /\ table' = [table EXCEPT ![s][fd] = [iNumber |-> i, mode |-> req[s].mode]]
          /\ Effect(s, fd)

Close(s) ==
  LET fd == req[s].fd IN
  /\ req[s].kind = "close"
  /\ UNCHANGED <<names, inodes>>
  /\ \/ fd = -1 /\ Effect(s, ERROR_OTHER) /\ UNCHANGED table
     \/ fd # -1 /\ Effect(s, 0) /\ table' = [table EXCEPT ![s][fd] = Closed]

\* Whether the session may read or write, and the refusal if not.
Verdict(s, perm) ==
  LET fd == req[s].fd IN
  IF fd = -1 THEN FILE_ALREADY_EXISTS
  ELSE IF table[s][fd].iNumber = -1 THEN FILE_NOT_OPEN
  ELSE user_allowed(userOf[s], table[s][fd].mode, perm, inodes[table[s][fd].iNumber])

Write(s) ==
  /\ req[s].kind = "write"
  /\ UNCHANGED <<names, table>>
  /\ Effect(s, Verdict(s, WRITE))
  /\ IF Verdict(s, WRITE) = 0
     THEN inodes' = [inodes EXCEPT ![table[s][req[s].fd].iNumber].fileContent = req[s].content]
     ELSE UNCHANGED inodes

Read(s) ==
  /\ req[s].kind = "read"
  /\ UNCHANGED <<names, inodes, table>>
  /\ Effect(s, IF Verdict(s, READ) = 0
               THEN inodes[table[s][req[s].fd].iNumber].fileContent
               ELSE Verdict(s, READ))

Serve(s) ==
  \/ Create(s) \/ Delete(s) \/ Rename(s) \/ Open(s) \/ Close(s) \/ Write(s) \/ Read(s)
  \/ Deliver(s)

Next ==
  \E s \in Session : Mount(s) \/ Serve(s) \/ \E r \in Requests : Call(s, r)

Spec == Init /\ [][Next]_vars
=============================================================================
