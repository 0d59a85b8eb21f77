------------------------------- MODULE Server -------------------------------
(***************************************************************************)
(* The requests of the third program (server/main.c): one session thread   *)
(* per client executes apply_create, apply_delete, ... over the directory  *)
(* (fs.c) and the i-node table, one lock section at a time.                *)
(*                                                                         *)
(* A step is what happens under one lock: a lookup under the read lock of  *)
(* a bucket, the removal of a name or the move of a rename under write     *)
(* locks (module Directory checks that these are instants), a function of  *)
(* the i-node table under its mutex.  The insert of apply_create takes no  *)
(* lock; Conduct keeps other changes out of its bucket, and a lookup that  *)
(* meets it sees the tree with the new leaf or without.                    *)
(*                                                                         *)
(* dir[n] is -1 for a name that is not there and for one that is there     *)
(* with the i-number -1, which lookup does not tell apart.                 *)
(***************************************************************************)
EXTENDS Inodes

CONSTANTS
  Hash,       \* the bucket of each name
  CloseFirst  \* do clients close a file before they have it deleted?

VARIABLES
  dir,      \* the directory
  files,    \* the open file table of each session
  pc,       \* where each session thread is
  req,      \* the request it executes
  iNumber,  \* its local: what inode_create or lookup has returned
  answer    \* the buffer its client has the answer in

vars == <<inode_table, dir, files, pc, req, iNumber, answer>>

Label ==
  {"idle", "lookup", "lookup_new", "inode_create", "insert", "inode_get_owner",
   "inode_delete", "remove", "lookup_again", "lookup_new_again", "move",
   "user_allowed", "inode_set", "inode_get_content", "close"}

TypeOK ==
  /\ inode_table \in [Inumber -> Inode \cup {FREE_INODE}]
  /\ dir \in [Name -> Inumber \cup {-1}]
  /\ files \in [Session -> [fds -> [iNumber : Inumber \cup {-1}, mode : 0..3]]]
  /\ pc \in [Session -> Label]
  /\ req \in [Session -> Requests \cup {NoRequest}]
  /\ iNumber \in [Session -> Inumber \cup {-1}]
  /\ answer \in [Session -> Answer]

(* The directory (fs.c). *)

new_tecnicofs == dir = [n \in Name |-> -1]
lookup(n) == dir[n]
create(n, i) == dir' = [dir EXCEPT ![n] = i]
delete(n) == dir' = [dir EXCEPT ![n] = -1]

Init ==
  /\ inode_table_init
  /\ new_tecnicofs
  /\ files = [s \in Session |-> [fd \in fds |-> Closed]]
  /\ pc = [s \in Session |-> "idle"]
  /\ req = [s \in Session |-> NoRequest]
  /\ iNumber = [s \in Session |-> -1]
  /\ answer = [s \in Session |-> NULL]
-----------------------------------------------------------------------------
(* Clients. *)

NamesOf(r) ==
  CASE r.kind = "rename" -> {r.name, r.name2}
    [] r.kind \in {"create", "delete", "open"} -> {r.name}
    [] OTHER -> {}

Changes(r) == r.kind \in {"create", "delete", "rename"}

\* Two requests that must not be under way together.
Clash(q, r) ==
  \/ /\ Changes(q) /\ Changes(r)
     /\ \E m \in NamesOf(q), n \in NamesOf(r) : Hash[m] = Hash[n]
  \/ (Changes(q) \/ Changes(r)) /\ NamesOf(q) \cap NamesOf(r) # {}

IsOpen(s, i) == \E fd \in fds : files[s][fd].iNumber = i

\* Clients keep apart: no two change names of one bucket at a time, and none
\* uses a name another one changes.
Conduct(s, r) ==
  /\ \A t \in Session \ {s} : pc[t] # "idle" => ~Clash(req[t], r)
  /\ CloseFirst /\ r.kind = "delete" /\ dir[r.name] # -1 =>
       \A t \in Session : ~IsOpen(t, dir[r.name])

\* tfsCreate ... tfsWrite: the client clears its buffer, writes its request and
\* waits.
Call(s, r) ==
  /\ pc[s] = "idle"
  /\ Conduct(s, r)
  /\ req' = [req EXCEPT ![s] = r]
  /\ pc' = [pc EXCEPT ![s] = IF NamesOf(r) # {} THEN "lookup"
                             ELSE IF r.kind = "close" THEN "close"
                             ELSE "user_allowed"]
  /\ answer' = [answer EXCEPT ![s] = NULL]
  /\ UNCHANGED <<inode_table, dir, files, iNumber>>

\* tfsUnmount and tfsMount: a new session thread with an empty table.
Mount(s) ==
  /\ pc[s] = "idle"
  /\ files' = [files EXCEPT ![s] = [fd \in fds |-> Closed]]
  /\ UNCHANGED <<inode_table, dir, pc, req, iNumber, answer>>
-----------------------------------------------------------------------------
(* Steps of a session thread. *)

At(s, kind, label) == req[s].kind = kind /\ pc[s] = label

\* i is what the local iNumber holds from here on.
Goto(s, label, i) ==
  /\ pc' = [pc EXCEPT ![s] = label]
  /\ iNumber' = [iNumber EXCEPT ![s] = i]
  /\ UNCHANGED <<req, answer>>

Reply(s, a) ==
  /\ pc' = [pc EXCEPT ![s] = "idle"]
  /\ req' = [req EXCEPT ![s] = NoRequest]
  /\ iNumber' = [iNumber EXCEPT ![s] = -1]
  /\ answer' = [answer EXCEPT ![s] = a]

apply_create(s) ==
  LET n == req[s].name
      permissions == req[s].permissions
  IN
  \/ /\ At(s, "create", "lookup")
     /\ IF lookup(n) = -1 THEN Goto(s, "inode_create", -1) ELSE Reply(s, FILE_ALREADY_EXISTS)
     /\ UNCHANGED <<inode_table, dir, files>>
  \/ /\ At(s, "create", "inode_create")
     /\ inode_create(userOf[s], permissions \div 10, permissions % 10)
     /\ Goto(s, "insert", inode_create_result)
     /\ UNCHANGED <<dir, files>>
  \/ /\ At(s, "create", "insert")
     /\ create(n, iNumber[s])
     /\ Reply(s, 0)
     /\ UNCHANGED <<inode_table, files>>

\* A fault: the i-node is not given back.
apply_delete_leaks(s) ==
  LET n == req[s].name IN
  \/ /\ At(s, "delete", "lookup")
     /\ IF lookup(n) = -1 THEN Reply(s, FILE_NOT_FOUND) ELSE Goto(s, "inode_get_owner", lookup(n))
     /\ UNCHANGED <<inode_table, dir, files>>
  \/ /\ At(s, "delete", "inode_get_owner")
     /\ \E inode \in inode_get(iNumber[s]) :
          IF inode.owner = userOf[s] THEN Goto(s, "remove", iNumber[s])
          ELSE Reply(s, PERMISSION_DENIED)
     /\ UNCHANGED <<inode_table, dir, files>>
  \/ /\ At(s, "delete", "remove")
     /\ delete(n)
     /\ Reply(s, 0)
     /\ UNCHANGED <<inode_table, files>>

apply_delete(s) ==
  LET n == req[s].name IN
  \/ /\ At(s, "delete", "lookup")
     /\ IF lookup(n) = -1 THEN Reply(s, FILE_NOT_FOUND) ELSE Goto(s, "inode_get_owner", lookup(n))
     /\ UNCHANGED <<inode_table, dir, files>>
  \/ /\ At(s, "delete", "inode_get_owner")
     /\ \E inode \in inode_get(iNumber[s]) :
          IF inode.owner = userOf[s] THEN Goto(s, "inode_delete", iNumber[s])
          ELSE Reply(s, PERMISSION_DENIED)
     /\ UNCHANGED <<inode_table, dir, files>>
  \/ /\ At(s, "delete", "inode_delete")
     /\ inode_delete(iNumber[s])
     /\ Goto(s, "remove", iNumber[s])
     /\ UNCHANGED <<dir, files>>
  \/ /\ At(s, "delete", "remove")
     /\ delete(n)
     /\ Reply(s, 0)
     /\ UNCHANGED <<inode_table, files>>

\* renameFile looks both names up again; what it finds is not reported.
renameFile(s) ==
  LET n == req[s].name
      new == req[s].name2
  IN
  \/ /\ pc[s] = "lookup_again"
     /\ Goto(s, "lookup_new_again", lookup(n))
     /\ UNCHANGED dir
  \/ /\ pc[s] = "lookup_new_again"
     /\ IF lookup(new) = -1 /\ iNumber[s] # -1 THEN Goto(s, "move", iNumber[s]) ELSE Reply(s, 0)
     /\ UNCHANGED dir
  \/ /\ pc[s] = "move"
     /\ dir' = [dir EXCEPT ![n] = -1, ![new] = iNumber[s]]
     /\ Reply(s, 0)

\* (a fault: an existing new name is not refused)
MayRenameAny(s) == iNumber[s] # -1
MayRename(s) == iNumber[s] # -1 /\ lookup(req[s].name2) = -1

apply_rename(s) ==
  /\ req[s].kind = "rename"
  /\ UNCHANGED <<inode_table, files>>
  /\ \/ /\ pc[s] = "lookup"
        /\ Goto(s, "lookup_new", lookup(req[s].name))
        /\ UNCHANGED dir
     \/ /\ pc[s] = "lookup_new"
        /\ IF MayRename(s)
           THEN Goto(s, "inode_get_owner", iNumber[s])
           ELSE Reply(s, IF iNumber[s] = -1 THEN FILE_NOT_FOUND ELSE FILE_ALREADY_EXISTS)
        /\ UNCHANGED dir
     \/ /\ pc[s] = "inode_get_owner"
        /\ \E inode \in inode_get(iNumber[s]) :
             IF inode.owner = userOf[s] THEN Goto(s, "lookup_again", iNumber[s])
             ELSE Reply(s, PERMISSION_DENIED)
        /\ UNCHANGED dir
     \/ renameFile(s)

\* What inode_get says is not used, so only the lookup is a step.
apply_open(s) ==
  LET i == lookup(req[s].name)
      unused == {fd \in fds : files[s][fd].iNumber = -1}
      first == CHOOSE fd \in unused : \A other \in unused : fd <= other
  IN
  /\ At(s, "open", "lookup")
  /\ UNCHANGED <<inode_table, dir>>
  /\ \/ i = -1 /\ Reply(s, FILE_NOT_FOUND) /\ UNCHANGED files
     \/ i # -1 /\ IsOpen(s, i) /\ Reply(s, FILE_IS_OPEN) /\ UNCHANGED files
     \/ /\ i # -1 /\ ~IsOpen(s, i) /\ unused = {}
        /\ Reply(s, MAXED_OPEN_FILES)
        /\ UNCHANGED files
     \/ /\ i # -1 /\ ~IsOpen(s, i) /\ unused # {}
        /\ files' = [files EXCEPT ![s][first] = [iNumber |-> i, mode |-> req[s].mode]]
        /\ Reply(s, first)

apply_close(s) ==
  /\ At(s, "close", "close")
  /\ UNCHANGED <<inode_table, dir>>
  /\ IF req[s].fd = -1
     THEN Reply(s, ERROR_OTHER) /\ UNCHANGED files
     ELSE Reply(s, 0) /\ files' = [files EXCEPT ![s][req[s].fd] = Closed]

\* The tests apply_write and apply_read share.
CheckDescriptor(s, perm, next) ==
  LET fd == req[s].fd
      file == files[s][fd]
  IN
  /\ pc[s] = "user_allowed"
  /\ UNCHANGED <<inode_table, dir, files>>
  /\ \/ fd = -1 /\ Reply(s, FILE_ALREADY_EXISTS)
     \/ fd # -1 /\ file.iNumber = -1 /\ Reply(s, FILE_NOT_OPEN)
     \/ /\ fd # -1 /\ file.iNumber # -1
        /\ \E inode \in inode_get(file.iNumber) :
             LET rc == user_allowed(userOf[s], file.mode, perm, inode) IN
             IF rc = 0 THEN Goto(s, next, file.iNumber) ELSE Reply(s, rc)

apply_write(s) ==
  \/ req[s].kind = "write" /\ CheckDescriptor(s, WRITE, "inode_set")
  \/ /\ At(s, "write", "inode_set")
     /\ inode_set(iNumber[s], req[s].content)
     /\ Reply(s, inode_set_result(iNumber[s]))
     /\ UNCHANGED <<dir, files>>

\* The buffer is zeroed before it is read into.
apply_read(s) ==
  \/ req[s].kind = "read" /\ CheckDescriptor(s, READ, "inode_get_content")
  \/ /\ At(s, "read", "inode_get_content")
     /\ Reply(s, IF Invalid(iNumber[s]) THEN NULL ELSE inode_table[iNumber[s]].fileContent)
     /\ UNCHANGED <<inode_table, dir, files>>

applyComands(s) ==
  \/ apply_create(s) \/ apply_delete(s) \/ apply_rename(s)
  \/ apply_open(s) \/ apply_close(s) \/ apply_write(s) \/ apply_read(s)

Next ==
  \E s \in Session : applyComands(s) \/ Mount(s) \/ \E r \in Requests : Call(s, r)

Spec == Init /\ [][Next]_vars
-----------------------------------------------------------------------------
(* Properties. *)

\* The name is about to leave the directory: its i-node is gone.
Leaving(n) == \E s \in Session : At(s, "delete", "remove") /\ req[s].name = n

\* The directory and the i-node table, which change at different times and
\* under different locks, agree: a name stands for an i-node in use, no two
\* for the same one, and an i-node in use has its name or is about to get it.
\* apply_delete frees the i-node first (main.c:137), so another create may have
\* it before the name is gone.
NamesHaveInodes ==
  /\ \A n \in Name :
       dir[n] # -1 /\ ~Leaving(n) =>
         /\ inode_table[dir[n]] # FREE_INODE
         /\ \A m \in Name : dir[m] = dir[n] /\ ~Leaving(m) => m = n
  /\ \A i \in Inumber :
       inode_table[i] # FREE_INODE =>
         \/ \E n \in Name : dir[n] = i /\ ~Leaving(n)
         \/ \E s \in Session : At(s, "create", "insert") /\ iNumber[s] = i

\* A write reaches only files that permit it: at the moment inode_set writes, the
\* permission the file gives its owner, or for everybody else the permission of
\* others, is WRITE or RW.  user_allowed reads it in a lock section before
\* (main.c:211-213), and in between the file may be deleted, open as it is, and
\* its i-node given to another.
MayWrite(s, inode) ==
  (IF inode.owner = userOf[s] THEN inode.ownerPermissions ELSE inode.othersPermissions)
    \in {WRITE, RW}

WritesArePermitted ==
  [][\A i \in Inumber :
       LET old == inode_table[i]
           new == inode_table'[i]
       IN
       old # FREE_INODE /\ new # FREE_INODE /\ old # new =>
         \E s \in Session : At(s, "write", "inode_set") /\ pc'[s] = "idle" /\ MayWrite(s, old)]_vars

\* What the clients see is FileService.  A delete has its effect when the
\* i-node goes, and a create that finds no room when it finds none.
Served(s) ==
  \/ At(s, "delete", "remove")
  \/ At(s, "create", "insert") /\ iNumber[s] = -1

namesBar == [n \in Name |-> IF Leaving(n) THEN -1 ELSE dir[n]]

inodesBar ==
  [i \in Inumber |->
     IF \E n \in Name : dir[n] = i /\ ~Leaving(n) THEN inode_table[i] ELSE FREE_INODE]

doneBar == [s \in Session |-> Served(s)]

answerBar == [s \in Session |-> IF Served(s) THEN 0 ELSE answer[s]]

Abs == INSTANCE FileService WITH
  Id <- Inumber, None <- FREE_INODE, names <- namesBar, inodes <- inodesBar,
  table <- files, done <- doneBar, answer <- answerBar

\* Clients that keep to Conduct and close before they delete see requests that
\* take effect one at a time, whatever the server's threads do in between.
ImplementsFileService == Abs!Spec
=============================================================================
