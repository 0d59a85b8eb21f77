--------------------------- MODULE AtomicDirectory ---------------------------
(***************************************************************************)
(* What the directory of TecnicoFS promises to the threads that share it:  *)
(* create, delete and lookup each take effect at one instant between the   *)
(* call and the return, and so does the move of a renameFile, which takes  *)
(* the old name away and puts the new one there at once.                   *)
(*                                                                         *)
(* It also says what is not promised: the two lookups with which a rename  *)
(* decides whether to move are instants of their own, before the move.     *)
(***************************************************************************)
EXTENDS Integers

CONSTANTS Thread, Name, MaxINumber

NotFound == 0

Command ==
  [kind : {"create", "delete", "lookup"}, name : Name]
    \cup [kind : {"rename"}, name : Name, name2 : Name]

NoCommand == [kind |-> "none"]

VARIABLES
  dir,          \* what each name is mapped to
  nextINumber,  \* the last i-number given out
  status,       \* how far the call of each thread is
  cmd,          \* the call
  iNumber       \* the i-number it was given or has found

vars == <<dir, nextINumber, status, cmd, iNumber>>

Init ==
  /\ dir = [n \in Name |-> NotFound]
  /\ nextINumber = 0
  /\ status = [t \in Thread |-> "idle"]
  /\ cmd = [t \in Thread |-> NoCommand]
  /\ iNumber = [t \in Thread |-> 0]

Call(t, c) ==
  /\ status[t] = "idle"
  /\ status' = [status EXCEPT ![t] = "called"]
  /\ cmd' = [cmd EXCEPT ![t] = c]
  /\ IF c.kind = "create"
     THEN /\ nextINumber < MaxINumber
          /\ nextINumber' = nextINumber + 1
          /\ iNumber' = [iNumber EXCEPT ![t] = nextINumber + 1]
     ELSE UNCHANGED <<nextINumber, iNumber>>
  /\ UNCHANGED dir

\* The instant at which the call of t, which has got as far as from, takes an
\* effect and gets as far as to.
Instant(t, kind, from, to) ==
  /\ status[t] = from
  /\ cmd[t].kind = kind
  /\ status' = [status EXCEPT ![t] = to]
  /\ UNCHANGED <<nextINumber, cmd>>

Create(t) ==
  /\ Instant(t, "create", "called", "done")
  /\ dir' = [dir EXCEPT ![cmd[t].name] = iNumber[t]]
  /\ UNCHANGED iNumber

Delete(t) ==
  /\ Instant(t, "delete", "called", "done")
  /\ dir' = [dir EXCEPT ![cmd[t].name] = NotFound]
  /\ UNCHANGED iNumber

Lookup(t) ==
  /\ Instant(t, "lookup", "called", "done")
  /\ iNumber' = [iNumber EXCEPT ![t] = dir[cmd[t].name]]
  /\ UNCHANGED dir

SeeOld(t) ==
  /\ Instant(t, "rename", "called", "seen_old")
  /\ iNumber' = [iNumber EXCEPT ![t] = dir[cmd[t].name]]
  /\ UNCHANGED dir

SeeNew(t) ==
  /\ Instant(t, "rename", "seen_old",
             IF dir[cmd[t].name2] = NotFound /\ iNumber[t] # NotFound
             THEN "may_move" ELSE "done")
  /\ UNCHANGED <<dir, iNumber>>

Move(t) ==
  /\ Instant(t, "rename", "may_move", "done")
  /\ dir' = [dir EXCEPT ![cmd[t].name] = NotFound, ![cmd[t].name2] = iNumber[t]]
  /\ UNCHANGED iNumber

Return(t) ==
  /\ status[t] = "done"
  /\ status' = [status EXCEPT ![t] = "idle"]
  /\ cmd' = [cmd EXCEPT ![t] = NoCommand]
  /\ iNumber' = [iNumber EXCEPT ![t] = 0]
  /\ UNCHANGED <<dir, nextINumber>>

Next ==
  \E t \in Thread :
    \/ \E c \in Command : Call(t, c)
    \/ Create(t) \/ Delete(t) \/ Lookup(t)
    \/ SeeOld(t) \/ SeeNew(t) \/ Move(t)
    \/ Return(t)

Spec == Init /\ [][Next]_vars
=============================================================================
