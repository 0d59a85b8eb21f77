------------------------------ MODULE Directory ------------------------------
(***************************************************************************)
(* The directory of TecnicoFS (fs.c): a hash table whose entries are       *)
(* binary search trees, each under a lock of its own, used by concurrent   *)
(* threads.  A thread executes create, delete, lookup and renameFile one   *)
(* lock operation and one tree operation at a time.                        *)
(*                                                                         *)
(* A tree is abstracted to what it maps: dir[n] is the i-number stored     *)
(* under the key n in the tree of the bucket of n, and NotFound if the     *)
(* tree has no such key (module Bst checks the trees themselves).          *)
(***************************************************************************)
EXTENDS Integers, SyncMech

CONSTANTS
  Name,       \* file names
  Hash,       \* the bucket of each name: hash(name, fs->hashMax)
  MaxINumber  \* bound on the i-numbers given out, to keep the model finite

ASSUME HashAssumption == Hash \in [Name -> Bucket]
ASSUME MaxAssumption == MaxINumber \in Nat

\* What lookup returns for a missing name; i-numbers start at 1.
NotFound == 0

Command ==
  [kind : {"create", "delete", "lookup"}, name : Name]
    \cup [kind : {"rename"}, name : Name, name2 : Name]

NoCommand == [kind |-> "none"]

VARIABLES
  dir,          \* the contents of the trees
  nextINumber,  \* the last i-number given out
  pc,           \* where each thread is
  cmd,          \* the command each thread executes
  iNumber,      \* create: its argument; lookup: its result; renameFile: iNumberOld
  iNumberNew    \* renameFile: iNumberNew

locals == <<cmd, iNumber, iNumberNew>>
vars == <<dir, nextINumber, pc, locals, lockVars>>

Label ==
  {"idle",
   "create_lock", "create_insert", "create_unlock",
   "delete_lock", "delete_remove", "delete_unlock",
   "lookup_lock", "lookup_search", "lookup_unlock",
   "old_lock", "old_search", "old_unlock",
   "new_lock", "new_search", "new_unlock",
   "same_wrlock", "old_wrlock", "new_trylock", "back_off",
   "rename_delete", "rename_create", "unlock_new", "unlock_old"}

TypeOK ==
  /\ SyncTypeOK
  /\ dir \in [Name -> 0..MaxINumber]
  /\ nextINumber \in 0..MaxINumber
  /\ pc \in [Thread -> Label]
  /\ cmd \in [Thread -> Command \cup {NoCommand}]
  /\ iNumber \in [Thread -> 0..MaxINumber]
  /\ iNumberNew \in [Thread -> 0..MaxINumber]

new_tecnicofs ==
  /\ dir = [n \in Name |-> NotFound]
  /\ nextINumber = 0
  /\ sync_init

Init ==
  /\ new_tecnicofs
  /\ pc = [t \in Thread |-> "idle"]
  /\ cmd = [t \in Thread |-> NoCommand]
  /\ iNumber = [t \in Thread |-> 0]
  /\ iNumberNew = [t \in Thread |-> 0]
-----------------------------------------------------------------------------
(* The steps the operations are made of. *)

Goto(t, label) == pc' = [pc EXCEPT ![t] = label]

\* The locals of a call end with it.
Return(t) ==
  /\ Goto(t, "idle")
  /\ cmd' = [cmd EXCEPT ![t] = NoCommand]
  /\ iNumber' = [iNumber EXCEPT ![t] = 0]
  /\ iNumberNew' = [iNumberNew EXCEPT ![t] = 0]

WrLock(t, b, at, next) ==
  /\ pc[t] = at
  /\ sync_wrlock(b, t)
  /\ Goto(t, next)
  /\ UNCHANGED <<dir, nextINumber, locals>>

RdLock(t, b, at, next) ==
  /\ pc[t] = at
  /\ sync_rdlock(b, t)
  /\ Goto(t, next)
  /\ UNCHANGED <<dir, nextINumber, locals>>

Unlock(t, b, at, next) ==
  /\ pc[t] = at
  /\ sync_unlock(b, t)
  /\ Goto(t, next)
  /\ UNCHANGED <<dir, nextINumber, locals>>

UnlockAndReturn(t, b, at) ==
  /\ pc[t] = at
  /\ sync_unlock(b, t)
  /\ Return(t)
  /\ UNCHANGED <<dir, nextINumber>>

\* insert (which overwrites the i-number of a key that is there) and, with
\* NotFound, remove_item (which leaves a tree without the key as it is).
Store(t, n, i, at, next) ==
  /\ pc[t] = at
  /\ dir' = [dir EXCEPT ![n] = i]
  /\ Goto(t, next)
  /\ UNCHANGED <<nextINumber, locals, lockVars>>

\* A fault: lookup answers -1 for a missing name.
SearchMinusOne(t, n, at, next) ==
  /\ pc[t] = at
  /\ iNumber' = [iNumber EXCEPT ![t] = IF dir[n] = NotFound THEN -1 ELSE dir[n]]
  /\ Goto(t, next)
  /\ UNCHANGED <<dir, nextINumber, cmd, iNumberNew, lockVars>>

Search(t, n, at, next) ==
  /\ pc[t] = at
  /\ iNumber' = [iNumber EXCEPT ![t] = dir[n]]
  /\ Goto(t, next)
  /\ UNCHANGED <<dir, nextINumber, cmd, iNumberNew, lockVars>>

SearchNew(t, n, at, next) ==
  /\ pc[t] = at
  /\ iNumberNew' = [iNumberNew EXCEPT ![t] = dir[n]]
  /\ Goto(t, next)
  /\ UNCHANGED <<dir, nextINumber, cmd, iNumber, lockVars>>
-----------------------------------------------------------------------------
(* The operations. *)

\* The caller takes a new i-number for a create before it calls create.
obtainNewInumber(t) ==
  /\ nextINumber < MaxINumber
  /\ nextINumber' = nextINumber + 1
  /\ iNumber' = [iNumber EXCEPT ![t] = nextINumber + 1]

Call(t, c) ==
  /\ pc[t] = "idle"
  /\ cmd' = [cmd EXCEPT ![t] = c]
  /\ \/ /\ c.kind = "create"
        /\ obtainNewInumber(t)
        /\ Goto(t, "create_lock")
     \/ /\ c.kind = "delete"
        /\ Goto(t, "delete_lock")
        /\ UNCHANGED <<nextINumber, iNumber>>
     \/ /\ c.kind = "lookup"
        /\ Goto(t, "lookup_lock")
        /\ UNCHANGED <<nextINumber, iNumber>>
     \/ /\ c.kind = "rename"
        /\ Goto(t, "old_lock")
        /\ UNCHANGED <<nextINumber, iNumber>>
  /\ UNCHANGED <<dir, iNumberNew, lockVars>>

\* A fault: create is called with the flag that says the caller has the lock.
CreateUnlocked(t) ==
  LET n == cmd[t].name IN
  \/ /\ pc[t] = "create_lock"
     /\ Goto(t, "create_insert")
     /\ UNCHANGED <<dir, nextINumber, locals, lockVars>>
  \/ /\ pc[t] = "create_insert"
     /\ dir' = [dir EXCEPT ![n] = iNumber[t]]
     /\ Return(t)
     /\ UNCHANGED <<nextINumber, lockVars>>

create(t) ==
  LET n == cmd[t].name IN
  \/ WrLock(t, Hash[n], "create_lock", "create_insert")
  \/ Store(t, n, iNumber[t], "create_insert", "create_unlock")
  \/ UnlockAndReturn(t, Hash[n], "create_unlock")

delete(t) ==
  LET n == cmd[t].name IN
  \/ WrLock(t, Hash[n], "delete_lock", "delete_remove")
  \/ Store(t, n, NotFound, "delete_remove", "delete_unlock")
  \/ UnlockAndReturn(t, Hash[n], "delete_unlock")

lookup(t) ==
  LET n == cmd[t].name IN
  \/ RdLock(t, Hash[n], "lookup_lock", "lookup_search")
  \/ Search(t, n, "lookup_search", "lookup_unlock")
  \/ UnlockAndReturn(t, Hash[n], "lookup_unlock")

\* renameFile first looks both names up, giving each lock back ...
RenameLookups(t) ==
  LET old == cmd[t].name
      new == cmd[t].name2
  IN
  \/ RdLock(t, Hash[old], "old_lock", "old_search")
  \/ Search(t, old, "old_search", "old_unlock")
  \/ Unlock(t, Hash[old], "old_unlock", "new_lock")
  \/ RdLock(t, Hash[new], "new_lock", "new_search")
  \/ SearchNew(t, new, "new_search", "new_unlock")

\* ... and goes on only if the old name was found and the new one was not.
\* (a fault: an existing new name is not refused)
FoundOld(t) == iNumber[t] # NotFound
MayRename(t) == iNumberNew[t] = NotFound /\ iNumber[t] # NotFound

RenameDecide(t) ==
  LET old == cmd[t].name
      new == cmd[t].name2
  IN
  /\ pc[t] = "new_unlock"
  /\ \/ ~MayRename(t) /\ UnlockAndReturn(t, Hash[new], "new_unlock")
     \/ /\ MayRename(t)
        /\ Hash[new] = Hash[old]
        /\ Unlock(t, Hash[new], "new_unlock", "same_wrlock")
     \/ /\ MayRename(t)
        /\ Hash[new] # Hash[old]
        /\ Unlock(t, Hash[new], "new_unlock", "old_wrlock")

\* One lock when both names share a bucket; else the lock of the old name,
\* then an attempt at the other, and both given up if the attempt fails.
\* (a fault: the second lock is waited for)
RenameLocksBlocking(t) ==
  LET old == cmd[t].name
      new == cmd[t].name2
  IN
  \/ WrLock(t, Hash[new], "same_wrlock", "rename_delete")
  \/ WrLock(t, Hash[old], "old_wrlock", "new_trylock")
  \/ WrLock(t, Hash[new], "new_trylock", "rename_delete")

RenameLocks(t) ==
  LET old == cmd[t].name
      new == cmd[t].name2
  IN
  \/ WrLock(t, Hash[new], "same_wrlock", "rename_delete")
  \/ WrLock(t, Hash[old], "old_wrlock", "new_trylock")
  \/ WrLock(t, Hash[new], "new_trylock", "rename_delete")
  \/ /\ pc[t] = "new_trylock"
     /\ TryLockFails(Hash[new])
     /\ Goto(t, "back_off")
     /\ UNCHANGED <<dir, nextINumber, locals>>
  \/ Unlock(t, Hash[old], "back_off", "old_wrlock")

\* The move itself: the names are not looked up again.
\* (a fault: only one of two locks is given back)
RenameMoveLeaking(t) ==
  LET old == cmd[t].name
      new == cmd[t].name2
  IN
  \/ Store(t, old, NotFound, "rename_delete", "rename_create")
  \/ Store(t, new, iNumber[t], "rename_create", "unlock_old")
  \/ UnlockAndReturn(t, Hash[old], "unlock_old")

RenameMove(t) ==
  LET old == cmd[t].name
      new == cmd[t].name2
  IN
  \/ Store(t, old, NotFound, "rename_delete", "rename_create")
  \/ Store(t, new, iNumber[t], "rename_create",
           IF Hash[new] = Hash[old] THEN "unlock_old" ELSE "unlock_new")
  \/ Unlock(t, Hash[new], "unlock_new", "unlock_old")
  \/ UnlockAndReturn(t, Hash[old], "unlock_old")

renameFile(t) ==
  RenameLookups(t) \/ RenameDecide(t) \/ RenameLocks(t) \/ RenameMove(t)

Step(t) == create(t) \/ delete(t) \/ lookup(t) \/ renameFile(t)

Next == \E t \in Thread : Step(t) \/ \E c \in Command : Call(t, c)

Spec == Init /\ [][Next]_vars
-----------------------------------------------------------------------------
(* Which locks and trees a thread is at work on, from where it is. *)

\* t is between taking the lock of bucket b to change its tree and giving it up ...
HoldsWrite(t, b) ==
  \/ /\ pc[t] \in {"create_insert", "create_unlock",
                  "delete_remove", "delete_unlock",
                  "new_trylock", "back_off", "unlock_old"}
     /\ b = Hash[cmd[t].name]
  \/ /\ pc[t] \in {"rename_delete", "rename_create", "unlock_new"}
     /\ b \in {Hash[cmd[t].name], Hash[cmd[t].name2]}

\* ... or to walk it.
HoldsRead(t, b) ==
  \/ /\ pc[t] \in {"lookup_search", "lookup_unlock", "old_search", "old_unlock"}
     /\ b = Hash[cmd[t].name]
  \/ /\ pc[t] \in {"new_search", "new_unlock"}
     /\ b = Hash[cmd[t].name2]

\* The next step of t changes the tree of b ...
Writes(t, b) ==
  \/ /\ pc[t] \in {"create_insert", "delete_remove", "rename_delete"}
     /\ b = Hash[cmd[t].name]
  \/ pc[t] = "rename_create" /\ b = Hash[cmd[t].name2]

\* ... or walks it.
Reads(t, b) ==
  \/ pc[t] \in {"lookup_search", "old_search"} /\ b = Hash[cmd[t].name]
  \/ pc[t] = "new_search" /\ b = Hash[cmd[t].name2]

\* The next step of t waits until it gets the lock of b, to read or to write.  (The
\* try-lock of a rename, at "new_trylock", does not wait.)
AwaitsRead(t, b) ==
  \/ pc[t] \in {"lookup_lock", "old_lock"} /\ b = Hash[cmd[t].name]
  \/ pc[t] = "new_lock" /\ b = Hash[cmd[t].name2]

AwaitsWrite(t, b) ==
  \/ pc[t] \in {"create_lock", "delete_lock", "old_wrlock"} /\ b = Hash[cmd[t].name]
  \/ pc[t] = "same_wrlock" /\ b = Hash[cmd[t].name2]

\* The threads that have the lock that t waits for.
WaitsFor(t) ==
  {u \in Thread : \E b \in Bucket :
     \/ u \in writers[b] /\ (AwaitsRead(t, b) \/ AwaitsWrite(t, b))
     \/ u \in readers[b] /\ AwaitsWrite(t, b)}
-----------------------------------------------------------------------------
(* Properties. *)

\* No thread changes a tree while another one changes or walks it: insert,
\* remove_item and search (lib/bst.c) follow and free nodes without any
\* protection but the lock of the bucket.
NoDataRace ==
  \A b \in Bucket : \A t, u \in Thread :
    t # u /\ Writes(t, b) => ~Writes(u, b) /\ ~Reads(u, b)

\* A lock is held by exactly the threads between its lock and its unlock, on
\* every path through renameFile, and never by a writer and anyone else: no
\* path leaves with a lock or gives up one it still needs.
Exclusive(b) ==
  /\ \A t, u \in writers[b] : t = u
  /\ writers[b] # {} => readers[b] = {}

LocksAgree ==
  Mech # "NOSYNC" =>
    \A b \in Bucket :
      /\ Exclusive(b)
      /\ \A t \in Thread :
           /\ t \in writers[b] <=>
                HoldsWrite(t, b) \/ (Mech = "MUTEX" /\ HoldsRead(t, b))
           /\ t \in readers[b] <=> Mech = "RWLOCK" /\ HoldsRead(t, b)

\* Of the threads that are in an operation some thread can take a step: no
\* set of threads waits for each other's locks.  Two renames between the same
\* two buckets in opposite directions are the case the try-lock is there for.
NoDeadlock ==
  LET busy == {t \in Thread : pc[t] # "idle"}
  IN busy # {} => \E t \in busy : ENABLED Step(t)

\* Who waits for a lock waits for threads that are inside an operation and
\* wait for no lock themselves: renameFile holds one lock when it wants the
\* next, but does not wait then (fs.c:85-96).
NoCircularWait ==
  \A t \in Thread : \A u \in WaitsFor(t) : pc[u] # "idle" /\ WaitsFor(u) = {}

\* What the threads see is AtomicDirectory.  A rename that has deleted the old
\* name and not yet created the new one is seen as done: the new name stands
\* for the i-number it is about to get.
Moving(t, n) == pc[t] = "rename_create" /\ cmd[t].name2 = n

dirBar ==
  [n \in Name |-> IF \E t \in Thread : Moving(t, n)
                  THEN iNumber[CHOOSE t \in Thread : Moving(t, n)]
                  ELSE dir[n]]

StatusOf(t) ==
  CASE pc[t] = "idle" -> "idle"
    [] pc[t] \in {"create_lock", "create_insert", "delete_lock", "delete_remove",
                  "lookup_lock", "lookup_search", "old_lock", "old_search"}
         -> "called"
    [] pc[t] \in {"old_unlock", "new_lock", "new_search"} -> "seen_old"
    [] pc[t] \in {"same_wrlock", "old_wrlock", "new_trylock", "back_off",
                  "rename_delete"}
         -> "may_move"
    [] pc[t] = "new_unlock" -> IF MayRename(t) THEN "may_move" ELSE "done"
    [] OTHER -> "done"

statusBar == [t \in Thread |-> StatusOf(t)]

Abs == INSTANCE AtomicDirectory WITH dir <- dirBar, status <- statusBar

\* Every operation takes effect at one instant, whatever the other threads do
\* (create, delete, lookup, renameFile of fs.c under their locks).
ImplementsAtomicDirectory == Abs!Spec

\* A rename does not overwrite a file: fs.c:100 refuses a new name that exists,
\* with the comment "Erro de ja existir".  The code decides that before it
\* takes the locks under which it moves, so it does not hold.
RenameNeverOverwrites ==
  [][\A t \in Thread :
       pc[t] = "rename_create" /\ pc'[t] # "rename_create"
         => dir[cmd[t].name2] = NotFound]_vars
=============================================================================
