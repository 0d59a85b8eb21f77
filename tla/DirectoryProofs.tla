--------------------------- MODULE DirectoryProofs ---------------------------
(***************************************************************************)
(* Proofs about Directory, for any threads, names, buckets and hash, and   *)
(* for each of the three builds.                                           *)
(***************************************************************************)
EXTENDS Directory, HashOfName, TLAPS

\* Where a thread executes which command.
CreateLabel == {"create_lock", "create_insert", "create_unlock"}
DeleteLabel == {"delete_lock", "delete_remove", "delete_unlock"}
LookupLabel == {"lookup_lock", "lookup_search", "lookup_unlock"}
RenameLabel == Label \ ({"idle"} \cup CreateLabel \cup DeleteLabel \cup LookupLabel)

CommandAt(t) ==
  /\ cmd[t] \in IF pc[t] = "idle" THEN {NoCommand} ELSE Command
  /\ pc[t] \in CreateLabel => cmd[t].kind = "create"
  /\ pc[t] \in DeleteLabel => cmd[t].kind = "delete"
  /\ pc[t] \in LookupLabel => cmd[t].kind = "lookup"
  /\ pc[t] \in RenameLabel => cmd[t].kind = "rename"

\* The two ways of a rename: one lock, or two.
BucketsAt(t) ==
  /\ pc[t] = "same_wrlock" => Hash[cmd[t].name2] = Hash[cmd[t].name]
  /\ pc[t] \in {"old_wrlock", "new_trylock", "back_off", "unlock_new"}
       => Hash[cmd[t].name2] # Hash[cmd[t].name]

CommandsAgree == \A t \in Thread : CommandAt(t) /\ BucketsAt(t)

\* The inductive invariant.
IInv == TypeOK /\ CommandsAgree /\ LocksAgree
-----------------------------------------------------------------------------
LEMMA InitIInv == Init => IInv
  <1> SUFFICES ASSUME Init PROVE IInv
    OBVIOUS
  <1> USE DEF Init, new_tecnicofs, sync_init
  <1>1. TypeOK
    BY MaxAssumption DEF TypeOK, SyncTypeOK, Label, NotFound
  <1>2. CommandsAgree
    BY DEF CommandsAgree, CommandAt, BucketsAt, CreateLabel, DeleteLabel,
           LookupLabel, RenameLabel
  <1>3. LocksAgree
    BY MechAssumption DEF LocksAgree, Exclusive, HoldsWrite, HoldsRead
  <1> QED
    BY <1>1, <1>2, <1>3 DEF IInv

\* The only commands with a second name are renames; every command has a name.
LEMMA CommandFields ==
  ASSUME NEW c \in Command
  PROVE  /\ c.kind \in {"create", "delete", "lookup", "rename"}
         /\ c.name \in Name
         /\ c.kind = "rename" => c.name2 \in Name
  BY DEF Command

LEMMA TypeStep == TypeOK /\ CommandsAgree /\ [Next]_vars => TypeOK'
  <1> SUFFICES ASSUME TypeOK, CommandsAgree, [Next]_vars PROVE TypeOK'
    OBVIOUS
  <1> USE DEF TypeOK, SyncTypeOK
  <1>1. CASE UNCHANGED vars
    BY <1>1 DEF vars, locals, lockVars
  <1>2. ASSUME NEW t \in Thread, NEW c \in Command, Call(t, c)
        PROVE  TypeOK'
    BY <1>2, MaxAssumption DEF Call, Goto, obtainNewInumber, Label, lockVars
  <1>3. ASSUME NEW t \in Thread, NEW b, NEW at, NEW next \in Label,
               WrLock(t, b, at, next)
        PROVE  TypeOK'
    BY <1>3 DEF WrLock, Goto, sync_wrlock, do_nothing, locals, lockVars
  <1>4. ASSUME NEW t \in Thread, NEW b, NEW at, NEW next \in Label,
               RdLock(t, b, at, next)
        PROVE  TypeOK'
    BY <1>4 DEF RdLock, Goto, sync_rdlock, sync_wrlock, do_nothing, locals, lockVars
  <1>5. ASSUME NEW t \in Thread, NEW b, NEW at, NEW next \in Label,
               Unlock(t, b, at, next)
        PROVE  TypeOK'
    BY <1>5 DEF Unlock, Goto, sync_unlock, do_nothing, locals, lockVars
  <1>6. ASSUME NEW t \in Thread, NEW b, NEW at, UnlockAndReturn(t, b, at)
        PROVE  TypeOK'
    BY <1>6, MaxAssumption
       DEF UnlockAndReturn, Return, Goto, sync_unlock, do_nothing, lockVars, Label
  <1>7. ASSUME NEW t \in Thread, NEW n, NEW i \in 0..MaxINumber, NEW at,
               NEW next \in Label, Store(t, n, i, at, next)
        PROVE  TypeOK'
    BY <1>7 DEF Store, Goto, locals, lockVars
  <1>8. ASSUME NEW t \in Thread, NEW n \in Name, NEW at, NEW next \in Label,
               Search(t, n, at, next) \/ SearchNew(t, n, at, next)
        PROVE  TypeOK'
    BY <1>8 DEF Search, SearchNew, Goto, locals, lockVars
  <1>9. ASSUME NEW t \in Thread, NEW b, TryLockFails(b), Goto(t, "back_off"),
               UNCHANGED <<dir, nextINumber, locals>>
        PROVE  TypeOK'
    BY <1>9 DEF TryLockFails, Goto, locals, lockVars, Label
  <1>10. NotFound \in 0..MaxINumber
    BY MaxAssumption DEF NotFound
  <1>11. ASSUME NEW t \in Thread, create(t) \/ delete(t)
         PROVE  TypeOK'
    BY <1>3, <1>6, <1>7, <1>10, <1>11 DEF create, delete, Label
  <1>12. ASSUME NEW t \in Thread, pc[t] \in LookupLabel \cup RenameLabel
         PROVE  /\ cmd[t].name \in Name
                /\ pc[t] \in RenameLabel => cmd[t].name2 \in Name
    BY <1>12, CommandFields
       DEF CommandsAgree, CommandAt, LookupLabel, RenameLabel, Label
  <1>13. ASSUME NEW t \in Thread, lookup(t)
         PROVE  TypeOK'
    <2>1. CASE pc[t] \in LookupLabel
      BY <1>4, <1>6, <1>8, <1>12, <1>13, <2>1 DEF lookup, Label
    <2> QED
      BY <1>13, <2>1
         DEF lookup, RdLock, Search, UnlockAndReturn, LookupLabel
  <1>14. ASSUME NEW t \in Thread, renameFile(t)
         PROVE  TypeOK'
    <2>1. pc[t] \in RenameLabel
      BY <1>14
         DEF renameFile, RenameLookups, RenameDecide, RenameLocks, RenameMove,
             RdLock, WrLock, Search, SearchNew, Unlock, UnlockAndReturn, Store,
             RenameLabel, CreateLabel, DeleteLabel, LookupLabel, Label
    <2>2. CASE RenameLookups(t)
      BY <1>4, <1>5, <1>8, <1>12, <2>1, <2>2 DEF RenameLookups, Label
    <2>3. CASE RenameDecide(t)
      BY <1>5, <1>6, <2>3 DEF RenameDecide, Label
    <2>4. CASE RenameLocks(t)
      BY <1>3, <1>5, <1>9, <2>4 DEF RenameLocks, Label
    <2>5. CASE RenameMove(t)
      BY <1>5, <1>6, <1>7, <1>10, <2>5 DEF RenameMove, Label
    <2> QED
      BY <1>14, <2>2, <2>3, <2>4, <2>5 DEF renameFile
  <1> QED
    BY <1>1, <1>2, <1>11, <1>13, <1>14 DEF Next, Step
-----------------------------------------------------------------------------
\* A step moves one thread: the others are where they were, with their locals.
Moves(t) ==
  \A u \in Thread \ {t} :
    /\ pc'[u] = pc[u]
    /\ cmd'[u] = cmd[u]
    /\ iNumber'[u] = iNumber[u]
    /\ iNumberNew'[u] = iNumberNew[u]

LEMMA StepMoves ==
  ASSUME TypeOK, NEW t \in Thread, Step(t) \/ \E c \in Command : Call(t, c)
  PROVE  Moves(t)
  <1> USE DEF TypeOK, Moves
  <1>1. CASE \E c \in Command : Call(t, c)
    BY <1>1 DEF Call, Goto, obtainNewInumber
  <1>2. CASE create(t) \/ delete(t) \/ lookup(t)
    BY <1>2
       DEF create, delete, lookup, WrLock, RdLock, Store, Search, UnlockAndReturn,
           Return, Goto, locals
  <1>3. CASE RenameLookups(t) \/ RenameDecide(t)
    BY <1>3
       DEF RenameLookups, RenameDecide, RdLock, Search, SearchNew, Unlock,
           UnlockAndReturn, Return, Goto, locals
  <1>4. CASE RenameLocks(t) \/ RenameMove(t)
    BY <1>4
       DEF RenameLocks, RenameMove, WrLock, Store, Unlock, UnlockAndReturn,
           Return, Goto, locals
  <1> QED
    BY <1>1, <1>2, <1>3, <1>4 DEF Step, renameFile

LEMMA CommandsStep == TypeOK /\ CommandsAgree /\ [Next]_vars => CommandsAgree'
  <1> SUFFICES ASSUME TypeOK, CommandsAgree, [Next]_vars PROVE CommandsAgree'
    OBVIOUS
  <1>1. CASE UNCHANGED vars
    BY <1>1 DEF vars, locals, CommandsAgree, CommandAt, BucketsAt
  <1>2. ASSUME NEW t \in Thread, Moves(t), (CommandAt(t) /\ BucketsAt(t))'
        PROVE  CommandsAgree'
    BY <1>2 DEF Moves, CommandsAgree, CommandAt, BucketsAt
  <1> USE DEF TypeOK, CommandsAgree, CommandAt, BucketsAt,
              CreateLabel, DeleteLabel, LookupLabel, RenameLabel, Label
  <1>3. ASSUME NEW t \in Thread, NEW c \in Command, Call(t, c)
        PROVE  (CommandAt(t) /\ BucketsAt(t))'
    BY <1>3, CommandFields DEF Call, Goto
  <1>4. ASSUME NEW t \in Thread, create(t) \/ delete(t) \/ lookup(t)
        PROVE  (CommandAt(t) /\ BucketsAt(t))'
    BY <1>4
       DEF create, delete, lookup, WrLock, RdLock, Store, Search, UnlockAndReturn,
           Return, Goto, locals
  <1>5. ASSUME NEW t \in Thread, RenameLookups(t)
        PROVE  (CommandAt(t) /\ BucketsAt(t))'
    BY <1>5
       DEF RenameLookups, RdLock, Search, SearchNew, Unlock, Goto, locals
  <1>6. ASSUME NEW t \in Thread, RenameDecide(t)
        PROVE  (CommandAt(t) /\ BucketsAt(t))'
    BY <1>6 DEF RenameDecide, Unlock, UnlockAndReturn, Return, Goto, locals
  <1>7. ASSUME NEW t \in Thread, RenameLocks(t)
        PROVE  (CommandAt(t) /\ BucketsAt(t))'
    BY <1>7 DEF RenameLocks, WrLock, Unlock, Goto, locals
  <1>8. ASSUME NEW t \in Thread, RenameMove(t)
        PROVE  (CommandAt(t) /\ BucketsAt(t))'
    BY <1>8 DEF RenameMove, Store, Unlock, UnlockAndReturn, Return, Goto, locals
  <1> HIDE DEF TypeOK, CommandsAgree, CommandAt, BucketsAt,
               CreateLabel, DeleteLabel, LookupLabel, RenameLabel, Label
  <1> QED
    BY <1>1, <1>2, <1>3, <1>4, <1>5, <1>6, <1>7, <1>8, StepMoves
       DEF Next, Step, renameFile
-----------------------------------------------------------------------------
(* What each lock operation does to the agreement of locks and threads. *)

SameWrite == \A u \in Thread, b \in Bucket : HoldsWrite(u, b)' <=> HoldsWrite(u, b)
SameRead == \A u \in Thread, b \in Bucket : HoldsRead(u, b)' <=> HoldsRead(u, b)

LEMMA LocksAfterNothing ==
  ASSUME LocksAgree, UNCHANGED lockVars, SameWrite, SameRead
  PROVE  LocksAgree'
  BY DEF LocksAgree, Exclusive, lockVars, SameWrite, SameRead

LEMMA LocksAfterWrLock ==
  ASSUME TypeOK, LocksAgree, NEW t \in Thread, NEW x \in Bucket, sync_wrlock(x, t),
         SameRead,
         \A u \in Thread, b \in Bucket :
           HoldsWrite(u, b)' <=> HoldsWrite(u, b) \/ (u = t /\ b = x)
  PROVE  LocksAgree'
  BY MechAssumption
     DEF TypeOK, SyncTypeOK, LocksAgree, Exclusive, sync_wrlock, do_nothing, Held,
         SameRead

LEMMA LocksAfterRdLock ==
  ASSUME TypeOK, LocksAgree, NEW t \in Thread, NEW x \in Bucket, sync_rdlock(x, t),
         SameWrite,
         \A u \in Thread, b \in Bucket :
           HoldsRead(u, b)' <=> HoldsRead(u, b) \/ (u = t /\ b = x)
  PROVE  LocksAgree'
  BY MechAssumption
     DEF TypeOK, SyncTypeOK, LocksAgree, Exclusive, sync_rdlock, sync_wrlock,
         do_nothing, Held, SameWrite

LEMMA LocksAfterUnlock ==
  ASSUME TypeOK, LocksAgree, NEW t \in Thread, NEW x \in Bucket, sync_unlock(x, t),
         \A u \in Thread, b \in Bucket :
           /\ HoldsWrite(u, b)' <=> HoldsWrite(u, b) /\ ~(u = t /\ b = x)
           /\ HoldsRead(u, b)' <=> HoldsRead(u, b) /\ ~(u = t /\ b = x)
  PROVE  LocksAgree'
  BY MechAssumption
     DEF TypeOK, SyncTypeOK, LocksAgree, Exclusive, sync_unlock, do_nothing

\* The names a thread works on are names, so their buckets are buckets.
LEMMA BucketsOfCommand ==
  ASSUME TypeOK, CommandsAgree, NEW t \in Thread, pc[t] # "idle"
  PROVE  /\ cmd[t].name \in Name /\ Hash[cmd[t].name] \in Bucket
         /\ pc[t] \in RenameLabel =>
              cmd[t].name2 \in Name /\ Hash[cmd[t].name2] \in Bucket
  BY CommandFields, HashAssumption DEF CommandsAgree, CommandAt

LEMMA HoldsFrame ==
  ASSUME NEW t \in Thread, Moves(t), NEW u \in Thread \ {t}, NEW b
  PROVE  /\ HoldsWrite(u, b)' <=> HoldsWrite(u, b)
         /\ HoldsRead(u, b)' <=> HoldsRead(u, b)
  BY DEF Moves, HoldsWrite, HoldsRead

LEMMA LocksStep ==
  TypeOK /\ CommandsAgree /\ LocksAgree /\ [Next]_vars => LocksAgree'
  <1> SUFFICES ASSUME TypeOK, CommandsAgree, LocksAgree, [Next]_vars
               PROVE  LocksAgree'
    OBVIOUS
  <1>1. CASE UNCHANGED vars
    <2>1. SameWrite /\ SameRead
      BY <1>1 DEF vars, locals, SameWrite, SameRead, HoldsWrite, HoldsRead
    <2> QED
      BY <1>1, <2>1, LocksAfterNothing DEF vars, lockVars
  <1>2. ASSUME NEW t \in Thread, NEW c \in Command, Call(t, c)
        PROVE  LocksAgree'
    <2>1. SameWrite /\ SameRead
      BY <1>2, StepMoves, HoldsFrame
         DEF TypeOK, Call, Goto, SameWrite, SameRead, HoldsWrite, HoldsRead
    <2> QED
      BY <1>2, <2>1, LocksAfterNothing DEF Call
  <1>3. ASSUME NEW t \in Thread, Step(t)
        PROVE  LocksAgree'
    <2>1. Moves(t)
      BY <1>3, StepMoves
    <2>2. \A u \in Thread \ {t}, b \in Bucket :
            /\ HoldsWrite(u, b)' <=> HoldsWrite(u, b)
            /\ HoldsRead(u, b)' <=> HoldsRead(u, b)
      BY <2>1, HoldsFrame
    <2> DEFINE n == cmd[t].name
               n2 == cmd[t].name2
               SameW == \A b \in Bucket : HoldsWrite(t, b)' <=> HoldsWrite(t, b)
               SameR == \A b \in Bucket : HoldsRead(t, b)' <=> HoldsRead(t, b)
               MoreW(x) == \A b \in Bucket :
                             HoldsWrite(t, b)' <=> HoldsWrite(t, b) \/ b = x
               MoreR(x) == \A b \in Bucket :
                             HoldsRead(t, b)' <=> HoldsRead(t, b) \/ b = x
               Less(x) == \A b \in Bucket :
                            /\ HoldsWrite(t, b)' <=> HoldsWrite(t, b) /\ b # x
                            /\ HoldsRead(t, b)' <=> HoldsRead(t, b) /\ b # x
    <2>3. ASSUME UNCHANGED lockVars, SameW, SameR PROVE LocksAgree'
      BY <2>2, <2>3, LocksAfterNothing DEF SameWrite, SameRead
    <2>4. ASSUME NEW x \in Bucket, sync_wrlock(x, t), MoreW(x), SameR
          PROVE  LocksAgree'
      BY <2>2, <2>4, LocksAfterWrLock DEF SameRead
    <2>5. ASSUME NEW x \in Bucket, sync_rdlock(x, t), MoreR(x), SameW
          PROVE  LocksAgree'
      BY <2>2, <2>5, LocksAfterRdLock DEF SameWrite
    <2>6. ASSUME NEW x \in Bucket, sync_unlock(x, t), Less(x)
          PROVE  LocksAgree'
      BY <2>2, <2>6, LocksAfterUnlock
    <2>7. /\ pc[t] # "idle" => Hash[n] \in Bucket
          /\ pc[t] \in RenameLabel => Hash[n2] \in Bucket
      BY BucketsOfCommand DEF TypeOK, RenameLabel
    <2> USE DEF TypeOK
    <2>8. CASE create(t) \/ delete(t)
      <3>1. CASE WrLock(t, Hash[n], "create_lock", "create_insert")
                 \/ WrLock(t, Hash[n], "delete_lock", "delete_remove")
        BY <3>1, <2>4, <2>7 DEF WrLock, Goto, locals, HoldsWrite, HoldsRead
      <3>2. CASE Store(t, n, iNumber[t], "create_insert", "create_unlock")
                 \/ Store(t, n, NotFound, "delete_remove", "delete_unlock")
        BY <3>2, <2>3 DEF Store, Goto, locals, HoldsWrite, HoldsRead
      <3>3. CASE UnlockAndReturn(t, Hash[n], "create_unlock")
                 \/ UnlockAndReturn(t, Hash[n], "delete_unlock")
        BY <3>3, <2>6, <2>7 DEF UnlockAndReturn, Return, Goto, HoldsWrite, HoldsRead
      <3> QED
        BY <2>8, <3>1, <3>2, <3>3 DEF create, delete
    <2>9. CASE lookup(t)
      <3>1. CASE RdLock(t, Hash[n], "lookup_lock", "lookup_search")
        BY <3>1, <2>5, <2>7 DEF RdLock, Goto, locals, HoldsWrite, HoldsRead
      <3>2. CASE Search(t, n, "lookup_search", "lookup_unlock")
        BY <3>2, <2>3 DEF Search, Goto, HoldsWrite, HoldsRead
      <3>3. CASE UnlockAndReturn(t, Hash[n], "lookup_unlock")
        BY <3>3, <2>6, <2>7 DEF UnlockAndReturn, Return, Goto, HoldsWrite, HoldsRead
      <3> QED
        BY <2>9, <3>1, <3>2, <3>3 DEF lookup
    <2> USE DEF RenameLabel, Label, CreateLabel, DeleteLabel, LookupLabel
    <2>10. CASE RenameLookups(t)
      <3>1. CASE RdLock(t, Hash[n], "old_lock", "old_search")
                 \/ RdLock(t, Hash[n2], "new_lock", "new_search")
        BY <3>1, <2>5, <2>7 DEF RdLock, Goto, locals, HoldsWrite, HoldsRead
      <3>2. CASE Search(t, n, "old_search", "old_unlock")
                 \/ SearchNew(t, n2, "new_search", "new_unlock")
        BY <3>2, <2>3 DEF Search, SearchNew, Goto, HoldsWrite, HoldsRead
      <3>3. CASE Unlock(t, Hash[n], "old_unlock", "new_lock")
        BY <3>3, <2>6, <2>7 DEF Unlock, Goto, locals, HoldsWrite, HoldsRead
      <3> QED
        BY <2>10, <3>1, <3>2, <3>3 DEF RenameLookups
    <2>11. CASE RenameDecide(t)
      <3>1. CASE UnlockAndReturn(t, Hash[n2], "new_unlock")
        BY <3>1, <2>6, <2>7 DEF UnlockAndReturn, Return, Goto, HoldsWrite, HoldsRead
      <3>2. CASE Unlock(t, Hash[n2], "new_unlock", "same_wrlock")
                 \/ Unlock(t, Hash[n2], "new_unlock", "old_wrlock")
        BY <3>2, <2>6, <2>7 DEF Unlock, Goto, locals, HoldsWrite, HoldsRead
      <3> QED
        BY <2>11, <3>1, <3>2 DEF RenameDecide
    <2>12. CommandAt(t) /\ BucketsAt(t)
      BY DEF CommandsAgree
    <2>13. CASE RenameLocks(t)
      <3>1. CASE WrLock(t, Hash[n2], "same_wrlock", "rename_delete")
        BY <3>1, <2>4, <2>7, <2>12
           DEF BucketsAt, WrLock, Goto, locals, HoldsWrite, HoldsRead
      <3>2. CASE WrLock(t, Hash[n], "old_wrlock", "new_trylock")
        BY <3>2, <2>4, <2>7 DEF WrLock, Goto, locals, HoldsWrite, HoldsRead
      <3>3. CASE WrLock(t, Hash[n2], "new_trylock", "rename_delete")
        BY <3>3, <2>4, <2>7 DEF WrLock, Goto, locals, HoldsWrite, HoldsRead
      <3>4. CASE /\ pc[t] = "new_trylock"
                 /\ TryLockFails(Hash[n2])
                 /\ Goto(t, "back_off")
                 /\ UNCHANGED <<dir, nextINumber, locals>>
        BY <3>4, <2>3 DEF TryLockFails, Goto, locals, HoldsWrite, HoldsRead
      <3>5. CASE Unlock(t, Hash[n], "back_off", "old_wrlock")
        BY <3>5, <2>6, <2>7 DEF Unlock, Goto, locals, HoldsWrite, HoldsRead
      <3> QED
        BY <2>13, <3>1, <3>2, <3>3, <3>4, <3>5 DEF RenameLocks
    <2>14. CASE RenameMove(t)
      <3>1. CASE Store(t, n, NotFound, "rename_delete", "rename_create")
        BY <3>1, <2>3 DEF Store, Goto, locals, HoldsWrite, HoldsRead
      <3>2. CASE Store(t, n2, iNumber[t], "rename_create",
                       IF Hash[n2] = Hash[n] THEN "unlock_old" ELSE "unlock_new")
        BY <3>2, <2>3 DEF Store, Goto, locals, HoldsWrite, HoldsRead
      <3>3. CASE Unlock(t, Hash[n2], "unlock_new", "unlock_old")
        BY <3>3, <2>6, <2>7, <2>12
           DEF BucketsAt, Unlock, Goto, locals, HoldsWrite, HoldsRead
      <3>4. CASE UnlockAndReturn(t, Hash[n], "unlock_old")
        BY <3>4, <2>6, <2>7 DEF UnlockAndReturn, Return, Goto, HoldsWrite, HoldsRead
      <3> QED
        BY <2>14, <3>1, <3>2, <3>3, <3>4 DEF RenameMove
    <2> QED
      BY <1>3, <2>8, <2>9, <2>10, <2>11, <2>13, <2>14 DEF Step, renameFile
  <1> QED
    BY <1>1, <1>2, <1>3 DEF Next
-----------------------------------------------------------------------------
\* The invariant is inductive.
THEOREM Invariance == Spec => []IInv
  <1>1. IInv /\ [Next]_vars => IInv'
    BY TypeStep, CommandsStep, LocksStep DEF IInv
  <1> QED
    BY InitIInv, <1>1, PTL DEF Spec

\* Every variable keeps to its type, whatever the threads do.
THEOREM TypeCorrect == Spec => []TypeOK
  BY Invariance, PTL DEF IInv

\* The locks of sync.c are held by the threads that are between the lock and the
\* unlock of an operation of fs.c and by no others, and exclusively by writers.
THEOREM LocksCorrect == Spec => []LocksAgree
  BY Invariance, PTL DEF IInv

\* What a thread that holds a bucket to write can count on, in every build.
LEMMA Isolation ==
  ASSUME IInv, NEW b \in Bucket, NEW t \in Thread, NEW u \in Thread, t # u,
         HoldsWrite(t, b)
  PROVE  ~HoldsWrite(u, b) /\ ~HoldsRead(u, b)
  BY MechAssumption, NoSyncAssumption DEF IInv, LocksAgree, Exclusive

\* No two threads are at the same tree unless both only walk it: insert,
\* remove_item and search of lib/bst.c never meet.
THEOREM NoRace == Spec => []NoDataRace
  <1>1. IInv => NoDataRace
    <2> SUFFICES ASSUME IInv, NEW b \in Bucket, NEW t \in Thread, NEW u \in Thread,
                        t # u, Writes(t, b)
                 PROVE  ~Writes(u, b) /\ ~Reads(u, b)
      BY DEF NoDataRace
    <2>1. HoldsWrite(t, b)
      BY DEF Writes, HoldsWrite
    <2>2. ~HoldsWrite(u, b) /\ ~HoldsRead(u, b)
      BY <2>1, Isolation
    <2> QED
      BY <2>2 DEF Writes, Reads, HoldsWrite, HoldsRead
  <1> QED
    BY Invariance, <1>1, PTL
-----------------------------------------------------------------------------
(* Who waits for whom. *)

\* Without locks nobody is ever seen to hold one.
NoLocks == Mech = "NOSYNC" => \A b \in Bucket : writers[b] = {} /\ readers[b] = {}

LEMMA NoLocksInvariant == Spec => []NoLocks
  <1>1. Init => NoLocks
    BY DEF Init, new_tecnicofs, sync_init, NoLocks
  <1>2. NoLocks /\ [Next]_vars => NoLocks'
    <2> SUFFICES ASSUME NoLocks, [Next]_vars, Mech = "NOSYNC" PROVE UNCHANGED lockVars
      BY DEF NoLocks, lockVars
    <2> USE DEF sync_wrlock, sync_rdlock, sync_unlock, do_nothing, lockVars
    <2>1. ASSUME NEW t \in Thread, create(t) \/ delete(t) \/ lookup(t) PROVE UNCHANGED lockVars
      BY <2>1 DEF create, delete, lookup, WrLock, RdLock, Store, Search, UnlockAndReturn
    <2>2. ASSUME NEW t \in Thread, renameFile(t) PROVE UNCHANGED lockVars
      BY <2>2 DEF renameFile, RenameLookups, RenameDecide, RenameLocks, RenameMove, WrLock,
                  RdLock, Unlock, Store, Search, SearchNew, UnlockAndReturn, TryLockFails
    <2>3. ASSUME NEW t \in Thread, NEW c \in Command, Call(t, c) PROVE UNCHANGED lockVars
      BY <2>3 DEF Call
    <2> QED
      BY <2>1, <2>2, <2>3 DEF Next, Step, vars
  <1> QED
    BY <1>1, <1>2, PTL DEF Spec

LEMMA HolderRuns ==
  ASSUME LocksAgree, NEW b \in Bucket, NEW u \in Thread,
         u \in writers[b] \/ u \in readers[b], NoLocks
  PROVE  pc[u] # "idle" /\ \A x : ~AwaitsRead(u, x) /\ ~AwaitsWrite(u, x)
  <1>1. HoldsWrite(u, b) \/ HoldsRead(u, b)
    BY DEF LocksAgree, NoLocks
  <1> QED
    BY <1>1 DEF HoldsWrite, HoldsRead, AwaitsRead, AwaitsWrite

\* Nobody who holds a lock waits for one, so that no circle of threads can wait
\* for each other, whatever the number of threads, names and buckets.
THEOREM NoCircle == Spec => []NoCircularWait
  <1>1. ASSUME IInv, NoLocks PROVE NoCircularWait
    <2> SUFFICES ASSUME NEW t \in Thread, NEW u \in WaitsFor(t)
                 PROVE  pc[u] # "idle" /\ WaitsFor(u) = {}
      BY DEF NoCircularWait
    <2>1. PICK b \in Bucket : u \in writers[b] \/ u \in readers[b]
      BY DEF WaitsFor
    <2>2. u \in Thread
      BY DEF WaitsFor
    <2>3. pc[u] # "idle" /\ \A x : ~AwaitsRead(u, x) /\ ~AwaitsWrite(u, x)
      BY <1>1, <2>1, <2>2, HolderRuns DEF IInv
    <2> QED
      BY <2>3 DEF WaitsFor
  <1> QED
    BY <1>1, Invariance, NoLocksInvariant, PTL
-----------------------------------------------------------------------------
(* The refinement. *)

LEMMA MovingHolds ==
  ASSUME TypeOK, CommandsAgree, NEW t \in Thread, NEW n, Moving(t, n)
  PROVE  /\ n \in Name
         /\ Hash[n] \in Bucket
         /\ HoldsWrite(t, Hash[n])
  <1>1. pc[t] \in RenameLabel
    BY DEF Moving, RenameLabel, Label, CreateLabel, DeleteLabel, LookupLabel
  <1> QED
    BY <1>1, BucketsOfCommand DEF Moving, HoldsWrite

\* At most one rename is about to create a name, so dirBar has one value to take.
LEMMA OneMover ==
  IInv => \A n \in Name : \A t, u \in Thread : Moving(t, n) /\ Moving(u, n) => t = u
  BY MovingHolds, Isolation DEF IInv

\* The values of dirBar, without its CHOOSE.
BarIsRight ==
  \A n \in Name :
    /\ \A t \in Thread : Moving(t, n) => dirBar[n] = iNumber[t]
    /\ (\A t \in Thread : ~Moving(t, n)) => dirBar[n] = dir[n]

LEMMA BarValue == IInv => BarIsRight
  <1> SUFFICES ASSUME IInv, NEW n \in Name
               PROVE  /\ \A t \in Thread : Moving(t, n) => dirBar[n] = iNumber[t]
                      /\ (\A t \in Thread : ~Moving(t, n)) => dirBar[n] = dir[n]
    BY DEF BarIsRight
  <1>1. dirBar[n] = IF \E t \in Thread : Moving(t, n)
                    THEN iNumber[CHOOSE t \in Thread : Moving(t, n)]
                    ELSE dir[n]
    BY DEF dirBar
  <1>2. ASSUME NEW t \in Thread, Moving(t, n)
        PROVE  t = CHOOSE u \in Thread : Moving(u, n)
    BY <1>2, OneMover
  <1> QED
    BY <1>1, <1>2

LEMMA BarValuePrime == IInv' => BarIsRight'
  BY BarValue, PTL

\* Under the lock of its bucket a name is what the tree says it is.
LEMMA BarUnderLock ==
  ASSUME IInv, NEW t \in Thread, pc[t] # "rename_create", NEW n \in Name,
         HoldsWrite(t, Hash[n]) \/ HoldsRead(t, Hash[n])
  PROVE  /\ \A u \in Thread : ~Moving(u, n)
         /\ dirBar[n] = dir[n]
  <1>1. \A u \in Thread : ~Moving(u, n)
    BY MovingHolds, Isolation DEF IInv, Moving
  <1> QED
    BY <1>1, BarValue DEF BarIsRight

\* A step that stores nothing, and begins and ends no move.
LEMMA BarStays ==
  ASSUME IInv, IInv', NEW t \in Thread, Moves(t), dir' = dir,
         pc[t] # "rename_create", pc'[t] # "rename_create"
  PROVE  dirBar' = dirBar
  <1>1. \A u \in Thread, n \in Name :
          /\ Moving(u, n)' <=> Moving(u, n)
          /\ Moving(u, n) => iNumber'[u] = iNumber[u]
    BY DEF Moves, Moving
  <1>2. \A n \in Name : dirBar'[n] = dirBar[n]
    BY <1>1, BarValue, BarValuePrime DEF BarIsRight
  <1> QED
    BY <1>2 DEF dirBar

\* A step that stores i under n with the lock of n, and is no part of a move.
LEMMA BarStores ==
  ASSUME IInv, IInv', NEW t \in Thread, Moves(t), NEW n \in Name, NEW i,
         HoldsWrite(t, Hash[n]), dir' = [dir EXCEPT ![n] = i],
         pc[t] # "rename_create", pc'[t] # "rename_create"
  PROVE  dirBar' = [dirBar EXCEPT ![n] = i]
  <1>1. \A u \in Thread, m \in Name :
          /\ Moving(u, m)' <=> Moving(u, m)
          /\ Moving(u, m) => iNumber'[u] = iNumber[u]
    BY DEF Moves, Moving
  <1>2. \A u \in Thread : ~Moving(u, n)
    BY BarUnderLock
  <1>3. dir \in [Name -> 0..MaxINumber]
    BY DEF IInv, TypeOK
  <1>4. \A m \in Name : dirBar'[m] = IF m = n THEN i ELSE dirBar[m]
    BY <1>1, <1>2, <1>3, BarValue, BarValuePrime DEF BarIsRight
  <1> QED
    BY <1>4 DEF dirBar

\* The first half of a move shows the whole of it ...
LEMMA BarMoves ==
  ASSUME IInv, IInv', NEW t \in Thread, Moves(t),
         Store(t, cmd[t].name, NotFound, "rename_delete", "rename_create")
  PROVE  dirBar' = [dirBar EXCEPT ![cmd[t].name] = NotFound,
                                  ![cmd[t].name2] = iNumber[t]]
  <1> DEFINE old == cmd[t].name
             new == cmd[t].name2
  <1>1. old \in Name /\ new \in Name
    BY BucketsOfCommand
       DEF Store, IInv, RenameLabel, Label, CreateLabel, DeleteLabel, LookupLabel
  <1>2. HoldsWrite(t, Hash[old]) /\ HoldsWrite(t, Hash[new]) /\ pc[t] = "rename_delete"
    BY DEF Store, HoldsWrite
  <1>3. \A u \in Thread : ~Moving(u, old) /\ ~Moving(u, new)
    BY <1>1, <1>2, BarUnderLock
  <1>4. /\ \A u \in Thread \ {t}, m \in Name :
             /\ Moving(u, m)' <=> Moving(u, m)
             /\ Moving(u, m) => iNumber'[u] = iNumber[u]
        /\ \A m \in Name : ~Moving(t, m) /\ (Moving(t, m)' <=> m = new)
        /\ iNumber'[t] = iNumber[t]
    BY DEF Moves, Moving, Store, Goto, locals, IInv, TypeOK
  <1>5. dir' = [dir EXCEPT ![old] = NotFound] /\ dir \in [Name -> 0..MaxINumber]
    BY DEF Store, IInv, TypeOK
  <1>6. \A m \in Name : dirBar'[m] = IF m = new THEN iNumber[t]
                                     ELSE IF m = old THEN NotFound ELSE dirBar[m]
    BY <1>1, <1>3, <1>4, <1>5, BarValue, BarValuePrime DEF BarIsRight
  <1> QED
    BY <1>1, <1>6 DEF dirBar

\* ... and the second half nothing more.
LEMMA BarMoved ==
  ASSUME IInv, IInv', NEW t \in Thread, Moves(t), NEW next, next # "rename_create",
         Store(t, cmd[t].name2, iNumber[t], "rename_create", next)
  PROVE  dirBar' = dirBar
  <1> DEFINE new == cmd[t].name2
  <1>1. Moving(t, new) /\ new \in Name
    BY MovingHolds DEF Store, Moving, IInv
  <1>2. \A u \in Thread : Moving(u, new) => u = t
    BY <1>1, OneMover
  <1>3. /\ \A u \in Thread \ {t}, m \in Name :
             /\ Moving(u, m)' <=> Moving(u, m)
             /\ Moving(u, m) => iNumber'[u] = iNumber[u]
        /\ \A m \in Name : ~Moving(t, m)' /\ (Moving(t, m) <=> m = new)
    BY DEF Moves, Moving, Store, Goto, locals, IInv, TypeOK
  <1>4. dir' = [dir EXCEPT ![new] = iNumber[t]] /\ dir \in [Name -> 0..MaxINumber]
    BY DEF Store, IInv, TypeOK
  <1>5. \A m \in Name : dirBar'[m] = dirBar[m]
    BY <1>1, <1>2, <1>3, <1>4, BarValue, BarValuePrime DEF BarIsRight
  <1> QED
    BY <1>5 DEF dirBar

LEMMA StatusMoves ==
  ASSUME NEW t \in Thread, Moves(t)
  PROVE  statusBar' = [statusBar EXCEPT ![t] = StatusOf(t)']
  <1>1. \A u \in Thread \ {t} : StatusOf(u)' = StatusOf(u)
    BY DEF Moves, StatusOf, MayRename
  <1> QED
    BY <1>1 DEF statusBar

\* Between the instants the abstract directory stands still.
LEMMA Stutters ==
  ASSUME IInv, IInv', NEW t \in Thread, Moves(t),
         UNCHANGED <<dir, nextINumber, cmd, iNumber>>,
         pc[t] # "rename_create", pc'[t] # "rename_create",
         StatusOf(t)' = StatusOf(t)
  PROVE  UNCHANGED Abs!vars
  <1>1. dirBar' = dirBar
    BY BarStays
  <1>2. statusBar' = statusBar
    BY StatusMoves DEF statusBar
  <1> QED
    BY <1>1, <1>2 DEF Abs!vars

\* A call that has come to its end returns.
LEMMA Returns ==
  ASSUME IInv, IInv', NEW t \in Thread, Moves(t), Return(t),
         UNCHANGED <<dir, nextINumber>>,
         pc[t] # "rename_create", StatusOf(t) = "done"
  PROVE  Abs!Return(t)
  <1>1. pc'[t] = "idle"
    BY DEF Return, Goto, IInv, TypeOK
  <1>2. dirBar' = dirBar
    BY <1>1, BarStays
  <1>3. StatusOf(t)' = "idle"
    BY <1>1 DEF StatusOf
  <1>4. statusBar[t] = "done" /\ statusBar' = [statusBar EXCEPT ![t] = "idle"]
    BY <1>3, StatusMoves DEF statusBar
  <1> QED
    BY <1>2, <1>4 DEF Abs!Return, Abs!NoCommand, NoCommand, Return

\* The instant of a create, a delete or a move.
LEMMA StepRefines ==
  ASSUME IInv, IInv', NEW t \in Thread, Step(t)
  PROVE  [Abs!Next]_Abs!vars
  <1> DEFINE n == cmd[t].name
             n2 == cmd[t].name2
  <1>1. Moves(t) /\ TypeOK /\ CommandAt(t)
    BY StepMoves DEF IInv, CommandsAgree
  <1>2. statusBar[t] = StatusOf(t) /\ statusBar' = [statusBar EXCEPT ![t] = StatusOf(t)']
    BY <1>1, StatusMoves DEF statusBar
  <1>3. /\ pc[t] # "idle" => n \in Name
        /\ pc[t] \in RenameLabel => n2 \in Name
    BY <1>1, BucketsOfCommand DEF IInv, RenameLabel
  <1>4. CASE create(t)
    <2>1. CASE WrLock(t, Hash[n], "create_lock", "create_insert")
      BY <1>1, <2>1, Stutters DEF WrLock, Goto, locals, StatusOf, TypeOK
    <2>2. CASE Store(t, n, iNumber[t], "create_insert", "create_unlock")
      <3>1. dirBar' = [dirBar EXCEPT ![n] = iNumber[t]]
        BY <1>1, <1>3, <2>2, BarStores DEF Store, Goto, TypeOK, HoldsWrite
      <3>2. Abs!Create(t)
        BY <1>1, <1>2, <2>2, <3>1
           DEF Store, Goto, locals, TypeOK, StatusOf, CommandAt, CreateLabel,
               Abs!Create, Abs!Instant
      <3> QED
        BY <3>2 DEF Abs!Next
    <2>3. CASE UnlockAndReturn(t, Hash[n], "create_unlock")
      <3>1. Abs!Return(t)
        BY <1>1, <2>3, Returns DEF UnlockAndReturn, StatusOf
      <3> QED
        BY <3>1 DEF Abs!Next
    <2> QED
      BY <1>4, <2>1, <2>2, <2>3 DEF create
  <1>5. CASE delete(t)
    <2>1. CASE WrLock(t, Hash[n], "delete_lock", "delete_remove")
      BY <1>1, <2>1, Stutters DEF WrLock, Goto, locals, StatusOf, TypeOK
    <2>2. CASE Store(t, n, NotFound, "delete_remove", "delete_unlock")
      <3>1. dirBar' = [dirBar EXCEPT ![n] = NotFound]
        BY <1>1, <1>3, <2>2, BarStores DEF Store, Goto, TypeOK, HoldsWrite
      <3>2. Abs!Delete(t)
        BY <1>1, <1>2, <2>2, <3>1
           DEF Store, Goto, locals, TypeOK, StatusOf, CommandAt, DeleteLabel,
               NotFound, Abs!NotFound, Abs!Delete, Abs!Instant
      <3> QED
        BY <3>2 DEF Abs!Next
    <2>3. CASE UnlockAndReturn(t, Hash[n], "delete_unlock")
      <3>1. Abs!Return(t)
        BY <1>1, <2>3, Returns DEF UnlockAndReturn, StatusOf
      <3> QED
        BY <3>1 DEF Abs!Next
    <2> QED
      BY <1>5, <2>1, <2>2, <2>3 DEF delete
  <1>6. CASE lookup(t)
    <2>1. CASE RdLock(t, Hash[n], "lookup_lock", "lookup_search")
      BY <1>1, <2>1, Stutters DEF RdLock, Goto, locals, StatusOf, TypeOK
    <2>2. CASE Search(t, n, "lookup_search", "lookup_unlock")
      <3>1. dirBar[n] = dir[n]
        BY <1>3, <2>2, BarUnderLock DEF Search, HoldsRead
      <3>2. dirBar' = dirBar
        BY <1>1, <2>2, BarStays DEF Search, Goto, TypeOK
      <3>3. Abs!Lookup(t)
        BY <1>1, <1>2, <2>2, <3>1, <3>2
           DEF Search, Goto, TypeOK, StatusOf, CommandAt, LookupLabel,
               Abs!Lookup, Abs!Instant
      <3> QED
        BY <3>3 DEF Abs!Next
    <2>3. CASE UnlockAndReturn(t, Hash[n], "lookup_unlock")
      <3>1. Abs!Return(t)
        BY <1>1, <2>3, Returns DEF UnlockAndReturn, StatusOf
      <3> QED
        BY <3>1 DEF Abs!Next
    <2> QED
      BY <1>6, <2>1, <2>2, <2>3 DEF lookup
  <1>7. pc[t] \in RenameLabel => cmd[t].kind = "rename"
    BY <1>1 DEF CommandAt
  <1> USE DEF RenameLabel, Label, CreateLabel, DeleteLabel, LookupLabel
  <1>8. CASE RenameLookups(t)
    <2>1. CASE RdLock(t, Hash[n], "old_lock", "old_search")
               \/ RdLock(t, Hash[n2], "new_lock", "new_search")
      BY <1>1, <2>1, Stutters DEF RdLock, Goto, locals, StatusOf, TypeOK
    <2>2. CASE Search(t, n, "old_search", "old_unlock")
      <3>1. dirBar[n] = dir[n]
        BY <1>3, <2>2, BarUnderLock DEF Search, HoldsRead
      <3>2. dirBar' = dirBar
        BY <1>1, <2>2, BarStays DEF Search, Goto, TypeOK
      <3>3. StatusOf(t) = "called" /\ StatusOf(t)' = "seen_old"
        BY <1>1, <2>2 DEF Search, Goto, TypeOK, StatusOf
      <3>4. Abs!SeeOld(t)
        BY <1>2, <1>7, <2>2, <3>1, <3>2, <3>3
           DEF Search, Abs!SeeOld, Abs!Instant
      <3> QED
        BY <3>4 DEF Abs!Next
    <2>3. CASE Unlock(t, Hash[n], "old_unlock", "new_lock")
      BY <1>1, <2>3, Stutters DEF Unlock, Goto, locals, StatusOf, TypeOK
    <2>4. CASE SearchNew(t, n2, "new_search", "new_unlock")
      <3>1. dirBar[n2] = dir[n2]
        BY <1>3, <2>4, BarUnderLock DEF SearchNew, HoldsRead
      <3>2. dirBar' = dirBar
        BY <1>1, <2>4, BarStays DEF SearchNew, Goto, TypeOK
      <3>3. /\ StatusOf(t) = "seen_old"
            /\ StatusOf(t)' = IF dir[n2] = NotFound /\ iNumber[t] # NotFound
                              THEN "may_move" ELSE "done"
        BY <1>1, <2>4 DEF SearchNew, Goto, TypeOK, StatusOf, MayRename
      <3>4. Abs!SeeNew(t)
        BY <1>2, <1>7, <2>4, <3>1, <3>2, <3>3
           DEF SearchNew, NotFound, Abs!NotFound, Abs!SeeNew, Abs!Instant
      <3> QED
        BY <3>4 DEF Abs!Next
    <2> QED
      BY <1>8, <2>1, <2>2, <2>3, <2>4 DEF RenameLookups
  <1>9. CASE RenameDecide(t)
    <2>1. CASE ~MayRename(t) /\ UnlockAndReturn(t, Hash[n2], "new_unlock")
      <3>1. Abs!Return(t)
        BY <1>1, <2>1, Returns DEF UnlockAndReturn, StatusOf
      <3> QED
        BY <3>1 DEF Abs!Next
    <2>2. CASE /\ MayRename(t)
               /\ \/ Unlock(t, Hash[n2], "new_unlock", "same_wrlock")
                  \/ Unlock(t, Hash[n2], "new_unlock", "old_wrlock")
      BY <1>1, <2>2, Stutters DEF Unlock, Goto, locals, StatusOf, TypeOK
    <2> QED
      BY <1>9, <2>1, <2>2 DEF RenameDecide
  <1>10. CASE RenameLocks(t)
    <2>1. /\ UNCHANGED <<dir, nextINumber, cmd, iNumber>>
          /\ pc[t] # "rename_create" /\ pc'[t] # "rename_create"
          /\ StatusOf(t)' = StatusOf(t)
      BY <1>1, <1>10
         DEF RenameLocks, WrLock, Unlock, Goto, locals, StatusOf, TypeOK
    <2> QED
      BY <1>1, <2>1, Stutters
  <1>11. CASE RenameMove(t)
    <2>1. CASE Store(t, n, NotFound, "rename_delete", "rename_create")
      <3>1. dirBar' = [dirBar EXCEPT ![n] = NotFound, ![n2] = iNumber[t]]
        BY <1>1, <2>1, BarMoves
      <3>2. StatusOf(t) = "may_move" /\ StatusOf(t)' = "done"
        BY <1>1, <2>1 DEF Store, Goto, TypeOK, StatusOf
      <3>3. Abs!Move(t)
        BY <1>2, <1>7, <2>1, <3>1, <3>2
           DEF Store, locals, NotFound, Abs!NotFound, Abs!Move, Abs!Instant
      <3> QED
        BY <3>3 DEF Abs!Next
    <2> DEFINE next == IF Hash[n2] = Hash[n] THEN "unlock_old" ELSE "unlock_new"
    <2>2. CASE Store(t, n2, iNumber[t], "rename_create", next)
      <3>1. dirBar' = dirBar
        BY <1>1, <2>2, BarMoved
      <3>2. StatusOf(t)' = StatusOf(t)
        BY <1>1, <2>2 DEF Store, Goto, TypeOK, StatusOf
      <3> QED
        BY <1>2, <2>2, <3>1, <3>2 DEF Store, locals, statusBar, Abs!vars
    <2>3. CASE Unlock(t, Hash[n2], "unlock_new", "unlock_old")
      BY <1>1, <2>3, Stutters DEF Unlock, Goto, locals, StatusOf, TypeOK
    <2>4. CASE UnlockAndReturn(t, Hash[n], "unlock_old")
      <3>1. Abs!Return(t)
        BY <1>1, <2>4, Returns DEF UnlockAndReturn, StatusOf
      <3> QED
        BY <3>1 DEF Abs!Next
    <2> QED
      BY <1>11, <2>1, <2>2, <2>3, <2>4 DEF RenameMove
  <1> QED
    BY <1>4, <1>5, <1>6, <1>8, <1>9, <1>10, <1>11 DEF Step, renameFile

LEMMA CallRefines ==
  ASSUME IInv, IInv', NEW t \in Thread, NEW c \in Command, Call(t, c)
  PROVE  Abs!Call(t, c)
  <1>1. Moves(t) /\ TypeOK
    BY StepMoves DEF IInv
  <1>2. dirBar' = dirBar
    BY <1>1, BarStays DEF Call, Goto, TypeOK
  <1>3. StatusOf(t) = "idle" /\ StatusOf(t)' = "called"
    BY <1>1 DEF Call, Goto, TypeOK, StatusOf
  <1>4. statusBar[t] = "idle" /\ statusBar' = [statusBar EXCEPT ![t] = "called"]
    BY <1>1, <1>3, StatusMoves DEF statusBar
  <1> QED
    BY <1>2, <1>4 DEF Call, obtainNewInumber, Abs!Call

\* The tree operations under the locks of fs.c are, for whoever looks, the atomic
\* operations of AtomicDirectory, for any number of threads, names and buckets.
THEOREM Refinement == Spec => ImplementsAtomicDirectory
  <1>1. Init => Abs!Init
    BY DEF Init, new_tecnicofs, Abs!Init, dirBar, statusBar, StatusOf, Moving,
           NotFound, Abs!NotFound, NoCommand, Abs!NoCommand
  <1>2. IInv /\ IInv' /\ [Next]_vars => [Abs!Next]_Abs!vars
    <2> SUFFICES ASSUME IInv, IInv', [Next]_vars
                 PROVE  [Abs!Next]_Abs!vars
      OBVIOUS
    <2>1. ASSUME NEW t \in Thread, Step(t)
          PROVE  [Abs!Next]_Abs!vars
      BY <2>1, StepRefines
    <2>2. ASSUME NEW t \in Thread, NEW c \in Command, Call(t, c)
          PROVE  [Abs!Next]_Abs!vars
      BY <2>2, CallRefines DEF Abs!Next, Command, Abs!Command
    <2>3. CASE UNCHANGED vars
      BY <2>3
         DEF vars, locals, Abs!vars, dirBar, statusBar, StatusOf, Moving, MayRename
    <2> QED
      BY <2>1, <2>2, <2>3 DEF Next
  <1> QED
    BY <1>1, <1>2, Invariance, PTL DEF Spec, Abs!Spec, ImplementsAtomicDirectory
-----------------------------------------------------------------------------
(* The bucket of a name. *)

LEMMA RemainderOfNatural ==
  ASSUME NEW x \in Nat, NEW n \in Nat \ {0}
  PROVE  x % n \in 0..n-1
  OBVIOUS

\* What hash.c:5 promises, a number between 0 and n-1, hash returns for the names
\* that start with an ASCII character, and for one of another character only if
\* its negative code happens to be a multiple of n.
THEOREM HashInRange ==
  ASSUME NEW byte \in 0..255, NEW n \in Nat \ {0}
  PROVE  hash(byte, n) \in 0..n-1 <=> byte < 128 \/ (256 - byte) % n = 0
  <1>1. CASE byte < 128
    <2>1. hash(byte, n) = byte % n
      BY <1>1 DEF hash
    <2>2. byte \in Nat
      OBVIOUS
    <2> QED
      BY <1>1, <2>1, <2>2, RemainderOfNatural
  <1>2. CASE ~(byte < 128)
    <2>1. hash(byte, n) = -((256 - byte) % n)
      <3>1. /\ ~(byte - 256 >= 0)
            /\ -(byte - 256) = 256 - byte
        OBVIOUS
      <3> QED
        BY <1>2, <3>1 DEF hash
    <2>2. (256 - byte) % n \in 0..n-1
      <3>1. 256 - byte \in Nat
        OBVIOUS
      <3> QED
        BY <3>1, RemainderOfNatural
    <2> DEFINE r == (256 - byte) % n
    <2> HIDE DEF r
    <2>3. r \in 0..n-1 /\ hash(byte, n) = -r
      BY <2>1, <2>2 DEF r
    <2>4. hash(byte, n) \in 0..n-1 <=> r = 0
      BY <2>3
    <2> QED
      BY <1>2, <2>4 DEF r
  <1> QED
    BY <1>1, <1>2

\* So the assumption on Hash holds for every number of buckets, given to the
\* program as an argument, as long as the names start with ASCII characters.
THEOREM HashJustified ==
  ASSUME NEW n \in Nat \ {0}, Bucket = 0..n-1,
         NEW FirstByte \in [Name -> 0..127],
         Hash = [x \in Name |-> hash(FirstByte[x], n)]
  PROVE  Hash \in [Name -> Bucket]
  <1> SUFFICES ASSUME NEW x \in Name PROVE hash(FirstByte[x], n) \in 0..n-1
    OBVIOUS
  <1>1. FirstByte[x] \in 0..255 /\ FirstByte[x] < 128
    <2>1. FirstByte[x] \in 0..127
      OBVIOUS
    <2>2. \A byte \in 0..127 : byte \in 0..255 /\ byte < 128
      OBVIOUS
    <2> QED
      BY <2>1, <2>2
  <1> QED
    BY <1>1, HashInRange
=============================================================================
