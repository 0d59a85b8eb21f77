--------------------------- MODULE TecnicoFSProofs ---------------------------
(***************************************************************************)
(* Proofs about the whole program, for any input file, workers, slots,     *)
(* names and hash.  What CommandQueueProofs and DirectoryProofs say of the *)
(* parts is used by their instances: a step of the program is a step of    *)
(* the queue, or leaves it alone, and the same for the directory.          *)
(***************************************************************************)
EXTENDS TecnicoFS, Recursion, FiniteSetTheorems

QP == INSTANCE CommandQueueProofs WITH Command <- D!Command
DP == INSTANCE DirectoryProofs WITH Thread <- Consumer, pc <- opc

(* What the instances are about is what TecnicoFS is about. *)

LEMMA SameSets ==
  /\ \A S : Q!IsFiniteSet(S) <=> IsFiniteSet(S)
  /\ \A S : QP!IsFiniteSet(S) <=> IsFiniteSet(S)
  /\ \A S : Q!Cardinality(S) = Cardinality(S)
  /\ \A S : QP!Cardinality(S) = Cardinality(S)
  BY DEF Q!IsFiniteSet, QP!IsFiniteSet, IsFiniteSet,
         Q!Cardinality, QP!Cardinality, Cardinality

LEMMA SameCommands == D!Command = DP!Command
  BY DEF D!Command, DP!Command

LEMMA QueueAssumptions == QP!QueueAssumption
  BY PartsAssumption, SameSets DEF Q!QueueAssumption, QP!QueueAssumption, Q!Thread, QP!Thread

LEMMA DirectoryAssumptions ==
  /\ DP!HashAssumption /\ DP!MaxAssumption
  /\ DP!MechAssumption /\ DP!NoSyncAssumption
  BY PartsAssumption
     DEF D!HashAssumption, DP!HashAssumption, D!MaxAssumption, DP!MaxAssumption,
         D!MechAssumption, DP!MechAssumption, D!NoSyncAssumption, DP!NoSyncAssumption

LEMMA SameInit == (Q!Init <=> QP!Init) /\ (D!Init <=> DP!Init)
  BY DEF Q!Init, QP!Init, Q!init_variables, QP!init_variables, Q!Thread, QP!Thread,
         D!Init, DP!Init, D!new_tecnicofs, DP!new_tecnicofs, D!sync_init, DP!sync_init,
         D!NotFound, DP!NotFound, D!NoCommand, DP!NoCommand

LEMMA SameProducer == Q!processInput <=> QP!processInput
  <1> USE DEF Q!Goes, QP!Goes, Q!producerVars, QP!producerVars, Q!consumerVars,
              QP!consumerVars, Q!ring, QP!ring, Q!sync, QP!sync
  <1>1. /\ Q!ReadCommand <=> QP!ReadCommand
        /\ Q!SkipComment <=> QP!SkipComment
        /\ Q!errorParse <=> QP!errorParse
        /\ Q!EndOfFile <=> QP!EndOfFile
    BY DEF Q!ReadCommand, QP!ReadCommand, Q!SkipComment, QP!SkipComment, Q!Line, QP!Line,
           Q!errorParse, QP!errorParse, Q!EndOfFile, QP!EndOfFile
  <1>2. /\ Q!InsertEnd <=> QP!InsertEnd
        /\ Q!EndsInserted <=> QP!EndsInserted
    BY SameSets
       DEF Q!InsertEnd, QP!InsertEnd, Q!EndsInserted, QP!EndsInserted,
           Q!numberThreads, QP!numberThreads
  <1>3. /\ Q!WaitForSlot <=> QP!WaitForSlot
        /\ Q!StoreCommand <=> QP!StoreCommand
        /\ Q!PostCommand <=> QP!PostCommand
    BY DEF Q!WaitForSlot, QP!WaitForSlot, Q!StoreCommand, QP!StoreCommand,
           Q!PostCommand, QP!PostCommand
  <1>4. /\ Q!Lock(Producer, "store") <=> QP!Lock(Producer, "store")
        /\ Q!Unlock(Producer, "post") <=> QP!Unlock(Producer, "post")
    BY DEF Q!Lock, QP!Lock, Q!mutex_lock, QP!mutex_lock,
           Q!Unlock, QP!Unlock, Q!mutex_unlock, QP!mutex_unlock
  <1> QED
    BY <1>1, <1>2, <1>3, <1>4 DEF Q!processInput, QP!processInput

LEMMA SameConsumer ==
  ASSUME NEW c \in Consumer
  PROVE  /\ Q!TakeCommand(c) <=> QP!TakeCommand(c)
         /\ Q!ParseCommand(c) <=> QP!ParseCommand(c)
         /\ Q!Apply(c) <=> QP!Apply(c)
  <1> USE DEF Q!Goes, QP!Goes, Q!producerVars, QP!producerVars, Q!consumerVars,
              QP!consumerVars, Q!ring, QP!ring, Q!sync, QP!sync
  <1>1. Q!TakeCommand(c) <=> QP!TakeCommand(c)
    BY DEF Q!TakeCommand, QP!TakeCommand, Q!WaitForCommand, QP!WaitForCommand,
           Q!Lock, QP!Lock, Q!mutex_lock, QP!mutex_lock, Q!removeCommand, QP!removeCommand,
           Q!Unlock, QP!Unlock, Q!mutex_unlock, QP!mutex_unlock,
           Q!GiveSlotBack, QP!GiveSlotBack
  <1>2. Q!ParseCommand(c) <=> QP!ParseCommand(c)
    BY DEF Q!ParseCommand, QP!ParseCommand
  <1>3. Q!Apply(c) <=> QP!Apply(c)
    BY DEF Q!Apply, QP!Apply
  <1> QED
    BY <1>1, <1>2, <1>3

LEMMA SameQueueVars ==
  UNCHANGED queueVars <=> UNCHANGED QP!vars
  BY DEF queueVars, QP!vars, QP!producerVars, QP!consumerVars, QP!ring, QP!sync

LEMMA SameEnd ==
  /\ Q!JoinAll <=> QP!JoinAll
  /\ Q!Exited <=> QP!Exited
  BY DEF Q!JoinAll, QP!JoinAll, Q!Exited, QP!Exited, Q!Thread, QP!Thread, Q!vars, QP!vars,
         Q!producerVars, QP!producerVars, Q!consumerVars, QP!consumerVars,
         Q!ring, QP!ring, Q!sync, QP!sync

\* Every step of the program is a step of the queue or leaves it alone.
LEMMA QueueStep == [Next]_vars => [QP!Next]_(QP!vars)
  <1> SUFFICES ASSUME [Next]_vars PROVE [QP!Next]_(QP!vars)
    OBVIOUS
  <1>1. CASE processInput
    BY <1>1, SameProducer DEF processInput, QP!Next
  <1>2. ASSUME NEW c \in Consumer, applyCommands(c)
        PROVE  [QP!Next]_(QP!vars)
    <2>1. QP!TakeCommand(c) \/ QP!ParseCommand(c) \/ QP!Apply(c) \/ UNCHANGED queueVars
      BY <1>2, SameConsumer DEF applyCommands, FetchCommand, Operate
    <2> QED
      BY <2>1, SameQueueVars DEF QP!Next, QP!applyCommands
  <1>3. CASE JoinAll \/ Exited
    BY <1>3, SameEnd DEF JoinAll, Exited, QP!Next
  <1>4. CASE UNCHANGED vars
    BY <1>4, SameQueueVars DEF vars
  <1> QED
    BY <1>1, <1>2, <1>3, <1>4 DEF Next

LEMMA OrderStep == QP!OrderInv /\ [Next]_vars => QP!OrderInv'
  BY QueueAssumptions, QueueStep, QP!NextOrder DEF QP!QueueAssumption

LEMMA SameOperations ==
  ASSUME NEW c \in Consumer
  PROVE  /\ D!Step(c) <=> DP!Step(c)
         /\ \A x : D!Call(c, x) <=> DP!Call(c, x)
  <1> USE DEF D!Goto, DP!Goto, D!locals, DP!locals, D!lockVars, DP!lockVars,
              D!WrLock, DP!WrLock, D!RdLock, DP!RdLock, D!Unlock, DP!Unlock,
              D!UnlockAndReturn, DP!UnlockAndReturn, D!Return, DP!Return,
              D!Store, DP!Store, D!NotFound, DP!NotFound, D!NoCommand, DP!NoCommand,
              D!sync_wrlock, DP!sync_wrlock, D!sync_rdlock, DP!sync_rdlock,
              D!sync_unlock, DP!sync_unlock, D!do_nothing, DP!do_nothing,
              D!Held, DP!Held
  <1>1. D!create(c) <=> DP!create(c)
    BY DEF D!create, DP!create
  <1>2. D!delete(c) <=> DP!delete(c)
    BY DEF D!delete, DP!delete
  <1>3. D!lookup(c) <=> DP!lookup(c)
    BY DEF D!lookup, DP!lookup, D!Search, DP!Search
  <1>4. D!RenameLookups(c) <=> DP!RenameLookups(c)
    BY DEF D!RenameLookups, DP!RenameLookups, D!Search, DP!Search, D!SearchNew, DP!SearchNew
  <1>5. D!RenameDecide(c) <=> DP!RenameDecide(c)
    BY DEF D!RenameDecide, DP!RenameDecide, D!MayRename, DP!MayRename
  <1>6. D!RenameLocks(c) <=> DP!RenameLocks(c)
    BY DEF D!RenameLocks, DP!RenameLocks, D!TryLockFails, DP!TryLockFails
  <1>7. D!RenameMove(c) <=> DP!RenameMove(c)
    BY DEF D!RenameMove, DP!RenameMove
  <1>8. \A x : D!Call(c, x) <=> DP!Call(c, x)
    BY DEF D!Call, DP!Call, D!obtainNewInumber, DP!obtainNewInumber
  <1> QED
    BY <1>1, <1>2, <1>3, <1>4, <1>5, <1>6, <1>7, <1>8
       DEF D!Step, DP!Step, D!renameFile, DP!renameFile

LEMMA SameDirectoryVars == UNCHANGED directoryVars <=> UNCHANGED DP!vars
  BY DEF directoryVars, DP!vars, DP!locals, DP!lockVars

\* What a consumer has taken from the ring is what it is working on.
Working(c) == pc[c] \in {"unlock", "post", "apply"} /\ current[c] # End

Together ==
  \A c \in Consumer :
    /\ opc[c] # "idle" <=> Working(c)
    /\ opc[c] # "idle" => cmd[c] = current[c]

Inv == QP!OrderInv /\ DP!IInv /\ Together

\* The command just read from the ring is a line of the file.
LEMMA FetchedCommand ==
  ASSUME QP!OrderInv, NEW c \in Consumer, FetchCommand(c), current'[c] # End
  PROVE  /\ current'[c] \in D!Command
         /\ applied' = Append(applied, current'[c])
         /\ current' = [current EXCEPT ![c] = current'[c]]
         /\ file' = file /\ process = "running" /\ process' = process
         /\ pc' = [pc EXCEPT ![c] = "unlock"] /\ pc[c] = "parse"
         /\ D!Call(c, current'[c])
  <1>1. /\ current' = [current EXCEPT ![c] = inputCommands[slot[c]]]
        /\ applied' = IF inputCommands[slot[c]] = End
                      THEN applied ELSE Append(applied, inputCommands[slot[c]])
        /\ file' = file /\ process = "running" /\ process' = process
        /\ pc' = [pc EXCEPT ![c] = "unlock"] /\ pc[c] = "parse"
    BY DEF FetchCommand, Q!ParseCommand, Q!Goes
  <1>2. QP!TypeOK
    BY DEF QP!OrderInv, QP!IInv
  <1>3. current'[c] = inputCommands[slot[c]]
    BY <1>1, <1>2 DEF QP!TypeOK
  <1>4. applied' = Append(applied, current'[c]) /\ applied \in Seq(D!Command)
    BY <1>1, <1>2, <1>3 DEF QP!TypeOK
  <1>5. QP!TypeOK'
    <2>1. [Next]_vars
      BY DEF Next, applyCommands
    <2>2. QP!OrderInv'
      BY <2>1, OrderStep
    <2> QED
      BY <2>2 DEF QP!OrderInv, QP!IInv
  <1>6. current'[c] \in D!Command
    <2>1. Append(applied, current'[c]) \in Seq(D!Command)
      BY <1>4, <1>5 DEF QP!TypeOK
    <2>2. /\ Len(applied) \in Nat
          /\ DOMAIN Append(applied, current'[c]) = 1..Len(applied) + 1
          /\ Append(applied, current'[c])[Len(applied) + 1] = current'[c]
      BY <1>4
    <2> QED
      BY <2>1, <2>2
  <1> QED
    BY <1>1, <1>3, <1>4, <1>6 DEF FetchCommand

\* Every step of the program is a step of the directory or leaves it alone.
LEMMA DirectoryStep == QP!OrderInv /\ [Next]_vars => [DP!Next]_(DP!vars)
  <1> SUFFICES ASSUME QP!OrderInv, [Next]_vars PROVE [DP!Next]_(DP!vars)
    OBVIOUS
  <1>1. CASE UNCHANGED directoryVars
    BY <1>1, SameDirectoryVars
  <1>2. ASSUME NEW c \in Consumer, FetchCommand(c), current'[c] # End
        PROVE  DP!Next
    BY <1>2, FetchedCommand, SameCommands, SameOperations DEF DP!Next
  <1>3. ASSUME NEW c \in Consumer, D!Step(c)
        PROVE  DP!Next
    BY <1>3, SameOperations DEF DP!Next
  <1> QED
    BY <1>1, <1>2, <1>3
       DEF Next, processInput, applyCommands, FetchCommand, Operate, JoinAll, Exited, vars

LEMMA LocksStep == QP!OrderInv /\ DP!IInv /\ [Next]_vars => DP!IInv'
  BY DirectoryAssumptions, DirectoryStep, DP!TypeStep, DP!CommandsStep, DP!LocksStep
     DEF DP!IInv, DP!HashAssumption, DP!MaxAssumption, DP!MechAssumption, DP!NoSyncAssumption

LEMMA InitInv == Init => Inv
  <1> SUFFICES ASSUME Init PROVE Inv
    OBVIOUS
  <1>1. QP!OrderInv
    BY QueueAssumptions, SameInit, QP!InitOrder DEF Init, QP!QueueAssumption
  <1>2. DP!IInv
    BY DirectoryAssumptions, SameInit, DP!InitIInv
       DEF Init, DP!HashAssumption, DP!MaxAssumption, DP!MechAssumption, DP!NoSyncAssumption
  <1>3. \A c \in Consumer : pc[c] = "wait" /\ opc[c] = "idle"
    BY QueueAssumptions DEF Init, Q!Init, D!Init, Q!Thread, QP!QueueAssumption
  <1>4. Together
    BY <1>3 DEF Together, Working
  <1> QED
    BY <1>1, <1>2, <1>4 DEF Inv

\* The queue's part of Together.
LEMMA QueueTypes ==
  ASSUME QP!OrderInv
  PROVE  /\ pc \in [Consumer \cup {Producer} -> QP!ProducerLabel \cup QP!ConsumerLabel]
         /\ current \in [Consumer -> D!Command \cup {End, Nothing}]
         /\ applied \in Seq(D!Command)
         /\ file \in File
  BY DEF QP!OrderInv, QP!IInv, QP!TypeOK, QP!Thread
-----------------------------------------------------------------------------
(* What a step of an operation does to the directory and to the locals of  *)
(* the consumer that takes it, whatever it does to the locks.              *)

At(c, from, to) == opc[c] = from /\ opc'[c] = to

Stays(c) ==
  cmd'[c] = cmd[c] /\ iNumber'[c] = iNumber[c] /\ iNumberNew'[c] = iNumberNew[c]

Returns(c) ==
  /\ \/ opc[c] \in {"create_unlock", "delete_unlock", "lookup_unlock", "unlock_old"}
     \/ opc[c] = "new_unlock" /\ ~D!MayRename(c)
  /\ opc'[c] = "idle"
  /\ dir' = dir

Stores(c) ==
  /\ Stays(c)
  /\ \/ /\ At(c, "create_insert", "create_unlock")
        /\ dir' = [dir EXCEPT ![cmd[c].name] = iNumber[c]]
     \/ /\ At(c, "delete_remove", "delete_unlock")
        /\ dir' = [dir EXCEPT ![cmd[c].name] = D!NotFound]
     \/ /\ At(c, "rename_delete", "rename_create")
        /\ dir' = [dir EXCEPT ![cmd[c].name] = D!NotFound]
     \/ /\ At(c, "rename_create", "unlock_old") \/ At(c, "rename_create", "unlock_new")
        /\ dir' = [dir EXCEPT ![cmd[c].name2] = iNumber[c]]

Searches(c) ==
  /\ dir' = dir
  /\ cmd'[c] = cmd[c]
  /\ \/ /\ At(c, "lookup_search", "lookup_unlock") \/ At(c, "old_search", "old_unlock")
        /\ iNumber'[c] = dir[cmd[c].name] /\ iNumberNew'[c] = iNumberNew[c]
     \/ /\ At(c, "new_search", "new_unlock")
        /\ iNumberNew'[c] = dir[cmd[c].name2] /\ iNumber'[c] = iNumber[c]

GoesOn(c) ==
  /\ dir' = dir
  /\ Stays(c)
  /\ \/ At(c, "create_lock", "create_insert")
     \/ At(c, "delete_lock", "delete_remove")
     \/ At(c, "lookup_lock", "lookup_search")
     \/ At(c, "old_lock", "old_search") \/ At(c, "old_unlock", "new_lock")
     \/ At(c, "new_lock", "new_search")
     \/ /\ At(c, "new_unlock", "same_wrlock") \/ At(c, "new_unlock", "old_wrlock")
        /\ D!MayRename(c)
     \/ At(c, "same_wrlock", "rename_delete") \/ At(c, "old_wrlock", "new_trylock")
     \/ At(c, "new_trylock", "rename_delete") \/ At(c, "new_trylock", "back_off")
     \/ At(c, "back_off", "old_wrlock") \/ At(c, "unlock_new", "unlock_old")

OthersStay(c) == \A d \in Consumer \ {c} : opc'[d] = opc[d] /\ Stays(d)

LEMMA StepEffect ==
  ASSUME DP!IInv, NEW c \in Consumer, D!Step(c)
  PROVE  /\ Returns(c) \/ Stores(c) \/ Searches(c) \/ GoesOn(c)
         /\ OthersStay(c)
         /\ nextINumber' = nextINumber
  <1>1. /\ opc \in [Consumer -> DP!Label]
        /\ cmd \in [Consumer -> DP!Command \cup {DP!NoCommand}]
        /\ iNumber \in [Consumer -> 0..MaxINumber]
        /\ iNumberNew \in [Consumer -> 0..MaxINumber]
    BY DEF DP!IInv, DP!TypeOK
  <1> USE DEF At, Stays, OthersStay, D!Goto, D!locals
  <1>2. ASSUME NEW b, NEW from, NEW to,
               \/ D!WrLock(c, b, from, to) \/ D!RdLock(c, b, from, to)
               \/ D!Unlock(c, b, from, to)
        PROVE  /\ At(c, from, to) /\ Stays(c) /\ dir' = dir
               /\ OthersStay(c) /\ nextINumber' = nextINumber
    BY <1>1, <1>2 DEF D!WrLock, D!RdLock, D!Unlock
  <1>3. ASSUME NEW b, NEW from, D!UnlockAndReturn(c, b, from)
        PROVE  /\ opc[c] = from /\ opc'[c] = "idle" /\ dir' = dir
               /\ OthersStay(c) /\ nextINumber' = nextINumber
    BY <1>1, <1>3 DEF D!UnlockAndReturn, D!Return
  <1>4. ASSUME NEW n, NEW i, NEW from, NEW to, D!Store(c, n, i, from, to)
        PROVE  /\ At(c, from, to) /\ Stays(c) /\ dir' = [dir EXCEPT ![n] = i]
               /\ OthersStay(c) /\ nextINumber' = nextINumber
    BY <1>1, <1>4 DEF D!Store
  <1>5. ASSUME NEW n, NEW from, NEW to, D!Search(c, n, from, to)
        PROVE  /\ At(c, from, to) /\ dir' = dir /\ cmd'[c] = cmd[c]
               /\ iNumber'[c] = dir[n] /\ iNumberNew'[c] = iNumberNew[c]
               /\ OthersStay(c) /\ nextINumber' = nextINumber
    BY <1>1, <1>5 DEF D!Search
  <1>6. ASSUME NEW n, NEW from, NEW to, D!SearchNew(c, n, from, to)
        PROVE  /\ At(c, from, to) /\ dir' = dir /\ cmd'[c] = cmd[c]
               /\ iNumberNew'[c] = dir[n] /\ iNumber'[c] = iNumber[c]
               /\ OthersStay(c) /\ nextINumber' = nextINumber
    BY <1>1, <1>6 DEF D!SearchNew
  <1> HIDE DEF Stays, OthersStay
  <1>7. CASE D!create(c)
    BY <1>2, <1>3, <1>4, <1>7 DEF D!create, GoesOn, Stores, Returns
  <1>8. CASE D!delete(c)
    BY <1>2, <1>3, <1>4, <1>8 DEF D!delete, GoesOn, Stores, Returns
  <1>9. CASE D!lookup(c)
    BY <1>2, <1>3, <1>5, <1>9 DEF D!lookup, GoesOn, Searches, Returns
  <1>10. CASE D!RenameLookups(c)
    BY <1>2, <1>5, <1>6, <1>10 DEF D!RenameLookups, GoesOn, Searches
  <1>11. CASE D!RenameDecide(c)
    BY <1>2, <1>3, <1>11 DEF D!RenameDecide, GoesOn, Returns
  <1>12. CASE D!RenameLocks(c)
    <2>1. CASE /\ opc[c] = "new_trylock"
               /\ D!TryLockFails(Hash[cmd[c].name2])
               /\ D!Goto(c, "back_off")
               /\ UNCHANGED <<dir, nextINumber, D!locals>>
      BY <1>1, <2>1 DEF GoesOn, Stays, OthersStay
    <2> QED
      BY <1>2, <1>12, <2>1 DEF D!RenameLocks, GoesOn
  <1>13. CASE D!RenameMove(c)
    BY <1>2, <1>3, <1>4, <1>13 DEF D!RenameMove, GoesOn, Stores, Returns
  <1> QED
    BY <1>7, <1>8, <1>9, <1>10, <1>11, <1>12, <1>13 DEF D!Step, D!renameFile
-----------------------------------------------------------------------------
(* The steps of the program, as far as the directory is concerned. *)

\* The directory is left alone; every consumer keeps what it has in hand.
Quiet ==
  /\ UNCHANGED <<dir, nextINumber, opc, cmd, iNumber, iNumberNew, applied>>

\* A consumer enters an operation.
Enters(c) ==
  /\ opc[c] = "idle"
  /\ cmd'[c] \in D!Command
  /\ applied' = Append(applied, cmd'[c])
  /\ dir' = dir
  /\ OthersStay(c)
  /\ iNumberNew'[c] = iNumberNew[c]
  /\ \/ /\ cmd'[c].kind = "create" /\ opc'[c] = "create_lock"
        /\ nextINumber' = nextINumber + 1 /\ iNumber'[c] = nextINumber + 1
     \/ /\ \/ cmd'[c].kind = "delete" /\ opc'[c] = "delete_lock"
           \/ cmd'[c].kind = "lookup" /\ opc'[c] = "lookup_lock"
           \/ cmd'[c].kind = "rename" /\ opc'[c] = "old_lock"
        /\ nextINumber' = nextINumber /\ iNumber'[c] = iNumber[c]

\* A consumer goes on with one.
Operates(c) ==
  /\ Returns(c) \/ Stores(c) \/ Searches(c) \/ GoesOn(c)
  /\ OthersStay(c)
  /\ UNCHANGED <<nextINumber, applied>>

LEMMA EnterEffect ==
  ASSUME QP!OrderInv, DP!IInv, NEW c \in Consumer, FetchCommand(c), current'[c] # End
  PROVE  Enters(c)
  <1>1. /\ current'[c] \in D!Command /\ applied' = Append(applied, current'[c])
        /\ D!Call(c, current'[c])
    BY FetchedCommand
  <1>2. /\ opc \in [Consumer -> DP!Label]
        /\ cmd \in [Consumer -> DP!Command \cup {DP!NoCommand}]
        /\ iNumber \in [Consumer -> 0..MaxINumber]
    BY DEF DP!IInv, DP!TypeOK
  <1>3. cmd' = [cmd EXCEPT ![c] = current'[c]] /\ dir' = dir /\ iNumberNew' = iNumberNew
    BY <1>1 DEF D!Call
  <1>4. cmd'[c] = current'[c] /\ \A d \in Consumer \ {c} : cmd'[d] = cmd[d]
    BY <1>2, <1>3
  <1>5. /\ opc[c] = "idle"
        /\ \/ /\ cmd'[c].kind = "create" /\ opc' = [opc EXCEPT ![c] = "create_lock"]
              /\ nextINumber' = nextINumber + 1
              /\ iNumber' = [iNumber EXCEPT ![c] = nextINumber + 1]
           \/ /\ \/ cmd'[c].kind = "delete" /\ opc' = [opc EXCEPT ![c] = "delete_lock"]
                 \/ cmd'[c].kind = "lookup" /\ opc' = [opc EXCEPT ![c] = "lookup_lock"]
                 \/ cmd'[c].kind = "rename" /\ opc' = [opc EXCEPT ![c] = "old_lock"]
              /\ nextINumber' = nextINumber /\ iNumber' = iNumber
    BY <1>1, <1>4 DEF D!Call, D!obtainNewInumber, D!Goto
  <1> QED
    BY <1>1, <1>2, <1>3, <1>4, <1>5 DEF Enters, OthersStay, Stays

LEMMA StepCases ==
  ASSUME Inv, [Next]_vars
  PROVE  /\ file' = file
         /\ \/ Quiet
            \/ \E c \in Consumer : Enters(c)
            \/ \E c \in Consumer : Operates(c)
         /\ Together'
  <1>1. /\ pc \in [Consumer \cup {Producer} -> QP!ProducerLabel \cup QP!ConsumerLabel]
        /\ current \in [Consumer -> D!Command \cup {End, Nothing}]
        /\ Producer \notin Consumer
    BY QueueTypes, QueueAssumptions DEF Inv, QP!QueueAssumption
  <1>2. Together /\ QP!OrderInv /\ DP!IInv
    BY DEF Inv
  <1>3. ASSUME UNCHANGED directoryVars, applied' = applied, file' = file,
               \A c \in Consumer : Working(c)' <=> Working(c),
               \A c \in Consumer : Working(c) => current'[c] = current[c]
        PROVE  file' = file /\ Quiet /\ Together'
    BY <1>2, <1>3 DEF Together, Quiet, directoryVars
  <1>4. CASE processInput
    <2>1. /\ UNCHANGED <<file, applied, current>>
          /\ \E to : pc' = [pc EXCEPT ![Producer] = to] \/ pc' = pc
      BY <1>4
         DEF processInput, Q!processInput, Q!ReadCommand, Q!SkipComment, Q!errorParse,
             Q!EndOfFile, Q!InsertEnd, Q!EndsInserted, Q!WaitForSlot, Q!Lock,
             Q!StoreCommand, Q!Unlock, Q!PostCommand, Q!Goes, Q!consumerVars
    <2>2. \A c \in Consumer : pc'[c] = pc[c]
      BY <1>1, <2>1
    <2> QED
      BY <1>3, <1>4, <2>1, <2>2 DEF processInput, Working
  <1>5. ASSUME NEW c \in Consumer, Q!TakeCommand(c), UNCHANGED directoryVars
        PROVE  file' = file /\ Quiet /\ Together'
    <2>1. /\ UNCHANGED <<file, applied, current>>
          /\ \/ \E from, to \in {"wait", "lock", "remove", "parse"} :
                  pc[c] = from /\ pc' = [pc EXCEPT ![c] = to]
             \/ current[c] = End /\ pc[c] = "unlock" /\ pc' = [pc EXCEPT ![c] = "done"]
             \/ current[c] # End /\ pc[c] = "unlock" /\ pc' = [pc EXCEPT ![c] = "post"]
             \/ pc[c] = "post" /\ pc' = [pc EXCEPT ![c] = "apply"]
      BY <1>5
         DEF Q!TakeCommand, Q!WaitForCommand, Q!Lock, Q!removeCommand, Q!Unlock,
             Q!GiveSlotBack, Q!Goes, Q!consumerVars
    <2>2. Working(c)' <=> Working(c)
      BY <1>1, <2>1 DEF Working
    <2>3. \A d \in Consumer : d # c => pc'[d] = pc[d]
      BY <1>1, <2>1
    <2>4. \A d \in Consumer : Working(d)' <=> Working(d)
      BY <2>1, <2>2, <2>3 DEF Working
    <2> QED
      BY <1>3, <1>5, <2>1, <2>4
  <1>6. ASSUME NEW c \in Consumer, FetchCommand(c)
        PROVE  file' = file /\ (Quiet \/ Enters(c)) /\ Together'
    <2>1. /\ current' = [current EXCEPT ![c] = inputCommands[slot[c]]]
          /\ applied' = IF inputCommands[slot[c]] = End
                        THEN applied ELSE Append(applied, inputCommands[slot[c]])
          /\ file' = file
          /\ pc' = [pc EXCEPT ![c] = "unlock"] /\ pc[c] = "parse"
      BY <1>6 DEF FetchCommand, Q!ParseCommand, Q!Goes
    <2>2. /\ \A d \in Consumer : d # c => pc'[d] = pc[d] /\ current'[d] = current[d]
          /\ pc'[c] = "unlock" /\ current'[c] = inputCommands[slot[c]]
      BY <1>1, <2>1
    <2>3. CASE current'[c] = End
      <3>1. UNCHANGED directoryVars /\ applied' = applied
        BY <1>6, <2>1, <2>2, <2>3 DEF FetchCommand
      <3>2. ~Working(c) /\ ~Working(c)'
        BY <2>1, <2>2, <2>3 DEF Working
      <3>3. /\ \A d \in Consumer : Working(d)' <=> Working(d)
            /\ \A d \in Consumer : Working(d) => current'[d] = current[d]
        BY <2>2, <3>2 DEF Working
      <3> QED
        BY <1>3, <2>1, <3>1, <3>3
    <2>4. CASE current'[c] # End
      <3>1. Enters(c)
        BY <1>2, <1>6, <2>4, EnterEffect
      <3>2. cmd'[c] = current'[c] /\ opc'[c] # "idle" /\ Working(c)'
        <4>1. cmd' = [cmd EXCEPT ![c] = current'[c]]
          BY <1>2, <1>6, <2>4, FetchedCommand DEF D!Call
        <4>2. cmd \in [Consumer -> DP!Command \cup {DP!NoCommand}]
          BY <1>2 DEF DP!IInv, DP!TypeOK
        <4> QED
          BY <2>2, <2>4, <3>1, <4>1, <4>2 DEF Enters, Working
      <3>3. Together'
        <4> SUFFICES ASSUME NEW d \in Consumer
                     PROVE  /\ opc'[d] # "idle" <=> Working(d)'
                            /\ opc'[d] # "idle" => cmd'[d] = current'[d]
          BY DEF Together
        <4>1. CASE d = c
          BY <3>2, <4>1
        <4>2. CASE d # c
          BY <1>2, <2>2, <3>1, <4>2 DEF Together, Working, Enters, OthersStay, Stays
        <4> QED
          BY <4>1, <4>2
      <3> QED
        BY <2>1, <3>1, <3>3
    <2> QED
      BY <2>3, <2>4
  <1>7. ASSUME NEW c \in Consumer, Operate(c)
        PROVE  file' = file /\ Operates(c) /\ Together'
    <2>1. pc[c] = "apply" /\ D!Step(c)
      BY <1>7 DEF Operate
    <2>2. /\ Returns(c) \/ Stores(c) \/ Searches(c) \/ GoesOn(c)
          /\ OthersStay(c) /\ nextINumber' = nextINumber
      BY <1>2, <2>1, StepEffect
    <2>3. opc[c] # "idle" /\ Working(c) /\ cmd[c] = current[c]
      BY <1>2, <2>2 DEF Returns, Stores, Searches, GoesOn, At, Together
    <2>4. CASE opc'[c] = "idle"
      <3>1. /\ UNCHANGED <<file, applied>>
            /\ pc' = [pc EXCEPT ![c] = "wait"]
            /\ current' = [current EXCEPT ![c] = Nothing]
        BY <1>7, <2>4 DEF Operate, Q!Apply, Q!Goes
      <3>2. /\ pc'[c] = "wait"
            /\ \A d \in Consumer : d # c => pc'[d] = pc[d] /\ current'[d] = current[d]
        BY <1>1, <3>1
      <3>3. Together'
        <4> SUFFICES ASSUME NEW d \in Consumer
                     PROVE  /\ opc'[d] # "idle" <=> Working(d)'
                            /\ opc'[d] # "idle" => cmd'[d] = current'[d]
          BY DEF Together
        <4>1. CASE d = c
          BY <2>4, <3>2, <4>1 DEF Working
        <4>2. CASE d # c
          BY <1>2, <2>2, <3>2, <4>2 DEF Together, Working, OthersStay, Stays
        <4> QED
          BY <4>1, <4>2
      <3> QED
        BY <2>2, <3>1, <3>3 DEF Operates
    <2>5. CASE opc'[c] # "idle"
      <3>1. UNCHANGED <<file, applied, pc, current>>
        BY <1>7, <2>5 DEF Operate, queueVars
      <3>2. cmd'[c] = cmd[c]
        BY <2>2, <2>5 DEF Returns, Stores, Searches, GoesOn, Stays
      <3>3. Together'
        <4> SUFFICES ASSUME NEW d \in Consumer
                     PROVE  /\ opc'[d] # "idle" <=> Working(d)'
                            /\ opc'[d] # "idle" => cmd'[d] = current'[d]
          BY DEF Together
        <4>1. CASE d = c
          BY <2>3, <2>5, <3>1, <3>2, <4>1 DEF Working
        <4>2. CASE d # c
          BY <1>2, <2>2, <3>1, <4>2 DEF Together, Working, OthersStay, Stays
        <4> QED
          BY <4>1, <4>2
      <3> QED
        BY <2>2, <3>1, <3>3 DEF Operates
    <2> QED
      BY <2>4, <2>5
  <1>8. CASE JoinAll \/ Exited \/ UNCHANGED vars
    <2>1. UNCHANGED directoryVars /\ UNCHANGED <<applied, file, pc, current>>
      BY <1>8
         DEF JoinAll, Exited, Q!JoinAll, Q!Exited, Q!vars, Q!consumerVars, vars, queueVars
    <2> QED
      BY <1>3, <2>1 DEF Working
  <1> QED
    BY <1>4, <1>5, <1>6, <1>7, <1>8 DEF Next, applyCommands

LEMMA NextInv == Inv /\ [Next]_vars => Inv'
  <1> SUFFICES ASSUME Inv, [Next]_vars PROVE Inv'
    OBVIOUS
  <1>1. QP!OrderInv' /\ DP!IInv'
    BY OrderStep, LocksStep DEF Inv
  <1> QED
    BY <1>1, StepCases DEF Inv

THEOREM Invariance == Spec => []Inv
  <1> QED
    BY InitInv, NextInv, PTL DEF Spec

\* Whatever the directory does, the queue of the program is that of module
\* CommandQueue: all that is proved of it holds here.
THEOREM QueueBehaves == Spec => Q!Spec
  <1>1. Init => Q!Init
    BY DEF Init
  <1>2. [Next]_vars => [Q!Next]_(Q!vars)
    <2> SUFFICES ASSUME [Next]_vars PROVE [Q!Next]_(Q!vars)
      OBVIOUS
    <2>1. UNCHANGED queueVars => UNCHANGED Q!vars
      BY DEF queueVars, Q!vars, Q!producerVars, Q!consumerVars, Q!ring, Q!sync
    <2> QED
      BY <2>1 DEF Next, vars, processInput, applyCommands, FetchCommand, Operate, JoinAll,
                  Exited, Q!Next, Q!applyCommands
  <1> QED
    BY <1>1, <1>2, PTL DEF Spec, Q!Spec

\* Whatever the queue does, the workers execute the operations of module
\* Directory, and so everything proved of it holds in the program.
THEOREM DirectoryBehaves == Spec => D!Spec
  <1>1. Init => D!Init
    BY DEF Init
  <1>2. Inv /\ [Next]_vars => [D!Next]_(D!vars)
    <2> SUFFICES ASSUME Inv, [Next]_vars PROVE [D!Next]_(D!vars)
      OBVIOUS
    <2>1. CASE UNCHANGED directoryVars
      BY <2>1 DEF directoryVars, D!vars, D!locals, D!lockVars
    <2>2. ASSUME NEW c \in Consumer, FetchCommand(c), current'[c] # End
          PROVE  D!Next
      BY <2>2, FetchedCommand DEF Inv, D!Next
    <2>3. ASSUME NEW c \in Consumer, D!Step(c)
          PROVE  D!Next
      BY <2>3 DEF D!Next
    <2> QED
      BY <2>1, <2>2, <2>3
         DEF Next, processInput, applyCommands, FetchCommand, Operate, JoinAll, Exited, vars
  <1> QED
    BY <1>1, <1>2, Invariance, PTL DEF Spec, D!Spec
-----------------------------------------------------------------------------
(* The parts keep in the program what is proved of them. *)

LEMMA QueueSpec == Spec => QP!Spec
  <1>1. Init => QP!Init
    BY SameInit DEF Init
  <1> QED
    BY <1>1, QueueStep, PTL DEF Spec, QP!Spec

LEMMA DirectorySpec == Spec => DP!Spec
  <1>1. Init => DP!Init
    BY SameInit DEF Init
  <1>2. Inv => QP!OrderInv
    BY DEF Inv
  <1> QED
    BY <1>1, <1>2, DirectoryStep, Invariance, PTL DEF Spec, DP!Spec

\* In the program the ring is still a bounded queue and the operations of fs.c
\* still happen at once, however the steps of the two are interleaved.
THEOREM PartsRefine ==
  Spec => QP!ImplementsBoundedQueue /\ DP!ImplementsAtomicDirectory
  <1>1. QP!Spec => QP!ImplementsBoundedQueue
    BY QueueAssumptions, QP!Refinement DEF QP!QueueAssumption
  <1>2. DP!Spec => DP!ImplementsAtomicDirectory
    BY DirectoryAssumptions, DP!Refinement
       DEF DP!HashAssumption, DP!MaxAssumption, DP!MechAssumption, DP!NoSyncAssumption
  <1> QED
    BY <1>1, <1>2, QueueSpec, DirectorySpec, PTL

\* A consumer that has a bucket is in the middle of its command: it has given the
\* mutex and the slot back, and waits for no other bucket.
LEMMA HolderGoesOn ==
  ASSUME Inv, DP!NoCircularWait, NEW c \in Consumer, NEW u \in D!WaitsFor(c)
  PROVE  u \in Consumer /\ pc[u] # "done" /\ ~Waits(u)
  <1>1. u \in DP!WaitsFor(c) /\ u \in Consumer
    BY DEF D!WaitsFor, DP!WaitsFor, D!AwaitsRead, DP!AwaitsRead,
           D!AwaitsWrite, DP!AwaitsWrite
  <1>2. opc[u] # "idle" /\ DP!WaitsFor(u) = {}
    BY <1>1 DEF DP!NoCircularWait
  <1>3. D!WaitsFor(u) = {}
    BY <1>2 DEF D!WaitsFor, DP!WaitsFor, D!AwaitsRead, DP!AwaitsRead,
                D!AwaitsWrite, DP!AwaitsWrite
  <1>4. pc[u] \in {"unlock", "post", "apply"}
    BY <1>1, <1>2 DEF Inv, Together, Working
  <1> QED
    BY <1>1, <1>3, <1>4 DEF Waits, Q!Waits

\* For any file, workers, slots, names and hash: with a slot for each worker the
\* program never comes to where every thread waits for another, although a
\* consumer can be held up by the mutex, the semaphores and the buckets.
THEOREM DeadlockFree == Spec => []NeverStuck
  <1>1. Inv /\ DP!NoCircularWait /\ QP!NeverStuck => NeverStuck
    <2> SUFFICES ASSUME Inv, DP!NoCircularWait, QP!NeverStuck,
                        Q!numberThreads <= MAX_COMMANDS, process = "running",
                        NEW s \in Q!Thread, pc[s] # "done"
                 PROVE  \E t \in Q!Thread : pc[t] # "done" /\ ~Waits(t)
      BY DEF NeverStuck
    <2>1. PICK t \in Q!Thread : pc[t] # "done" /\ ~Q!Waits(t)
      BY SameSets
         DEF QP!NeverStuck, QP!numberThreads, Q!numberThreads, QP!Thread, Q!Thread,
             QP!Waits, Q!Waits
    <2>2. CASE ~Waits(t)
      BY <2>1, <2>2
    <2>3. CASE Waits(t)
      <3>1. t \in Consumer /\ D!WaitsFor(t) # {}
        BY <2>1, <2>3 DEF Waits
      <3>2. PICK u \in D!WaitsFor(t) : TRUE
        BY <3>1
      <3>3. u \in Consumer /\ pc[u] # "done" /\ ~Waits(u)
        BY <3>1, HolderGoesOn
      <3> QED
        BY <3>3 DEF Q!Thread
    <2> QED
      BY <2>2, <2>3
  <1>2. QP!Spec => []QP!NeverStuck
    BY QueueAssumptions, QP!DeadlockFree DEF QP!QueueAssumption
  <1>3. DP!Spec => []DP!NoCircularWait
    BY DirectoryAssumptions, DP!NoCircle
       DEF DP!HashAssumption, DP!MaxAssumption, DP!MechAssumption, DP!NoSyncAssumption
  <1> QED
    BY <1>1, <1>2, <1>3, QueueSpec, DirectorySpec, Invariance, PTL
-----------------------------------------------------------------------------
(* No line is lost. *)

Created(n) == \E i \in OfKind("create") : file[i].name = n
RenamedTo(n) == \E i \in OfKind("rename") : file[i].name2 = n
Removed(n) == \E i \in OfKind("delete") \cup OfKind("rename") : file[i].name = n

\* What the consumers execute are lines of the file.
HandsAreLines ==
  \A c \in Consumer : opc[c] # "idle" =>
    \E i \in DOMAIN file : file[i] \in D!Command /\ file[i] = cmd[c]

\* Where a consumer is about to store an i-number, it has one.
Storing ==
  {"create_lock", "create_insert",
   "same_wrlock", "old_wrlock", "new_trylock", "back_off", "rename_delete", "rename_create"}

HasNumber == \A c \in Consumer : opc[c] \in Storing => iNumber[c] # D!NotFound

\* A create that was taken and that nothing undoes has been done, or is under way.
Creating(c, n) == opc[c] \in {"create_lock", "create_insert"} /\ cmd[c].name = n

KeepsCreated ==
  \A n \in Name :
    /\ \E k \in DOMAIN applied : applied[k].kind = "create" /\ applied[k].name = n
    /\ ~Removed(n)
    => dir[n] # D!NotFound \/ \E c \in Consumer : Creating(c, n)

NothingInvented == \A n \in Name : dir[n] # D!NotFound => Created(n) \/ RenamedTo(n)

\* main exits when every consumer has ended.
EndsTogether == process = "finished" => \A c \in Consumer : pc[c] = "done"

LinesInv ==
  Inv /\ HandsAreLines /\ HasNumber /\ KeepsCreated /\ NothingInvented /\ EndsTogether

\* What a consumer at a label has in hand.
LEMMA Hand ==
  ASSUME DP!IInv, NEW c \in Consumer
  PROVE  /\ opc[c] \in {"create_lock", "create_insert", "create_unlock"}
              => cmd[c].kind = "create"
         /\ opc[c] \in {"delete_lock", "delete_remove", "delete_unlock"}
              => cmd[c].kind = "delete"
         /\ opc[c] \in {"old_lock", "old_search", "old_unlock", "new_lock", "new_search",
                        "new_unlock", "same_wrlock", "old_wrlock", "new_trylock", "back_off",
                        "rename_delete", "rename_create", "unlock_new", "unlock_old"}
              => cmd[c].kind = "rename" /\ cmd[c].name2 \in Name
         /\ opc[c] # "idle" => cmd[c].name \in Name
  <1>1. DP!CommandAt(c)
    BY DEF DP!IInv, DP!CommandsAgree
  <1>2. opc[c] # "idle" => cmd[c] \in DP!Command
    BY <1>1 DEF DP!CommandAt
  <1>3. ASSUME opc[c] # "idle"
        PROVE  cmd[c].name \in Name /\ (cmd[c].kind = "rename" => cmd[c].name2 \in Name)
    BY <1>2, <1>3 DEF DP!Command
  <1> QED
    BY <1>1, <1>3
       DEF DP!CommandAt, DP!CreateLabel, DP!DeleteLabel, DP!RenameLabel, DP!LookupLabel,
           DP!Label

LEMMA InitLines == Init => LinesInv
  <1> SUFFICES ASSUME Init PROVE LinesInv
    OBVIOUS
  <1>1. Inv
    BY InitInv
  <1>2. /\ applied = <<>> /\ process = "running"
        /\ \A c \in Consumer : opc[c] = "idle"
        /\ \A n \in Name : dir[n] = D!NotFound
    BY DEF Init, Q!Init, D!Init, D!new_tecnicofs
  <1>3. DOMAIN applied = {}
    BY <1>2
  <1> QED
    BY <1>1, <1>2, <1>3
       DEF LinesInv, HandsAreLines, HasNumber, Storing, KeepsCreated, NothingInvented,
           EndsTogether

\* What the steps of the consumers do to these invariants.
LEMMA EndsTogetherStep == Inv /\ EndsTogether /\ [Next]_vars => EndsTogether'
  <1> SUFFICES ASSUME Inv, EndsTogether, [Next]_vars PROVE EndsTogether'
    OBVIOUS
  <1>1. CASE JoinAll
    BY <1>1 DEF JoinAll, Q!JoinAll, EndsTogether, Q!Thread
  <1>2. CASE Exited \/ UNCHANGED vars
    BY <1>2 DEF Exited, Q!Exited, Q!vars, vars, queueVars, EndsTogether
  <1>3. CASE processInput
    <2>1. process' # "finished"
      BY <1>3
         DEF processInput, Q!processInput, Q!ReadCommand, Q!SkipComment, Q!errorParse,
             Q!EndOfFile, Q!InsertEnd, Q!EndsInserted, Q!WaitForSlot, Q!Lock,
             Q!StoreCommand, Q!Unlock, Q!PostCommand, Q!Goes
    <2> QED
      BY <2>1 DEF EndsTogether
  <1>4. ASSUME NEW c \in Consumer, applyCommands(c)
        PROVE  EndsTogether'
    <2>1. process' # "finished"
      BY <1>4
         DEF applyCommands, FetchCommand, Operate, Q!TakeCommand, Q!WaitForCommand, Q!Lock,
             Q!removeCommand, Q!Unlock, Q!GiveSlotBack, Q!ParseCommand, Q!Apply, Q!Goes,
             queueVars
    <2> QED
      BY <2>1 DEF EndsTogether
  <1> QED
    BY <1>1, <1>2, <1>3, <1>4 DEF Next

LEMMA NextLines == LinesInv /\ [Next]_vars => LinesInv'
  <1> SUFFICES ASSUME LinesInv, [Next]_vars PROVE LinesInv'
    OBVIOUS
  <1> USE DEF LinesInv
  <1>1. Inv' /\ EndsTogether'
    BY NextInv, EndsTogetherStep
  <1>2. /\ file' = file
        /\ applied \in Seq(D!Command)
        /\ QP!OrderInv' /\ DP!IInv
        /\ dir \in [Name -> 0..MaxINumber]
    BY <1>1, StepCases, QueueTypes DEF Inv, DP!IInv, DP!TypeOK
  <1>3. \A n \in Name : /\ Created(n)' <=> Created(n)
                        /\ RenamedTo(n)' <=> RenamedTo(n)
                        /\ Removed(n)' <=> Removed(n)
    BY <1>2 DEF Created, RenamedTo, Removed, OfKind
  <1>4. CASE Quiet
    <2>1. HandsAreLines' /\ HasNumber'
      BY <1>2, <1>4 DEF Quiet, HandsAreLines, HasNumber
    <2>2. KeepsCreated' /\ NothingInvented'
      BY <1>3, <1>4 DEF Quiet, KeepsCreated, NothingInvented, Creating
    <2> QED
      BY <1>1, <2>1, <2>2
  <1>5. ASSUME NEW c \in Consumer, Enters(c)
        PROVE  LinesInv'
    <2>1. /\ applied' = Append(applied, cmd'[c]) /\ dir' = dir /\ cmd'[c] \in D!Command
          /\ \A d \in Consumer \ {c} :
               opc'[d] = opc[d] /\ cmd'[d] = cmd[d] /\ iNumber'[d] = iNumber[d]
          /\ opc[c] = "idle"
          /\ cmd'[c].kind = "create" => opc'[c] = "create_lock"
      BY <1>5, <1>2 DEF Enters, OthersStay, Stays
    <2>2. /\ Len(applied) \in Nat /\ DOMAIN applied = 1..Len(applied)
          /\ DOMAIN applied' = 1..Len(applied) + 1
          /\ applied'[Len(applied) + 1] = cmd'[c]
          /\ \A k \in 1..Len(applied) : applied'[k] = applied[k]
      BY <1>2, <2>1
    <2>3. Len(applied) + 1 \in DOMAIN applied'
      BY <2>2
    <2>4. \E i \in DOMAIN file : file[i] \in D!Command /\ file[i] = cmd'[c]
      <3>1. \A k \in DOMAIN applied' :
              \E i \in DOMAIN file' : file'[i] \in D!Command /\ file'[i] = applied'[k]
        BY <1>2 DEF QP!OrderInv, QP!AppliedInOrder, QP!IsCommand, QP!CommandLines
      <3> QED
        BY <1>2, <2>2, <2>3, <3>1
    <2>5. HandsAreLines'
      BY <1>2, <2>1, <2>4 DEF HandsAreLines
    <2>6. HasNumber'
      <3>1. opc'[c] \in Storing => iNumber'[c] # D!NotFound
        <4>1. nextINumber \in 0..MaxINumber
          BY <1>2 DEF DP!IInv, DP!TypeOK
        <4> QED
          BY <1>5, <4>1, PartsAssumption DEF Enters, Storing, D!NotFound, D!MaxAssumption
      <3> QED
        BY <2>1, <3>1 DEF HasNumber, D!NotFound
    <2>7. KeepsCreated'
      <3> SUFFICES ASSUME NEW n \in Name, ~Removed(n), NEW k \in DOMAIN applied',
                          applied'[k].kind = "create", applied'[k].name = n
                   PROVE  dir'[n] # D!NotFound \/ \E d \in Consumer : Creating(d, n)'
        BY <1>3 DEF KeepsCreated, D!NotFound
      <3>1. CASE k \in 1..Len(applied)
        <4>1. dir[n] # D!NotFound \/ \E d \in Consumer : Creating(d, n)
          BY <2>2, <3>1 DEF KeepsCreated
        <4> QED
          BY <2>1, <4>1 DEF Creating
      <3>2. CASE k = Len(applied) + 1
        <4>1. Creating(c, n)'
          BY <2>1, <2>2, <3>2 DEF Creating
        <4> QED
          BY <4>1
      <3> QED
        BY <2>2, <3>1, <3>2
    <2>8. NothingInvented'
      BY <1>3, <2>1 DEF NothingInvented, D!NotFound
    <2> QED
      BY <1>1, <2>5, <2>6, <2>7, <2>8
  <1>6. ASSUME NEW c \in Consumer, Operates(c)
        PROVE  LinesInv'
    <2>1. /\ applied' = applied
          /\ \A d \in Consumer \ {c} :
               opc'[d] = opc[d] /\ cmd'[d] = cmd[d] /\ iNumber'[d] = iNumber[d]
          /\ opc[c] # "idle"
          /\ opc'[c] # "idle" => cmd'[c] = cmd[c]
      BY <1>6 DEF Operates, OthersStay, Returns, Stores, Searches, GoesOn, At, Stays
    <2>2. HandsAreLines'
      BY <1>2, <2>1 DEF HandsAreLines
    <2>3. PICK i \in DOMAIN file : file[i] \in D!Command /\ file[i] = cmd[c]
      BY <2>1 DEF HandsAreLines
    <2>4. /\ cmd[c].kind = "create" => Created(cmd[c].name)
          /\ cmd[c].kind \in {"delete", "rename"} => Removed(cmd[c].name)
          /\ cmd[c].kind = "rename" => RenamedTo(cmd[c].name2)
      BY <2>3 DEF Created, RenamedTo, Removed, OfKind
    <2>5. HasNumber'
      <3>1. opc'[c] \in Storing => iNumber'[c] # D!NotFound
        BY <1>6
           DEF Operates, Returns, Stores, Searches, GoesOn, At, Stays, Storing, HasNumber,
               D!MayRename, D!NotFound
      <3> QED
        BY <2>1, <3>1 DEF HasNumber, D!NotFound
    <2>6. ASSUME NEW n \in Name
          PROVE  /\ ~Removed(n) /\ dir[n] # D!NotFound => dir'[n] # D!NotFound
                 /\ dir'[n] # D!NotFound => dir[n] # D!NotFound \/ Created(n) \/ RenamedTo(n)
                 /\ Creating(c, n) => Creating(c, n)' \/ dir'[n] # D!NotFound
      <3>1. CASE Returns(c) \/ Searches(c) \/ GoesOn(c)
        BY <3>1 DEF Returns, Searches, GoesOn, At, Stays, Creating
      <3>2. CASE Stores(c)
        BY <1>2, <2>4, <3>2, Hand
           DEF Stores, At, Stays, Creating, HasNumber, Storing
      <3> QED
        BY <1>6, <3>1, <3>2 DEF Operates
    <2>7. \A d \in Consumer \ {c} : \A n : Creating(d, n) => Creating(d, n)'
      BY <2>1 DEF Creating
    <2>8. KeepsCreated'
      BY <1>3, <2>1, <2>6, <2>7 DEF KeepsCreated, D!NotFound
    <2>9. NothingInvented'
      BY <1>3, <2>6 DEF NothingInvented, D!NotFound
    <2> QED
      BY <1>1, <2>2, <2>5, <2>8, <2>9
  <1> QED
    BY <1>4, <1>5, <1>6, StepCases

\* Whatever the workers and the file: a name that a line creates and no line
\* deletes or renames is in the directory that main prints, and a name that no
\* line creates or renames to is not.
THEOREM NoLineLost == Spec => []NothingLost
  <1>1. LinesInv => NothingLost
    <2> SUFFICES ASSUME LinesInv, process = "finished", NEW n \in Name
                 PROVE  /\ Created(n) /\ ~Removed(n) => dir[n] # D!NotFound
                        /\ ~(Created(n) \/ RenamedTo(n)) => dir[n] = D!NotFound
      BY DEF NothingLost, Created, RenamedTo, Removed
    <2>1. ASSUME Created(n), ~Removed(n) PROVE dir[n] # D!NotFound
      <3>1. PICK i \in OfKind("create") : file[i].name = n
        BY <2>1 DEF Created
      <3>2. i \in QP!CommandLines /\ file[i].kind = "create"
        BY <3>1 DEF OfKind, QP!CommandLines
      <3>3. \E k \in DOMAIN applied : applied[k] = file[i]
        BY <3>2, QueueAssumptions, QP!AllTaken DEF LinesInv, Inv, QP!QueueAssumption
      <3>4. \A c \in Consumer : opc[c] = "idle"
        BY DEF LinesInv, EndsTogether, Inv, Together, Working
      <3> QED
        BY <2>1, <3>1, <3>2, <3>3, <3>4 DEF LinesInv, KeepsCreated, Creating
    <2> QED
      BY <2>1 DEF LinesInv, NothingInvented
  <1>2. Spec => []LinesInv
    BY InitLines, NextLines, PTL DEF Spec
  <1> QED
    BY <1>1, <1>2, PTL
-----------------------------------------------------------------------------
(* The i-numbers follow the file. *)

\* The create lines that a consumer has taken a number for.
CreatesTaken ==
  {i \in OfKind("create") : QP!UpTo(QP!CommandLines, i) <= Len(applied)}

\* The number k was given to a create line of a name that may now be n.
Origin(k, n) ==
  \E i \in OfKind("create") :
    QP!UpTo(OfKind("create"), i) = k /\ n \in Reach(file[i].name)

\* Where a consumer has a number that belongs under the name of its command.
Carrying ==
  {"create_lock", "create_insert",
   "old_unlock", "new_lock", "new_search", "new_unlock", "same_wrlock", "old_wrlock",
   "new_trylock", "back_off", "rename_delete", "rename_create"}

NumbersCounted == nextINumber = Cardinality(CreatesTaken)

EntriesHaveOrigin == \A n \in Name : dir[n] # D!NotFound => Origin(dir[n], n)

HandsHaveOrigin ==
  \A c \in Consumer :
    opc[c] \in Carrying /\ iNumber[c] # D!NotFound => Origin(iNumber[c], cmd[c].name)

NumbersInv == LinesInv /\ NumbersCounted /\ EntriesHaveOrigin /\ HandsHaveOrigin

\* A name reaches itself, and a rename line takes it further.
LEMMA ReachItself ==
  ASSUME NEW n \in Name
  PROVE  n \in Reach(n)
  BY DEF Reach

LEMMA ReachFurther ==
  ASSUME NEW n \in Name, NEW i \in OfKind("rename"),
         file[i].name \in Reach(n), file[i].name2 \in Name
  PROVE  file[i].name2 \in Reach(n)
  <1> SUFFICES ASSUME NEW S \in SUBSET Name, n \in S, RenamedFrom(S) \subseteq S
               PROVE  file[i].name2 \in S
    BY DEF Reach
  <1>1. file[i].name \in S
    BY DEF Reach
  <1>2. file[i].name2 \in RenamedFrom(S)
    BY <1>1 DEF RenamedFrom
  <1> QED
    BY <1>2

\* The create lines are some of the lines.
LEMMA CreatesFinite ==
  ASSUME QP!OrderInv
  PROVE  /\ QP!TypeOK
         /\ OfKind("create") \subseteq QP!CommandLines
         /\ QP!CommandLines \in SUBSET Int
         /\ IsFiniteSet(OfKind("create")) /\ IsFiniteSet(CreatesTaken)
         /\ Cardinality(CreatesTaken) \in Nat
         /\ Len(applied) \in Nat
  <1>1. QP!TypeOK
    BY DEF QP!OrderInv, QP!IInv
  <1>2. IsFiniteSet(QP!CommandLines) /\ QP!CommandLines \in SUBSET Int
    BY <1>1, QueueAssumptions, SameSets, QP!CommandLinesFinite DEF QP!QueueAssumption
  <1>3. OfKind("create") \subseteq QP!CommandLines
    BY DEF OfKind, QP!CommandLines
  <1>4. IsFiniteSet(OfKind("create"))
    BY <1>2, <1>3, FS_Subset
  <1>5. IsFiniteSet(CreatesTaken)
    BY <1>4, FS_Subset DEF CreatesTaken
  <1>6. Cardinality(CreatesTaken) \in Nat
    BY <1>5, FS_CardinalityType
  <1>7. Len(applied) \in Nat
    BY QueueTypes
  <1> QED
    BY <1>1, <1>2, <1>3, <1>4, <1>5, <1>6, <1>7

\* When the k-th line that is a command is taken, the create lines up to it have been.
LEMMA TakeNext ==
  ASSUME QP!OrderInv, QP!OrderInv', file' = file, NEW x, applied' = Append(applied, x)
  PROVE  /\ x.kind # "create" => CreatesTaken' = CreatesTaken
         /\ x.kind = "create" =>
              \E i \in OfKind("create") :
                /\ file[i] = x
                /\ i \notin CreatesTaken /\ CreatesTaken' = CreatesTaken \cup {i}
                /\ QP!UpTo(OfKind("create"), i) = Cardinality(CreatesTaken')
  <1>1. /\ applied \in Seq(D!Command) /\ applied' \in Seq(D!Command)
        /\ Len(applied) \in Nat
        /\ DOMAIN applied' = 1..Len(applied) + 1
        /\ Len(applied') = Len(applied) + 1
        /\ applied'[Len(applied) + 1] = x
    <2>1. QP!TypeOK /\ QP!TypeOK'
      BY DEF QP!OrderInv, QP!IInv
    <2>2. applied \in Seq(D!Command) /\ applied' \in Seq(D!Command)
      BY <2>1 DEF QP!TypeOK
    <2>3. /\ Len(applied) \in Nat
          /\ DOMAIN Append(applied, x) = 1..Len(applied) + 1
          /\ Len(Append(applied, x)) = Len(applied) + 1
          /\ Append(applied, x)[Len(applied) + 1] = x
      BY <2>2
    <2> QED
      BY <2>2, <2>3
  <1>2. PICK i \in QP!CommandLines :
          QP!UpTo(QP!CommandLines, i) = Len(applied) + 1 /\ file[i] = x
    <2>1. \A k \in DOMAIN applied' :
            \E i \in {j \in DOMAIN file' : file'[j] \in D!Command} :
              /\ QP!UpTo({j \in DOMAIN file' : file'[j] \in D!Command}, i) = k
              /\ file'[i] = applied'[k]
      BY DEF QP!OrderInv, QP!AppliedInOrder, QP!IsCommand, QP!CommandLines, QP!UpTo
    <2>2. {j \in DOMAIN file' : file'[j] \in D!Command} = QP!CommandLines
      BY DEF QP!CommandLines
    <2>3. \E i \in QP!CommandLines :
            /\ QP!UpTo(QP!CommandLines, i) = Len(applied) + 1
            /\ file'[i] = applied'[Len(applied) + 1]
      BY <1>1, <2>1, <2>2
    <2> QED
      BY <1>1, <2>3
  <1>3. CreatesTaken' =
          {j \in OfKind("create") : QP!UpTo(QP!CommandLines, j) <= Len(applied) + 1}
    BY <1>1 DEF CreatesTaken, OfKind, QP!CommandLines, QP!UpTo
  <1>4. ASSUME NEW j \in OfKind("create")
        PROVE  /\ j \in CreatesTaken' <=> j \in CreatesTaken \/ j = i
               /\ j \in CreatesTaken' => j <= i
               /\ i \in OfKind("create") /\ j <= i => j \in CreatesTaken'
    <2>1. j \in QP!CommandLines /\ QP!TypeOK
      BY CreatesFinite
    <2>2. /\ QP!UpTo(QP!CommandLines, j) \in 1..QP!Total
          /\ QP!UpTo(QP!CommandLines, i) = QP!UpTo(QP!CommandLines, j) => i = j
          /\ QP!UpTo(QP!CommandLines, j) <= QP!UpTo(QP!CommandLines, i) => j <= i
          /\ j <= i => QP!UpTo(QP!CommandLines, j) <= QP!UpTo(QP!CommandLines, i)
      BY <2>1, QueueAssumptions, QP!PlacesDiffer DEF QP!QueueAssumption
    <2>3. QP!UpTo(QP!CommandLines, j) <= Len(applied) + 1
            <=> QP!UpTo(QP!CommandLines, j) <= Len(applied) \/ i = j
      BY <1>1, <1>2, <2>2
    <2> QED
      BY <1>2, <1>3, <2>2, <2>3 DEF CreatesTaken
  <1>5. i \in OfKind("create") <=> x.kind = "create"
    BY <1>2 DEF OfKind, QP!CommandLines
  <1>6. CASE x.kind # "create"
    <2>1. \A j : j \in CreatesTaken' <=> j \in CreatesTaken
      BY <1>3, <1>4, <1>5, <1>6 DEF CreatesTaken
    <2> QED
      BY <1>6, <2>1
  <1>7. CASE x.kind = "create"
    <2>1. CreatesTaken' = CreatesTaken \cup {i}
      <3>1. \A j : j \in CreatesTaken' <=> j \in CreatesTaken \/ j = i
        BY <1>3, <1>4, <1>5, <1>7 DEF CreatesTaken
      <3> QED
        BY <3>1
    <2>2. i \notin CreatesTaken
      BY <1>1, <1>2 DEF CreatesTaken
    <2>3. {j \in OfKind("create") : j <= i} = CreatesTaken'
      <3>1. \A j \in OfKind("create") : j \in CreatesTaken' <=> j <= i
        BY <1>4, <1>5, <1>7
      <3>2. \A j \in CreatesTaken' : j \in OfKind("create")
        BY <1>3
      <3> QED
        BY <3>1, <3>2
    <2>4. QP!UpTo(OfKind("create"), i) = Cardinality(CreatesTaken')
      BY <2>3, SameSets DEF QP!UpTo
    <2> QED
      BY <1>2, <1>5, <1>7, <2>1, <2>2, <2>4
  <1> QED
    BY <1>6, <1>7

LEMMA InitNumbers == Init => NumbersInv
  <1> SUFFICES ASSUME Init PROVE NumbersInv
    OBVIOUS
  <1>1. LinesInv
    BY InitLines
  <1>2. /\ applied = <<>> /\ nextINumber = 0
        /\ \A c \in Consumer : opc[c] = "idle"
        /\ \A n \in Name : dir[n] = D!NotFound
    BY DEF Init, Q!Init, D!Init, D!new_tecnicofs
  <1>3. CreatesTaken = {}
    <2> SUFFICES ASSUME NEW i \in CreatesTaken PROVE FALSE
      OBVIOUS
    <2>1. i \in QP!CommandLines /\ QP!TypeOK
      BY <1>1, CreatesFinite DEF LinesInv, Inv, CreatesTaken
    <2>2. QP!UpTo(QP!CommandLines, i) \in 1..QP!Total
      BY <2>1, QueueAssumptions, QP!PlacesDiffer DEF QP!QueueAssumption
    <2>3. QP!UpTo(QP!CommandLines, i) <= 0
      BY <1>2 DEF CreatesTaken
    <2> QED
      BY <2>2, <2>3
  <1>4. NumbersCounted
    BY <1>2, <1>3, FS_EmptySet DEF NumbersCounted
  <1> QED
    BY <1>1, <1>2, <1>4
       DEF NumbersInv, EntriesHaveOrigin, HandsHaveOrigin, Carrying

LEMMA NextNumbers == NumbersInv /\ [Next]_vars => NumbersInv'
  <1> SUFFICES ASSUME NumbersInv, [Next]_vars PROVE NumbersInv'
    OBVIOUS
  <1> USE DEF NumbersInv
  <1>1. LinesInv' /\ file' = file
    BY NextLines, StepCases DEF LinesInv
  <1>2. /\ QP!OrderInv /\ QP!OrderInv' /\ DP!IInv
        /\ dir \in [Name -> 0..MaxINumber]
    BY <1>1 DEF LinesInv, Inv, DP!IInv, DP!TypeOK
  <1>3. \A k, n : Origin(k, n)' <=> Origin(k, n)
    BY <1>1 DEF Origin, OfKind, Reach, RenamedFrom, QP!UpTo
  <1>4. applied' = applied => CreatesTaken' = CreatesTaken
    BY <1>1 DEF CreatesTaken, OfKind, QP!CommandLines, QP!UpTo
  <1>5. CASE Quiet
    <2>1. EntriesHaveOrigin' /\ HandsHaveOrigin'
      BY <1>3, <1>5 DEF Quiet, EntriesHaveOrigin, HandsHaveOrigin, D!NotFound
    <2> QED
      BY <1>1, <1>4, <1>5, <2>1 DEF Quiet, NumbersCounted
  <1>6. ASSUME NEW c \in Consumer, Enters(c)
        PROVE  NumbersInv'
    <2>1. EntriesHaveOrigin'
      BY <1>3, <1>6 DEF Enters, EntriesHaveOrigin, D!NotFound
    <2>2. /\ cmd'[c].kind # "create" => CreatesTaken' = CreatesTaken
          /\ cmd'[c].kind = "create" =>
               \E i \in OfKind("create") :
                 /\ file[i] = cmd'[c]
                 /\ i \notin CreatesTaken /\ CreatesTaken' = CreatesTaken \cup {i}
                 /\ QP!UpTo(OfKind("create"), i) = Cardinality(CreatesTaken')
      BY <1>1, <1>2, <1>6, TakeNext DEF Enters
    <2>3. CASE cmd'[c].kind # "create"
      <3>1. nextINumber' = nextINumber /\ opc'[c] \notin Carrying
        BY <1>6, <2>3 DEF Enters, Carrying
      <3>2. NumbersCounted'
        BY <2>2, <2>3, <3>1 DEF NumbersCounted
      <3>3. HandsHaveOrigin'
        BY <1>3, <1>6, <3>1 DEF HandsHaveOrigin, Enters, OthersStay, Stays, D!NotFound
      <3> QED
        BY <1>1, <2>1, <3>2, <3>3
    <2>4. CASE cmd'[c].kind = "create"
      <3>1. /\ nextINumber' = nextINumber + 1 /\ iNumber'[c] = nextINumber + 1
            /\ cmd'[c] \in D!Command
        BY <1>6, <2>4 DEF Enters
      <3>2. PICK i \in OfKind("create") :
              /\ file[i] = cmd'[c]
              /\ i \notin CreatesTaken /\ CreatesTaken' = CreatesTaken \cup {i}
              /\ QP!UpTo(OfKind("create"), i) = Cardinality(CreatesTaken')
        BY <2>2, <2>4
      <3>3. Cardinality(CreatesTaken') = Cardinality(CreatesTaken) + 1
        <4>1. IsFiniteSet(CreatesTaken)
          BY <1>2, CreatesFinite
        <4> QED
          BY <3>2, <4>1, FS_AddElement
      <3>4. NumbersCounted'
        BY <3>1, <3>3 DEF NumbersCounted
      <3>5. Origin(iNumber'[c], cmd'[c].name)
        <4>1. cmd'[c].name \in Name
          BY <3>1 DEF D!Command
        <4>2. cmd'[c].name \in Reach(file[i].name)
          BY <3>2, <4>1, ReachItself
        <4> QED
          BY <3>1, <3>2, <3>3, <4>2 DEF Origin, NumbersCounted
      <3>6. HandsHaveOrigin'
        BY <1>3, <1>6, <3>5 DEF HandsHaveOrigin, Enters, OthersStay, Stays, D!NotFound
      <3> QED
        BY <1>1, <2>1, <3>4, <3>6
    <2> QED
      BY <2>3, <2>4
  <1>7. ASSUME NEW c \in Consumer, Operates(c)
        PROVE  NumbersInv'
    <2>1. NumbersCounted'
      BY <1>4, <1>7 DEF Operates, NumbersCounted
    <2>2. /\ cmd[c].name \in Name
          /\ cmd[c].kind = "rename" => cmd[c].name2 \in Name
          /\ opc[c] = "rename_create" => cmd[c].kind = "rename"
      <3>1. opc[c] # "idle"
        BY <1>7 DEF Operates, Returns, Stores, Searches, GoesOn, At
      <3>2. PICK i \in DOMAIN file : file[i] \in D!Command /\ file[i] = cmd[c]
        BY <3>1 DEF LinesInv, HandsAreLines
      <3> QED
        BY <1>2, <3>2, Hand DEF D!Command
    <2>3. opc[c] = "rename_create" => Origin(iNumber[c], cmd[c].name2)
      <3> SUFFICES ASSUME opc[c] = "rename_create" PROVE Origin(iNumber[c], cmd[c].name2)
        OBVIOUS
      <3>1. PICK i \in DOMAIN file : file[i] \in D!Command /\ file[i] = cmd[c]
        BY DEF LinesInv, HandsAreLines
      <3>2. Origin(iNumber[c], cmd[c].name)
        BY DEF LinesInv, HasNumber, Storing, HandsHaveOrigin, Carrying
      <3>3. i \in OfKind("rename")
        BY <2>2, <3>1 DEF OfKind
      <3>4. PICK j \in OfKind("create") :
              /\ QP!UpTo(OfKind("create"), j) = iNumber[c]
              /\ cmd[c].name \in Reach(file[j].name)
        BY <3>2 DEF Origin
      <3>5. file[j].name \in Name
        BY DEF OfKind, D!Command
      <3>6. cmd[c].name2 \in Reach(file[j].name)
        BY <2>2, <3>1, <3>3, <3>4, <3>5, ReachFurther
      <3> QED
        BY <3>4, <3>6 DEF Origin
    <2>4. EntriesHaveOrigin'
      <3> SUFFICES ASSUME NEW n \in Name, dir'[n] # D!NotFound PROVE Origin(dir'[n], n)
        BY <1>3 DEF EntriesHaveOrigin, D!NotFound
      <3>1. CASE dir' = dir
        BY <3>1 DEF EntriesHaveOrigin
      <3>2. CASE Stores(c)
        <4>1. opc[c] = "create_insert" => Origin(iNumber[c], cmd[c].name)
          BY DEF LinesInv, HasNumber, Storing, HandsHaveOrigin, Carrying
        <4> QED
          BY <1>2, <2>2, <2>3, <3>2, <4>1 DEF Stores, At, EntriesHaveOrigin, D!NotFound
      <3> QED
        BY <1>7, <3>1, <3>2 DEF Operates, Returns, Searches, GoesOn
    <2>5. HandsHaveOrigin'
      <3>1. ASSUME opc'[c] \in Carrying, iNumber'[c] # D!NotFound
            PROVE  Origin(iNumber'[c], cmd'[c].name)
        <4>1. CASE Searches(c) /\ opc[c] = "old_search"
          BY <2>2, <3>1, <4>1 DEF Searches, At, EntriesHaveOrigin
        <4>2. CASE ~(Searches(c) /\ opc[c] = "old_search")
          <5>1. \/ opc[c] \in Carrying /\ Stays(c)
                \/ opc[c] = "create_lock"
                \/ Searches(c) /\ opc[c] = "new_search"
            BY <1>7, <3>1, <4>2
               DEF Operates, Returns, Stores, Searches, GoesOn, At, Carrying, Stays
          <5>2. opc[c] \in Carrying /\ cmd'[c] = cmd[c] /\ iNumber'[c] = iNumber[c]
            BY <1>7, <5>1
               DEF Operates, Returns, Stores, Searches, GoesOn, At, Carrying, Stays
          <5> QED
            BY <3>1, <5>2 DEF HandsHaveOrigin
        <4> QED
          BY <4>1, <4>2
      <3> QED
        BY <1>3, <1>7, <3>1
           DEF HandsHaveOrigin, Operates, OthersStay, Stays, D!NotFound
    <2> QED
      BY <1>1, <2>1, <2>4, <2>5
  <1> QED
    BY <1>5, <1>6, <1>7, StepCases DEF LinesInv

\* Whatever the workers and the file: an i-number in the directory is the place
\* of a create line among the create lines, and the name it is under is the one
\* of that line or one the renames of the file lead to from it.
THEOREM NumbersFollowFile == Spec => []INumbersFollowFile
  <1>1. NumbersInv => INumbersFollowFile
    BY SameSets
       DEF NumbersInv, EntriesHaveOrigin, INumbersFollowFile, Origin, QP!UpTo, Q!UpTo
  <1>2. Spec => []NumbersInv
    BY InitNumbers, NextNumbers, PTL DEF Spec
  <1> QED
    BY <1>1, <1>2, PTL
-----------------------------------------------------------------------------
(* One worker executes the lines one after the other. *)

\* The directory and the last number that a sequence of lines leaves behind.
Outcome == [dir : [Name -> Nat], next : Nat]

\* What line k makes of them.
AfterLine(k, s) ==
  CASE k \in OfKind("create") ->
         [dir |-> [s.dir EXCEPT ![file[k].name] = s.next + 1], next |-> s.next + 1]
    [] k \in OfKind("delete") -> [s EXCEPT !.dir[file[k].name] = D!NotFound]
    [] k \in OfKind("rename") ->
         IF s.dir[file[k].name] # D!NotFound /\ s.dir[file[k].name2] = D!NotFound
         THEN [s EXCEPT !.dir[file[k].name2] = s.dir[file[k].name],
                        !.dir[file[k].name] = D!NotFound]
         ELSE s
    [] OTHER -> s

NothingYet == [dir |-> [n \in Name |-> D!NotFound], next |-> 0]

\* A line has one kind, and names.
LEMMA Kinds ==
  /\ \A k : ~(k \in OfKind("create") /\ k \in OfKind("delete"))
  /\ \A k : ~(k \in OfKind("create") /\ k \in OfKind("rename"))
  /\ \A k : ~(k \in OfKind("rename") /\ k \in OfKind("delete"))
  BY DEF OfKind

LEMMA LineNames ==
  /\ \A k \in OfKind("create") \cup OfKind("delete") \cup OfKind("rename") :
       file[k].name \in Name
  /\ \A k \in OfKind("rename") : file[k].name2 \in Name
  BY DEF OfKind, D!Command

LEMMA AfterLineType ==
  ASSUME NEW k, NEW s \in Outcome
  PROVE  AfterLine(k, s) \in Outcome
  <1>1. s.dir \in [Name -> Nat] /\ s.next \in Nat /\ s = [dir |-> s.dir, next |-> s.next]
    BY DEF Outcome
  <1>2. CASE k \in OfKind("create")
    BY <1>1, <1>2, Kinds, LineNames DEF AfterLine, Outcome
  <1>3. CASE k \in OfKind("delete")
    BY <1>1, <1>3, Kinds, LineNames DEF AfterLine, Outcome, D!NotFound
  <1>4. CASE k \in OfKind("rename")
    BY <1>1, <1>4, Kinds, LineNames DEF AfterLine, Outcome, D!NotFound
  <1>5. CASE k \notin OfKind("create") \cup OfKind("delete") \cup OfKind("rename")
    BY <1>5 DEF AfterLine, Outcome
  <1> QED
    BY <1>2, <1>3, <1>4, <1>5

\* After is the function that its recursive definition describes.
LEMMA AfterUnfolds ==
  After = [k \in Nat |-> IF k = 0 THEN NothingYet ELSE AfterLine(k, After[k - 1])]
  <1> DEFINE step == [k \in Nat |-> [s \in Outcome |-> AfterLine(k, s)]]
             P(g) == g = [k \in Nat |-> IF k = 0 THEN NothingYet ELSE AfterLine(k, g[k - 1])]
  <1>1. NothingYet \in Outcome
    BY DEF NothingYet, Outcome, D!NotFound
  <1>2. step \in [Nat -> [Outcome -> Outcome]]
    BY AfterLineType
  <1> HIDE DEF step, P
  <1>3. PICK f \in [Nat -> Outcome] :
          f[0] = NothingYet /\ \A n \in Nat : f[n + 1] = step[n + 1][f[n]]
    <2>1. ASSUME NEW st, st \in [Nat -> [Outcome -> Outcome]]
          PROVE  \E f \in [Nat -> Outcome] :
                   f[0] = NothingYet /\ \A n \in Nat : f[n + 1] = st[n + 1][f[n]]
      BY <1>1, <2>1, FunctionByRecursion
    <2> QED
      BY <1>2, <2>1, Zenon
  <1>4. ASSUME NEW k \in Nat
        PROVE  f[k] = IF k = 0 THEN NothingYet ELSE AfterLine(k, f[k - 1])
    <2>1. CASE k = 0
      BY <1>3, <2>1
    <2>2. CASE k # 0
      <3>1. k - 1 \in Nat /\ k - 1 + 1 = k
        BY <2>2
      <3>2. f[k] = step[k][f[k - 1]] /\ f[k - 1] \in Outcome
        BY <1>3, <3>1
      <3>3. step[k][f[k - 1]] = AfterLine(k, f[k - 1])
        BY <3>2 DEF step
      <3> QED
        BY <2>2, <3>2, <3>3
    <2> QED
      BY <2>1, <2>2
  <1>5. P(f)
    BY <1>3, <1>4 DEF P
  <1>6. After = CHOOSE g : P(g)
    BY Zenon DEF P, After, NothingYet, AfterLine
  <1>7. P(After)
    BY <1>5, <1>6
  <1> QED
    BY <1>7 DEF P

LEMMA AfterType == After \in [Nat -> Outcome]
  <1> DEFINE P == {k \in Nat : After[k] \in Outcome}
  <1>1. \A k \in Nat : After[k] = IF k = 0 THEN NothingYet ELSE AfterLine(k, After[k - 1])
    BY AfterUnfolds
  <1>2. 0 \in P
    BY <1>1 DEF NothingYet, Outcome, D!NotFound
  <1>3. ASSUME NEW k \in P PROVE k + 1 \in P
    <2>1. k + 1 \in Nat /\ k + 1 # 0 /\ k + 1 - 1 = k
      OBVIOUS
    <2>2. After[k + 1] = AfterLine(k + 1, After[k])
      BY <1>1, <2>1
    <2> QED
      BY <2>1, <2>2, AfterLineType
  <1> HIDE DEF P
  <1>4. P = Nat
    <2>1. P \in SUBSET Nat
      BY DEF P
    <2> QED
      BY <1>2, <1>3, <2>1, InductionOverNat
  <1>5. \A k \in Nat : After[k] \in Outcome
    BY <1>4 DEF P
  <1>6. \E f : After = [k \in Nat |-> f[k]]
    BY AfterUnfolds
  <1> QED
    BY <1>5, <1>6

\* What each kind of line does, in the terms of the operations.
LEMMA AfterKinds ==
  ASSUME NEW k \in Nat \ {0}
  PROVE  /\ After[k - 1].dir \in [Name -> Nat] /\ After[k - 1].next \in Nat
         /\ k \in OfKind("create") =>
              /\ After[k].dir =
                   [After[k - 1].dir EXCEPT ![file[k].name] = After[k - 1].next + 1]
              /\ After[k].next = After[k - 1].next + 1
         /\ k \in OfKind("delete") =>
              /\ After[k].dir = [After[k - 1].dir EXCEPT ![file[k].name] = D!NotFound]
              /\ After[k].next = After[k - 1].next
         /\ /\ k \in OfKind("rename")
            /\ After[k - 1].dir[file[k].name] # D!NotFound
            /\ After[k - 1].dir[file[k].name2] = D!NotFound
            => /\ After[k].dir =
                    [[After[k - 1].dir EXCEPT ![file[k].name] = D!NotFound]
                       EXCEPT ![file[k].name2] = After[k - 1].dir[file[k].name]]
               /\ After[k].next = After[k - 1].next
         /\ k \in OfKind("rename") =>
              \/ After[k] = After[k - 1]
              \/ /\ After[k - 1].dir[file[k].name] # D!NotFound
                 /\ After[k - 1].dir[file[k].name2] = D!NotFound
         /\ k \notin OfKind("create") \cup OfKind("delete") \cup OfKind("rename") =>
              After[k] = After[k - 1]
  <1> DEFINE s == After[k - 1]
  <1>1. k - 1 \in Nat /\ k \in Nat
    OBVIOUS
  <1>2. s \in Outcome
    BY <1>1, AfterType
  <1>3. After[k] = AfterLine(k, s)
    BY <1>1, AfterUnfolds
  <1> HIDE DEF s
  <1>4. s.dir \in [Name -> Nat] /\ s.next \in Nat
    BY <1>2 DEF Outcome
  <1>5. k \in OfKind("create") =>
          /\ After[k].dir = [s.dir EXCEPT ![file[k].name] = s.next + 1]
          /\ After[k].next = s.next + 1
    BY <1>3, Kinds DEF AfterLine
  <1>6. k \in OfKind("delete") =>
          /\ After[k].dir = [s.dir EXCEPT ![file[k].name] = D!NotFound]
          /\ After[k].next = s.next
    BY <1>2, <1>3, Kinds DEF AfterLine, Outcome
  <1>7. k \in OfKind("rename") =>
          IF s.dir[file[k].name] # D!NotFound /\ s.dir[file[k].name2] = D!NotFound
          THEN /\ After[k].dir = [s.dir EXCEPT ![file[k].name2] = s.dir[file[k].name],
                                               ![file[k].name] = D!NotFound]
               /\ After[k].next = s.next
          ELSE After[k] = s
    BY <1>2, <1>3, Kinds DEF AfterLine, Outcome
  <1>8. /\ k \in OfKind("rename")
        /\ s.dir[file[k].name] # D!NotFound /\ s.dir[file[k].name2] = D!NotFound
        => After[k].dir = [[s.dir EXCEPT ![file[k].name] = D!NotFound]
                             EXCEPT ![file[k].name2] = s.dir[file[k].name]]
    BY <1>4, <1>7, LineNames
  <1>9. k \notin OfKind("create") \cup OfKind("delete") \cup OfKind("rename") => After[k] = s
    BY <1>3 DEF AfterLine
  <1> QED
    BY <1>4, <1>5, <1>6, <1>7, <1>8, <1>9 DEF s

LEMMA AfterStays == file' = file => After' = After
  BY DEF After, OfKind

\* Lines that are no commands leave everything as it is.
LEMMA NothingBetween ==
  ASSUME QP!OrderInv, NEW i \in Nat, NEW m \in Nat, i <= m,
         QP!UpTo(QP!CommandLines, i) = QP!UpTo(QP!CommandLines, m)
  PROVE  After[i] = After[m]
  <1> DEFINE Place(k) == QP!UpTo(QP!CommandLines, k)
             P == {k \in Nat : i <= k /\ Place(k) = Place(i) => After[k] = After[i]}
  <1>1. /\ QP!CommandLines \in SUBSET Int /\ QP!TypeOK
        /\ QP!IsFiniteSet(QP!CommandLines)
    BY QueueAssumptions, SameSets, CreatesFinite, QP!CommandLinesFinite
       DEF QP!QueueAssumption
  <1> HIDE DEF Place
  <1>2. 0 \in P
    BY DEF P
  <1>3. ASSUME NEW k \in P PROVE k + 1 \in P
    <2> SUFFICES ASSUME i <= k + 1, Place(k + 1) = Place(i), i # k + 1
                 PROVE  After[k + 1] = After[i]
      OBVIOUS
    <2>1. i <= k /\ i < k + 1 /\ k + 1 \in Nat \ {0} /\ k + 1 - 1 = k /\ k \in Nat
      OBVIOUS
    <2>2. k + 1 \notin QP!CommandLines
      <3> SUFFICES ASSUME k + 1 \in QP!CommandLines PROVE FALSE
        OBVIOUS
      <3>1. i \in Int /\ k \in Int
        BY <2>1
      <3>2. Place(i) < Place(k + 1)
        BY <1>1, <2>1, <3>1, QueueAssumptions, QP!UpToGrows DEF Place, QP!QueueAssumption
      <3>3. Place(i) \in Nat
        BY <1>1, QueueAssumptions, QP!UpToType DEF Place, QP!QueueAssumption
      <3> QED
        BY <3>2, <3>3
    <2>3. Place(k + 1) = Place(k)
      <3>1. k \in Int
        BY <2>1
      <3>2. Place(k + 1) = Place(k) + 0
        BY <1>1, <2>2, <3>1, QueueAssumptions, QP!UpToNext DEF Place, QP!QueueAssumption
      <3>3. Place(k) \in Nat
        BY <1>1, QueueAssumptions, QP!UpToType DEF Place, QP!QueueAssumption
      <3> QED
        BY <3>2, <3>3
    <2>4. After[k] = After[i]
      BY <2>1, <2>3
    <2>5. k + 1 \notin OfKind("create") \cup OfKind("delete") \cup OfKind("rename")
      BY <2>2 DEF OfKind, QP!CommandLines
    <2>6. After[k + 1] = After[k]
      <3>1. After[k + 1] = AfterLine(k + 1, After[k])
        BY <2>1, AfterUnfolds
      <3> QED
        BY <2>5, <3>1 DEF AfterLine
    <2> QED
      BY <2>4, <2>6
  <1>4. P = Nat
    <2>1. P \in SUBSET Nat
      OBVIOUS
    <2> HIDE DEF P
    <2> QED
      BY <1>2, <1>3, <2>1, InductionOverNat
  <1>5. m \in P
    BY <1>4
  <1> QED
    BY <1>5 DEF Place

\* How far the worker is with line i, from where it is in the operation.
InLine(c, i) ==
  LET s == After[i - 1]
      n == file[i].name
  IN
  /\ opc[c] \in {"create_lock", "create_insert"} => iNumber[c] = s.next + 1
  /\ opc[c] \in {"create_lock", "create_insert", "delete_lock", "delete_remove",
                 "lookup_lock", "lookup_search", "lookup_unlock",
                 "old_lock", "old_search", "old_unlock", "new_lock", "new_search",
                 "new_unlock", "same_wrlock", "old_wrlock", "new_trylock", "back_off",
                 "rename_delete"}
       => dir = s.dir
  /\ opc[c] = "rename_create" => dir = [s.dir EXCEPT ![n] = D!NotFound]
  /\ opc[c] \in {"old_unlock", "new_lock", "new_search", "new_unlock", "same_wrlock",
                 "old_wrlock", "new_trylock", "back_off", "rename_delete", "rename_create"}
       => iNumber[c] = s.dir[n]
  /\ opc[c] = "new_unlock" => iNumberNew[c] = s.dir[file[i].name2]
  /\ opc[c] \in {"same_wrlock", "old_wrlock", "new_trylock", "back_off",
                 "rename_delete", "rename_create"}
       => s.dir[n] # D!NotFound /\ s.dir[file[i].name2] = D!NotFound
  /\ opc[c] \in {"create_unlock", "delete_unlock", "unlock_new", "unlock_old"}
       => dir = After[i].dir

\* i is a line up to which every command has been taken and no other.
Reached(i) ==
  i \in 0..Len(file) /\ QP!UpTo(QP!CommandLines, i) = Len(applied)

InOrder(c, i) ==
  /\ Reached(i)
  /\ nextINumber = After[i].next
  /\ IF opc[c] = "idle"
     THEN dir = After[i].dir
     ELSE i \in QP!CommandLines /\ cmd[c] = file[i] /\ InLine(c, i)

OneWorker == \A c, d \in Consumer : c = d

Sequential == OneWorker => \A c \in Consumer : \E i \in Nat : InOrder(c, i)

SequentialInv == LinesInv /\ Sequential

LEMMA InitSequential == Init => SequentialInv
  <1> SUFFICES ASSUME Init PROVE SequentialInv
    OBVIOUS
  <1>1. LinesInv
    BY InitLines
  <1>2. /\ applied = <<>> /\ nextINumber = 0
        /\ \A c \in Consumer : opc[c] = "idle"
        /\ dir = [n \in Name |-> D!NotFound]
    BY DEF Init, Q!Init, D!Init, D!new_tecnicofs
  <1>3. After[0] = NothingYet
    BY AfterUnfolds
  <1>4. Reached(0)
    <2>1. QP!TypeOK
      BY <1>1, CreatesFinite DEF LinesInv, Inv
    <2>2. QP!UpTo(QP!CommandLines, 0) = 0 /\ Len(file) \in Nat
      BY <2>1, QueueAssumptions, QP!CommandLinesFinite DEF QP!QueueAssumption
    <2> QED
      BY <1>2, <2>2 DEF Reached
  <1> QED
    BY <1>1, <1>2, <1>3, <1>4 DEF SequentialInv, Sequential, InOrder, NothingYet

\* The worker enters the next line.
LEMMA EnterInOrder ==
  ASSUME LinesInv, LinesInv', file' = file, NEW c \in Consumer, Enters(c),
         NEW m \in Nat, InOrder(c, m)
  PROVE  \E i \in Nat : InOrder(c, i)'
  <1>1. QP!OrderInv /\ QP!OrderInv' /\ QP!TypeOK /\ DP!IInv
    BY CreatesFinite DEF LinesInv, Inv
  <1>2. /\ opc[c] = "idle" /\ cmd'[c] \in D!Command /\ applied' = Append(applied, cmd'[c])
        /\ dir' = dir
        /\ Reached(m) /\ nextINumber = After[m].next /\ dir = After[m].dir
    BY DEF Enters, InOrder
  <1>3. /\ Len(applied) \in Nat /\ Len(applied') = Len(applied) + 1
        /\ DOMAIN applied' = 1..Len(applied) + 1
        /\ applied'[Len(applied) + 1] = cmd'[c]
    <2>1. applied \in Seq(D!Command)
      BY <1>1, QueueTypes
    <2> QED
      BY <1>2, <2>1
  <1>4. After' = After /\ \A k : QP!UpTo(QP!CommandLines, k)' = QP!UpTo(QP!CommandLines, k)
    BY AfterStays DEF QP!UpTo, QP!CommandLines
  <1>5. PICK i \in QP!CommandLines :
          QP!UpTo(QP!CommandLines, i) = Len(applied) + 1 /\ file[i] = cmd'[c]
    <2>1. \A k \in DOMAIN applied' :
            \E i \in {j \in DOMAIN file' : file'[j] \in D!Command} :
              /\ QP!UpTo({j \in DOMAIN file' : file'[j] \in D!Command}, i) = k
              /\ file'[i] = applied'[k]
      BY <1>1 DEF QP!OrderInv, QP!AppliedInOrder, QP!IsCommand, QP!CommandLines, QP!UpTo
    <2>2. {j \in DOMAIN file' : file'[j] \in D!Command} = QP!CommandLines
      BY DEF QP!CommandLines
    <2>3. \E i \in QP!CommandLines :
            /\ QP!UpTo(QP!CommandLines, i) = Len(applied) + 1
            /\ file'[i] = applied'[Len(applied) + 1]
      <3>1. Len(applied) + 1 \in DOMAIN applied'
        BY <1>3
      <3> QED
        BY <2>1, <2>2, <3>1
    <2> QED
      BY <1>3, <2>3
  <1>6. /\ i \in 1..Len(file) /\ i \in Nat /\ i - 1 \in Nat /\ i \in Nat \ {0}
        /\ m \in Int /\ i - 1 \in Int /\ i - 1 + 1 = i
    <2>1. QP!CommandLines \subseteq 1..Len(file) /\ Len(file) \in Nat
      BY <1>1, QueueAssumptions, QP!CommandLinesFinite DEF QP!QueueAssumption
    <2> QED
      BY <2>1
  <1>7. QP!CommandLines \in SUBSET Int /\ QP!IsFiniteSet(QP!CommandLines)
    BY <1>1, QueueAssumptions, QP!CommandLinesFinite DEF QP!QueueAssumption
  <1>8. QP!UpTo(QP!CommandLines, i - 1) = Len(applied)
    <2>1. QP!UpTo(QP!CommandLines, i - 1 + 1) = QP!UpTo(QP!CommandLines, i - 1) + 1
      BY <1>5, <1>6, <1>7, QueueAssumptions, QP!UpToNext DEF QP!QueueAssumption
    <2>2. QP!UpTo(QP!CommandLines, i - 1) \in Nat
      BY <1>7, QueueAssumptions, QP!UpToType DEF QP!QueueAssumption
    <2> QED
      BY <1>3, <1>5, <1>6, <2>1, <2>2
  <1>9. After[m] = After[i - 1]
    <2>1. QP!UpTo(QP!CommandLines, m) = QP!UpTo(QP!CommandLines, i - 1)
      BY <1>2, <1>8 DEF Reached
    <2>2. m <= i - 1 \/ i - 1 <= m
      BY <1>6
    <2> QED
      BY <1>1, <1>6, <2>1, <2>2, NothingBetween
  <1>10. Reached(i)'
    BY <1>3, <1>4, <1>5, <1>6 DEF Reached
  <1>11. nextINumber' = After'[i].next
    <2>1. /\ i \in OfKind("create") <=> cmd'[c].kind = "create"
          /\ i \in OfKind("delete") <=> cmd'[c].kind = "delete"
          /\ i \in OfKind("rename") <=> cmd'[c].kind = "rename"
      BY <1>2, <1>5 DEF OfKind, QP!CommandLines
    <2>2. CASE cmd'[c].kind = "create"
      BY <1>2, <1>4, <1>6, <1>9, <2>1, <2>2, AfterKinds DEF Enters
    <2>3. CASE cmd'[c].kind # "create"
      <3>1. nextINumber' = nextINumber
        BY <2>3 DEF Enters
      <3>2. After[i].next = After[i - 1].next
        BY <1>6, <2>1, <2>3, AfterKinds
      <3> QED
        BY <1>2, <1>4, <1>9, <3>1, <3>2
    <2> QED
      BY <2>2, <2>3
  <1>12. opc'[c] # "idle" /\ i \in QP!CommandLines' /\ cmd'[c] = file'[i]
    BY <1>5 DEF Enters, QP!CommandLines
  <1>13. InLine(c, i)'
    BY <1>2, <1>4, <1>9 DEF Enters, InLine
  <1> QED
    BY <1>6, <1>10, <1>11, <1>12, <1>13 DEF InOrder

\* The worker goes on with its line.
LEMMA OperateInOrder ==
  ASSUME LinesInv, file' = file, NEW c \in Consumer, Operates(c),
         NEW i \in Nat, InOrder(c, i)
  PROVE  InOrder(c, i)'
  <1>1. /\ QP!TypeOK /\ DP!IInv /\ applied' = applied /\ nextINumber' = nextINumber
        /\ dir \in [Name -> 0..MaxINumber]
    BY CreatesFinite DEF LinesInv, Inv, DP!IInv, DP!TypeOK, Operates
  <1>2. After' = After /\ \A k : QP!UpTo(QP!CommandLines, k)' = QP!UpTo(QP!CommandLines, k)
    BY AfterStays DEF QP!UpTo, QP!CommandLines
  <1>3. opc[c] # "idle"
    BY DEF Operates, Returns, Stores, Searches, GoesOn, At
  <1>4. /\ Reached(i) /\ nextINumber = After[i].next
        /\ i \in QP!CommandLines /\ cmd[c] = file[i] /\ InLine(c, i)
    BY <1>3 DEF InOrder
  <1>5. Reached(i)' /\ nextINumber' = After'[i].next /\ i \in QP!CommandLines'
    BY <1>1, <1>2, <1>4 DEF Reached, QP!CommandLines
  <1>6. i \in Nat \ {0}
    <2>1. QP!CommandLines \subseteq 1..Len(file) /\ Len(file) \in Nat
      BY <1>1, QueueAssumptions, QP!CommandLinesFinite DEF QP!QueueAssumption
    <2> QED
      BY <1>4, <2>1
  <1>7. /\ i \in OfKind("create") <=> cmd[c].kind = "create"
        /\ i \in OfKind("delete") <=> cmd[c].kind = "delete"
        /\ i \in OfKind("rename") <=> cmd[c].kind = "rename"
    BY <1>4 DEF OfKind, QP!CommandLines
  <1> DEFINE s == After[i - 1]
             n == file[i].name
             m == file[i].name2
  <1>8. /\ opc[c] \in {"create_insert", "create_lock", "create_unlock"} =>
             i \in OfKind("create")
        /\ opc[c] \in {"delete_lock", "delete_remove", "delete_unlock"} =>
             i \in OfKind("delete")
        /\ opc[c] \in {"old_lock", "old_search", "old_unlock", "new_lock", "new_search",
                       "new_unlock", "same_wrlock", "old_wrlock", "new_trylock", "back_off",
                       "rename_delete", "rename_create"} =>
             i \in OfKind("rename")
        /\ opc[c] \in {"lookup_lock", "lookup_search", "lookup_unlock"} =>
             i \notin OfKind("create") \cup OfKind("delete") \cup OfKind("rename")
    <2>1. opc[c] \in {"lookup_lock", "lookup_search", "lookup_unlock"} =>
            cmd[c].kind = "lookup"
      BY <1>1 DEF DP!IInv, DP!CommandsAgree, DP!CommandAt, DP!LookupLabel
    <2> QED
      BY <1>1, <1>7, <2>1, Hand
  <1>9. CASE Returns(c)
    <2>1. dir = After[i].dir
      <3>1. CASE opc[c] \in {"create_unlock", "delete_unlock", "unlock_old"}
        BY <1>4, <3>1 DEF InLine
      <3>2. CASE opc[c] = "lookup_unlock"
        BY <1>4, <1>6, <1>8, <3>2, AfterKinds DEF InLine
      <3>3. CASE opc[c] = "new_unlock" /\ ~D!MayRename(c)
        BY <1>4, <1>6, <1>8, <3>3, AfterKinds DEF InLine, D!MayRename, D!NotFound
      <3> QED
        BY <1>9, <3>1, <3>2, <3>3 DEF Returns
    <2> QED
      BY <1>2, <1>5, <1>9, <2>1 DEF Returns, InOrder
  <1>10. CASE Stores(c)
    <2>1. CASE At(c, "create_insert", "create_unlock")
      <3>1. dir' = After[i].dir
        BY <1>4, <1>6, <1>8, <1>10, <2>1, AfterKinds DEF Stores, At, InLine
      <3> QED
        BY <1>2, <1>4, <1>5, <1>10, <2>1, <3>1 DEF Stores, At, Stays, InOrder, InLine
    <2>2. CASE At(c, "delete_remove", "delete_unlock")
      <3>1. dir' = After[i].dir
        BY <1>4, <1>6, <1>8, <1>10, <2>2, AfterKinds DEF Stores, At, InLine
      <3> QED
        BY <1>2, <1>4, <1>5, <1>10, <2>2, <3>1 DEF Stores, At, Stays, InOrder, InLine
    <2>3. CASE At(c, "rename_delete", "rename_create")
      BY <1>2, <1>4, <1>5, <1>10, <2>3 DEF Stores, At, Stays, InOrder, InLine
    <2>4. CASE At(c, "rename_create", "unlock_old") \/ At(c, "rename_create", "unlock_new")
      <3>1. dir' = After[i].dir
        BY <1>4, <1>6, <1>8, <1>10, <2>4, AfterKinds DEF Stores, At, InLine
      <3> QED
        BY <1>2, <1>4, <1>5, <1>10, <2>4, <3>1 DEF Stores, At, Stays, InOrder, InLine
    <2> QED
      BY <1>10, <2>1, <2>2, <2>3, <2>4 DEF Stores
  <1>11. CASE Searches(c)
    BY <1>2, <1>4, <1>5, <1>11 DEF Searches, At, InOrder, InLine
  <1>12. CASE GoesOn(c)
    BY <1>2, <1>4, <1>5, <1>12
       DEF GoesOn, At, Stays, InOrder, InLine, D!MayRename, D!NotFound
  <1> QED
    BY <1>9, <1>10, <1>11, <1>12 DEF Operates

LEMMA NextSequential == SequentialInv /\ [Next]_vars => SequentialInv'
  <1> SUFFICES ASSUME SequentialInv, [Next]_vars PROVE SequentialInv'
    OBVIOUS
  <1> USE DEF SequentialInv
  <1>1. LinesInv' /\ file' = file
    BY NextLines, StepCases DEF LinesInv
  <1> SUFFICES ASSUME OneWorker, NEW c \in Consumer PROVE \E i \in Nat : InOrder(c, i)'
    BY <1>1 DEF Sequential, OneWorker
  <1>2. PICK i \in Nat : InOrder(c, i)
    BY DEF Sequential
  <1>3. CASE Quiet
    <2>1. After' = After /\ \A k : QP!UpTo(QP!CommandLines, k)' = QP!UpTo(QP!CommandLines, k)
      BY <1>1, AfterStays DEF QP!UpTo, QP!CommandLines
    <2>2. Reached(i)' <=> Reached(i)
      BY <1>1, <1>3, <2>1 DEF Reached, Quiet
    <2>3. InLine(c, i)' <=> InLine(c, i)
      BY <1>1, <1>3, <2>1 DEF InLine, Quiet, D!NotFound
    <2>4. i \in QP!CommandLines' <=> i \in QP!CommandLines
      BY <1>1 DEF QP!CommandLines
    <2>5. InOrder(c, i)'
      BY <1>1, <1>2, <1>3, <2>1, <2>2, <2>3, <2>4 DEF InOrder, Quiet
    <2> QED
      BY <2>5
  <1>4. CASE \E d \in Consumer : Enters(d)
    BY <1>1, <1>2, <1>4, EnterInOrder DEF OneWorker
  <1>5. CASE \E d \in Consumer : Operates(d)
    BY <1>1, <1>2, <1>5, OperateInOrder DEF OneWorker
  <1> QED
    BY <1>3, <1>4, <1>5, StepCases DEF LinesInv

\* With one worker, whatever the file and the ring, the directory that main
\* prints is the one that its lines leave behind, executed one after the other.
THEOREM OneWorkerSequential == Spec => []OneWorkerIsSequential
  <1>1. SequentialInv => OneWorkerIsSequential
    <2> SUFFICES ASSUME SequentialInv, Cardinality(Consumer) = 1, process = "finished"
                 PROVE  dir = After[Len(file)].dir /\ nextINumber = After[Len(file)].next
      BY DEF OneWorkerIsSequential
    <2> USE DEF SequentialInv
    <2>1. QP!OrderInv /\ QP!TypeOK
      BY CreatesFinite DEF LinesInv, Inv
    <2>2. PICK c : Consumer = {c}
      <3>1. IsFiniteSet(Consumer)
        BY QueueAssumptions, SameSets DEF QP!QueueAssumption
      <3> QED
        BY <3>1, FS_Singleton
    <2>3. PICK i \in Nat : InOrder(c, i)
      BY <2>2 DEF Sequential, OneWorker
    <2>4. opc[c] = "idle"
      BY <2>2 DEF LinesInv, EndsTogether, Inv, Together, Working
    <2>5. /\ i \in 0..Len(file) /\ QP!UpTo(QP!CommandLines, i) = Len(applied)
          /\ nextINumber = After[i].next /\ dir = After[i].dir
      BY <2>3, <2>4 DEF InOrder, Reached
    <2>6. Len(file) \in Nat /\ QP!UpTo(QP!CommandLines, Len(file)) = QP!Total
      BY <2>1, QueueAssumptions, QP!CommandLinesFinite DEF QP!QueueAssumption
    <2>7. Len(applied) = QP!Total
      BY <2>1 DEF QP!OrderInv, QP!FinishedAll
    <2>8. After[i] = After[Len(file)]
      BY <2>1, <2>5, <2>6, <2>7, NothingBetween
    <2> QED
      BY <2>5, <2>8
  <1>2. Spec => []SequentialInv
    BY InitSequential, NextSequential, PTL DEF Spec
  <1> QED
    BY <1>1, <1>2, PTL
=============================================================================
