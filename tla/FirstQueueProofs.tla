-------------------------- MODULE FirstQueueProofs --------------------------
(***************************************************************************)
(* Proofs about FirstQueue, for any input files, any number of workers and *)
(* any room in inputCommands.                                              *)
(***************************************************************************)
EXTENDS FirstQueue, FiniteSetTheorems, SequenceTheorems, Recursion

(* Types. *)

\* What a worker has read of a counter, and writes back changed.
ReadInRange ==
  \A t \in workers :
    /\ pc[t] = "store number" => read[t] <= MAX_COMMANDS
    /\ pc[t] \in {"store head", "sscanf", "store inumber"} => read[t] \in Nat

\* While main reads the file nothing has been taken.
NotStarted ==
  process = "reading" =>
    /\ numberCommands = Len(inputCommands)
    /\ headQueue = 0
    /\ \A t \in workers : pc[t] = "while"

TInv == TypeOK /\ ReadInRange /\ NotStarted

LEMMA InitTInv == Init => TInv
  <1> SUFFICES ASSUME Init PROVE TInv
    OBVIOUS
  <1>1. file \in Seq(Line \cup {Other}) /\ Len(file) \in Nat
    BY LenProperties, FirstAssumption DEF Init
  <1>2. inputCommands \in Seq(Line) /\ Len(inputCommands) = 0
    BY EmptySeq DEF Init
  <1>3. workers \in SUBSET Worker
    BY FirstAssumption DEF Init, Worker
  <1>4. NoLine \in Line
    BY DEF NoLine, Line
  <1> QED
    BY <1>1, <1>2, <1>3, <1>4, FirstAssumption
    DEF Init, TInv, TypeOK, ReadInRange, NotStarted, Label, lock_init, new_tecnicofs, Worker, Nobody

\* The facts about TypeOK that every step of a worker starts from.
LEMMA GoesTypes ==
  ASSUME TypeOK, NEW t, NEW from, NEW to \in Label, Goes(t, from, to)
  PROVE  /\ pc' \in [workers' -> Label]
         /\ pc'[t] = to /\ t \in workers
         /\ \A u \in workers \ {t} : pc'[u] = pc[u]
         /\ file' \in File /\ line' \in 0..Len(file')
         /\ workers' \in SUBSET Worker /\ workers' = workers
         /\ inputCommands' \in Seq(Line) /\ Len(inputCommands') <= MAX_COMMANDS
         /\ inputCommands' = inputCommands
         /\ process = "running"
  BY DEF Goes, TypeOK, input

LEMMA InputTInv == ASSUME TInv, processInput PROVE TInv'
  <1> USE DEF TInv
  <1>1. Len(inputCommands) \in Nat /\ inputCommands \in Seq(Line) /\ MAX_COMMANDS \in Nat
    BY LenProperties, FirstAssumption DEF TypeOK
  <1>2. file \in Seq(Line \cup {Other}) /\ Len(file) \in Nat
    BY LenProperties, FirstAssumption DEF TypeOK
  <1>3. ReadInRange' /\ (\A t \in workers' : pc'[t] = "while") /\ headQueue' = 0
    BY DEF processInput, ReadInRange, NotStarted, locals
  <1>4. CASE ReadLine
    <2>1. line \in Nat /\ line + 1 \in 1..Len(file) /\ file[line + 1] \in Line \cup {Other}
      BY <1>2, <1>4, ElementOfSeq DEF ReadLine, TypeOK
    <2>2. CASE IsLine(file[line + 1])
      <3>1. /\ file[line + 1] \in Line
            /\ numberCommands # MAX_COMMANDS
            /\ inputCommands' = Append(inputCommands, file[line + 1])
            /\ numberCommands' = numberCommands + 1
        BY <1>4, <2>1, <2>2 DEF ReadLine, IsLine, insertCommand, Room
      <3>2. inputCommands' \in Seq(Line) /\ Len(inputCommands') = Len(inputCommands) + 1
        BY <1>1, <3>1, AppendProperties
      <3>3. numberCommands = Len(inputCommands) /\ Len(inputCommands) < MAX_COMMANDS
        BY <1>1, <3>1 DEF NotStarted, processInput, TypeOK
      <3>4. TypeOK'
        BY <1>1, <1>2, <1>4, <2>1, <3>1, <3>2, <3>3 DEF TypeOK, processInput, ReadLine, locals, fs
      <3> QED
        BY <1>3, <3>1, <3>2, <3>3, <3>4 DEF NotStarted
    <2>3. CASE ~IsLine(file[line + 1])
      <3>1. UNCHANGED <<inputCommands, numberCommands>>
        BY <1>4, <2>3 DEF ReadLine
      <3>2. TypeOK'
        BY <1>4, <2>1, <3>1 DEF TypeOK, processInput, ReadLine, locals, fs
      <3> QED
        BY <1>3, <3>1, <3>2 DEF NotStarted, processInput
    <2> QED
      BY <2>2, <2>3
  <1>5. CASE EndInput
    <2>1. TypeOK'
      BY <1>5 DEF TypeOK, processInput, EndInput, locals, fs
    <2> QED
      BY <1>3, <1>5, <2>1 DEF NotStarted, EndInput
  <1> QED
    BY <1>4, <1>5 DEF processInput

LEMMA SlotInRange == ASSUME NEW r \in Nat, NEW l \in Nat, r + 1 <= l PROVE r + 1 \in 1..l
  OBVIOUS

LEMMA WorkerTInv == ASSUME TInv, NEW t \in Worker, applyCommands(t) PROVE TInv'
  <1> USE DEF TInv
  <1>0. process' # "reading" => NotStarted'
    BY DEF NotStarted
  <1>1. ASSUME NEW from, NEW to \in Label, NEW value \in Int, Load(t, from, to, value),
               to = "store number" => value <= MAX_COMMANDS,
               to # "store number" => value \in Nat
        PROVE  TInv'
    <2>1. read' \in [workers -> Int] /\ read'[t] = value
          /\ \A u \in workers \ {t} : read'[u] = read[u]
      BY <1>1, GoesTypes DEF Load, TypeOK
    <2>2. TypeOK'
      BY <1>1, <2>1, GoesTypes DEF Load, TypeOK, counters, fs
    <2>3. Goes(t, from, to)
      BY <1>1 DEF Load
    <2>4. ReadInRange'
      <3> SUFFICES ASSUME NEW u \in workers
                   PROVE  /\ pc'[u] = "store number" => read'[u] <= MAX_COMMANDS
                          /\ pc'[u] \in {"store head", "sscanf", "store inumber"} => read'[u] \in Nat
        BY <2>3, GoesTypes DEF ReadInRange
      <3>1. CASE u = t
        BY <1>1, <2>1, <2>3, <3>1, GoesTypes
      <3>2. CASE u # t
        BY <2>1, <2>3, <3>2, GoesTypes DEF ReadInRange
      <3> QED
        BY <3>1, <3>2
    <2> QED
      BY <1>0, <1>1, <2>2, <2>3, <2>4, GoesTypes DEF Load
  <1>2. ASSUME NEW from, NEW to \in Label \ {"store number", "store head", "store inumber", "sscanf"},
               Goes(t, from, to), read' = read
        PROVE  ReadInRange'
    BY <1>2, GoesTypes DEF ReadInRange
  <1>3. ASSUME NEW from, NEW to \in Label, Goes(t, from, to), process' # "reading",
               UNCHANGED <<locks, counters, fs, read, iNumber, taken>>,
               current' \in [workers -> Line], process' \in {"running", "failed", "undefined"},
               to \notin {"store number", "store head", "store inumber", "sscanf"}
        PROVE  TInv'
    <2>1. TypeOK'
      BY <1>3, GoesTypes DEF TypeOK, counters, fs
    <2> QED
      BY <1>0, <1>2, <1>3, <2>1
  <1>4. CASE While(t)
    <2>1. PICK to \in {"if", "done"} : Goes(t, "while", to)
      BY <1>4 DEF While
    <2>2. to \in Label
      BY DEF Label
    <2> QED
      BY <1>3, <1>4, <2>1, <2>2, GoesTypes DEF While, TypeOK
  <1>5. CASE FindCommand(t)
    <2>1. PICK to \in {"load number", "while"} : Goes(t, "if", to)
      BY <1>5 DEF FindCommand
    <2>2. to \in Label
      BY DEF Label
    <2> QED
      BY <1>3, <1>5, <2>1, <2>2, GoesTypes DEF FindCommand, lock_function, TypeOK
  <1>6. CASE Load(t, "load number", "store number", numberCommands)
    BY <1>1, <1>6 DEF TypeOK, Label
  <1>7. CASE LowerNumber(t)
    <2>1. Goes(t, "store number", "load head") /\ "load head" \in Label
      BY <1>7 DEF LowerNumber, Store, Label
    <2>2. read[t] \in Int /\ read[t] <= MAX_COMMANDS /\ numberCommands' = read[t] - 1
      BY <1>7, <2>1 DEF LowerNumber, ReadInRange, TypeOK, Goes
    <2>3. TypeOK'
      <3>1. numberCommands' \in Int /\ numberCommands' <= MAX_COMMANDS
        BY <2>2, FirstAssumption
      <3> QED
        BY <1>7, <2>1, <3>1, GoesTypes DEF LowerNumber, Store, unlock_function, TypeOK, fs
    <2> QED
      BY <1>0, <1>2, <1>7, <2>1, <2>3, GoesTypes DEF LowerNumber, Store
  <1>8. CASE Load(t, "load head", "store head", headQueue)
    <2>1. "store head" \in Label /\ "store head" # "store number"
      BY DEF Label
    <2>2. headQueue \in Int /\ headQueue \in Nat
      <3>1. headQueue \in Nat
        BY DEF TypeOK
      <3> QED
        BY <3>1
    <2> QED
      BY <1>1, <1>8, <2>1, <2>2
  <1>9. CASE TakeSlot(t)
    <2>1. Goes(t, "store head", "sscanf") /\ "sscanf" \in Label
      BY <1>9 DEF TakeSlot, Store, Label
    <2>2. read[t] \in Nat /\ headQueue' = read[t] + 1 /\ read' = read /\ process' = process
      BY <1>9, <2>1 DEF TakeSlot, Store, ReadInRange, Goes
    <2>3. TypeOK'
      <3>1. headQueue' \in Nat
        BY <2>2
      <3>2. taken' \subseteq Nat
        BY <1>9, <2>2 DEF TakeSlot, TypeOK
      <3> QED
        BY <1>9, <2>1, <2>2, <3>1, <3>2, GoesTypes DEF TakeSlot, Store, TypeOK, fs
    <2>4. ReadInRange'
      BY <2>1, <2>2, GoesTypes DEF ReadInRange
    <2> QED
      BY <1>0, <2>1, <2>2, <2>3, <2>4, GoesTypes
  <1>10. CASE Parse(t)
    <2>1. PICK to \in {"done", "load inumber", "enter"} : Goes(t, "sscanf", to)
      BY <1>10 DEF Parse
    <2>2. to \in Label /\ process = "running"
      BY <2>1 DEF Label, Goes
    <2>3. current' \in [workers -> Line]
      <3>1. CASE IsCommand(read[t] + 1)
        <4>1. read[t] \in Nat
          BY <2>1 DEF Goes, ReadInRange
        <4>2. inputCommands \in Seq(Line) /\ Len(inputCommands) \in Nat
          BY LenProperties DEF TypeOK
        <4>3. read[t] + 1 <= Len(inputCommands)
          BY <3>1 DEF IsCommand
        <4>4. read[t] + 1 \in 1..Len(inputCommands)
          BY <4>1, <4>2, <4>3, SlotInRange
        <4>5. inputCommands[read[t] + 1] \in Line
          BY <4>2, <4>4, ElementOfSeq
        <4> QED
          BY <1>10, <3>1, <4>5 DEF Parse, TypeOK
      <3>2. CASE ~IsCommand(read[t] + 1)
        BY <1>10, <3>2 DEF Parse, TypeOK
      <3> QED
        BY <3>1, <3>2
    <2>4. process' \in {"running", "failed", "undefined"}
      BY <1>10, <2>2 DEF Parse
    <2> QED
      BY <1>3, <1>10, <2>1, <2>2, <2>3, <2>4 DEF Parse
  <1>11. CASE Load(t, "load inumber", "store inumber", nextINumber)
    <2>1. "store inumber" \in Label /\ "store inumber" # "store number"
      BY DEF Label
    <2>2. nextINumber \in Int /\ nextINumber \in Nat
      <3>1. nextINumber \in Nat
        BY DEF TypeOK
      <3> QED
        BY <3>1
    <2> QED
      BY <1>1, <1>11, <2>1, <2>2
  <1>12. CASE /\ Store(t, "store inumber", "enter")
              /\ nextINumber' = read[t] + 1
              /\ iNumber' = [iNumber EXCEPT ![t] = read[t] + 1]
              /\ UNCHANGED <<locks, counters, dir, taken>>
    <2>1. Goes(t, "store inumber", "enter") /\ "enter" \in Label
      BY <1>12 DEF Store, Label
    <2>2. read[t] \in Nat
      BY <2>1 DEF ReadInRange, Goes
    <2>3. TypeOK'
      <3> PICK n \in Nat : n = read[t] + 1
        BY <2>2
      <3>1. nextINumber' = n
        BY <1>12
      <3>2. iNumber' \in [workers -> Nat]
        BY <1>12 DEF TypeOK
      <3> QED
        BY <1>12, <2>1, <3>1, <3>2, GoesTypes DEF Store, TypeOK, counters
    <2> QED
      BY <1>0, <1>2, <1>12, <2>1, <2>3, GoesTypes DEF Store
  <1>13. CASE Enter(t)
    <2>1. Goes(t, "enter", "tree") /\ "tree" \in Label
      BY <1>13 DEF Enter, Label
    <2> QED
      BY <1>3, <1>13, <2>1, GoesTypes DEF Enter, lock_function, TypeOK
  <1>14. CASE Leave(t)
    <2>1. PICK to \in {"inumber", "while"} : Goes(t, "tree", to)
      BY <1>14 DEF Leave
    <2>2. to \in Label
      BY DEF Label
    <2>3. dir' \in [Name -> Nat]
      BY <1>14, <2>1 DEF Leave, AfterOperation, TypeOK, Goes
    <2>4. process' \in {"running", "undefined"}
      BY <1>14 DEF Leave
    <2>5. TypeOK'
      BY <1>14, <2>1, <2>2, <2>3, <2>4, GoesTypes DEF Leave, unlock_function, TypeOK, counters
    <2> QED
      BY <1>0, <1>2, <1>14, <2>1, <2>2, <2>4, <2>5 DEF Leave
  <1>15. CASE ReadINumber(t)
    <2>1. Goes(t, "inumber", "while") /\ "while" \in Label
      BY <1>15 DEF ReadINumber, Label
    <2> QED
      BY <1>3, <1>15, <2>1, GoesTypes DEF ReadINumber, TypeOK
  <1> QED
    BY <1>4, <1>5, <1>6, <1>7, <1>8, <1>9, <1>10, <1>11, <1>12, <1>13, <1>14, <1>15
    DEF applyCommands, removeCommand, obtainNewInumber

LEMMA NextTInv == TInv /\ [Next]_vars => TInv'
  <1> SUFFICES ASSUME TInv, [Next]_vars PROVE TInv'
    OBVIOUS
  <1>1. CASE UNCHANGED vars \/ Exited
    BY <1>1 DEF Exited, TInv, TypeOK, ReadInRange, NotStarted, vars, input, counters, fs, locals
  <1>2. CASE JoinAll
    BY <1>2 DEF JoinAll, TInv, TypeOK, ReadInRange, NotStarted, input, counters, fs, locals
  <1> QED
    BY <1>1, <1>2, InputTInv, WorkerTInv DEF Next

\* Whatever updates of the counters get lost, the state keeps its types: no
\* more commands are counted than there is room for, and headQueue is never
\* less than 0 (Project_1/main.c:50, 53).
THEOREM TypeCorrect == Spec => []TypeOK
  <1>1. TInv => TypeOK
    BY DEF TInv
  <1> QED
    BY <1>1, InitTInv, NextTInv, PTL DEF Spec

-----------------------------------------------------------------------------
(* How far headQueue gets. *)

\* The workers that have taken a slot past the last command: they are going to
\* fail on it.
Past == {t \in workers : pc[t] = "sscanf" /\ read[t] + 1 > Len(inputCommands)}

Reach == Len(inputCommands) + Cardinality(Past)

\* headQueue passes the last command by no more than the workers in Past, and so
\* does what is about to be written to it.
WithinReach ==
  process = "running" =>
    /\ headQueue <= Reach
    /\ \A t \in workers : pc[t] = "store head" => read[t] <= Reach

HInv == TInv /\ WithinReach /\ HeadBounded

LEMMA PastFinite ==
  ASSUME TypeOK
  PROVE  /\ IsFiniteSet(workers) /\ Cardinality(workers) \in Nat
         /\ IsFiniteSet(Past) /\ Cardinality(Past) \in Nat
         /\ Cardinality(Past) <= Cardinality(workers)
         /\ Len(inputCommands) \in Nat /\ Reach \in Nat
  <1>1. IsFiniteSet(Worker)
    BY FS_Interval, FirstAssumption DEF Worker
  <1>2. IsFiniteSet(workers)
    BY <1>1, FS_Subset DEF TypeOK
  <1>3. Past \subseteq workers
    BY DEF Past
  <1>4. Cardinality(workers) \in Nat
    BY <1>2, FS_CardinalityType
  <1>5. /\ IsFiniteSet(Past)
        /\ Cardinality(Past) \in Nat
        /\ Cardinality(Past) <= Cardinality(workers)
    BY <1>2, <1>3, FS_Subset, FS_CardinalityType
  <1>6. Len(inputCommands) \in Nat
    BY LenProperties DEF TypeOK
  <1> QED
    BY <1>2, <1>4, <1>5, <1>6 DEF Reach

LEMMA ReachBounds == TypeOK /\ headQueue <= Reach => HeadBounded
  BY PastFinite DEF HeadBounded, Reach, TypeOK

LEMMA InitHInv == Init => HInv
  <1> SUFFICES ASSUME Init PROVE HInv
    OBVIOUS
  <1>1. TInv
    BY InitTInv
  <1>2. headQueue = 0 /\ process = "reading"
    BY DEF Init
  <1>3. HeadBounded
    BY <1>1, <1>2, PastFinite DEF HeadBounded, TInv
  <1> QED
    BY <1>1, <1>2, <1>3 DEF HInv, WithinReach

LEMMA InputHInv == ASSUME HInv, processInput PROVE HInv'
  <1> USE DEF HInv
  <1>1. TInv'
    BY InputTInv
  <1>2. headQueue' = 0 /\ \A t \in workers' : pc'[t] = "while"
    BY DEF processInput, TInv, NotStarted, locals
  <1>3. Len(inputCommands') \in Nat
    BY <1>1, LenProperties DEF TInv, TypeOK
  <1>4. Cardinality(workers') \in Nat
    BY PastFinite DEF TInv, processInput
  <1>5. Past' = {}
    BY <1>2 DEF Past
  <1>6. Cardinality(Past') = 0
    BY <1>5, FS_EmptySet
  <1>7. 0 <= Reach' /\ HeadBounded'
    BY <1>2, <1>3, <1>4, <1>6 DEF Reach, HeadBounded
  <1>8. WithinReach'
    BY <1>2, <1>7 DEF WithinReach
  <1> QED
    BY <1>1, <1>7, <1>8

\* A step of t that leaves Past and headQueue alone.
LEMMA QuietStep ==
  ASSUME HInv, TInv', NEW t, NEW from, NEW to \in Label, Goes(t, from, to),
         from # "sscanf", to # "sscanf", headQueue' = headQueue,
         \A u \in workers \ {t} : read'[u] = read[u],
         to = "store head" => read'[t] = headQueue
  PROVE  WithinReach' /\ HeadBounded'
  <1>1. TypeOK
    BY DEF HInv, TInv
  <1>2. inputCommands' = inputCommands /\ workers' = workers /\ process = "running"
    BY <1>1, GoesTypes
  <1>3. pc'[t] = to /\ pc[t] = from /\ \A u \in workers \ {t} : pc'[u] = pc[u]
    BY <1>1, GoesTypes DEF Goes
  <1>4. Past' = Past
    BY <1>2, <1>3 DEF Past
  <1>5. Reach' = Reach
    BY <1>2, <1>4 DEF Reach
  <1>6. headQueue <= Reach /\ \A u \in workers : pc[u] = "store head" => read[u] <= Reach
    BY <1>2 DEF HInv, WithinReach
  <1>7. ASSUME NEW u \in workers, pc'[u] = "store head"
        PROVE  read'[u] <= Reach
    BY <1>3, <1>6, <1>7
  <1>8. WithinReach'
    BY <1>2, <1>5, <1>6, <1>7 DEF WithinReach
  <1> QED
    BY <1>2, <1>8 DEF HInv, HeadBounded

LEMMA StaysBelow ==
  ASSUME NEW r \in Nat, NEW m \in Nat, NEW n \in Nat
  PROVE  /\ m <= m /\ m <= m + 1 /\ m + 1 \in Nat
         /\ r <= m => r + 1 <= m + 1
         /\ ~(r + 1 > n) /\ n <= m => r + 1 <= m
         /\ r <= m /\ m <= n => r <= n
         /\ r + 1 <= n => ~(r + 1 > n)
  OBVIOUS

LEMMA TakeSlotHInv == ASSUME HInv, TInv', NEW t, TakeSlot(t) PROVE WithinReach' /\ HeadBounded'
  <1>1. TypeOK /\ TypeOK'
    BY DEF HInv, TInv
  <1>2. Goes(t, "store head", "sscanf") /\ read' = read /\ headQueue' = read[t] + 1
    BY DEF TakeSlot, Store
  <1>3. "sscanf" \in Label
    BY DEF Label
  <1>4. /\ pc'[t] = "sscanf" /\ t \in workers /\ pc[t] = "store head"
        /\ \A u \in workers \ {t} : pc'[u] = pc[u]
        /\ workers' = workers /\ inputCommands' = inputCommands /\ process = "running"
    BY <1>1, <1>2, <1>3, GoesTypes DEF Goes
  <1>5. /\ IsFiniteSet(Past) /\ Cardinality(Past) \in Nat /\ Len(inputCommands) \in Nat
        /\ Reach \in Nat
    BY <1>1, PastFinite
  <1>6. read[t] \in Nat /\ read[t] <= Reach
    BY <1>4 DEF HInv, TInv, ReadInRange, WithinReach
  <1>7. headQueue' <= Reach' /\ Reach <= Reach' /\ Reach' \in Nat
    <2>1. CASE read[t] + 1 > Len(inputCommands)
      <3>1. Past' = Past \cup {t} /\ t \notin Past
        BY <1>2, <1>4, <2>1 DEF Past
      <3>2. Cardinality(Past \cup {t}) = Cardinality(Past) + 1
        BY <1>5, <3>1, FS_AddElement
      <3>3. Reach' = Reach + 1
        <4>1. Reach' = Len(inputCommands) + Cardinality(Past \cup {t})
          BY <1>4, <3>1 DEF Reach
        <4> QED
          BY <1>5, <3>2, <4>1 DEF Reach
      <3> QED
        BY <1>2, <1>5, <1>6, <3>3, StaysBelow
    <2>2. CASE ~(read[t] + 1 > Len(inputCommands))
      <3>1. Past' = Past
        BY <1>2, <1>4, <2>2 DEF Past
      <3>2. Reach' = Reach
        BY <1>4, <3>1 DEF Reach
      <3>3. Len(inputCommands) <= Reach
        BY <1>5 DEF Reach
      <3> QED
        BY <1>2, <1>5, <1>6, <2>2, <3>2, <3>3, StaysBelow
    <2> QED
      BY <2>1, <2>2
  <1>8. ASSUME NEW u \in workers', pc'[u] = "store head"
        PROVE  read'[u] <= Reach'
    <2>1. u \in workers /\ u # t /\ pc[u] = "store head" /\ read'[u] = read[u]
      BY <1>2, <1>4, <1>8
    <2>2. read[u] \in Nat /\ read[u] <= Reach
      BY <1>4, <2>1 DEF HInv, TInv, ReadInRange, WithinReach
    <2> QED
      BY <1>5, <1>7, <2>1, <2>2, StaysBelow
  <1>9. WithinReach'
    BY <1>7, <1>8 DEF WithinReach
  <1>10. (TypeOK /\ headQueue <= Reach)'
    BY <1>1, <1>7
  <1>11. HeadBounded'
    BY <1>10, ReachBounds, PTL
  <1> QED
    BY <1>9, <1>11

LEMMA ParseHInv == ASSUME HInv, TInv', NEW t, Parse(t) PROVE WithinReach' /\ HeadBounded'
  <1>1. PICK to \in {"done", "load inumber", "enter"} : Goes(t, "sscanf", to)
    BY DEF Parse
  <1>2. TypeOK /\ to \in Label
    BY <1>1 DEF HInv, TInv, Label
  <1>3. /\ t \in workers /\ pc[t] = "sscanf" /\ pc'[t] = to
        /\ \A u \in workers \ {t} : pc'[u] = pc[u]
        /\ workers' = workers /\ inputCommands' = inputCommands /\ process = "running"
    BY <1>1, <1>2, GoesTypes DEF Goes
  <1>4. read' = read /\ headQueue' = headQueue
    BY DEF Parse, counters
  <1>5. HeadBounded'
    BY <1>3, <1>4 DEF HInv, HeadBounded
  <1>6. CASE IsCommand(read[t] + 1)
    <2>1. t \notin Past
      <3>1. read[t] \in Nat /\ Len(inputCommands) \in Nat /\ read[t] + 1 <= Len(inputCommands)
        BY <1>2, <1>3, <1>6, PastFinite DEF IsCommand, HInv, TInv, ReadInRange
      <3> QED
        BY <3>1, StaysBelow DEF Past
    <2>2. Past' = Past
      BY <1>1, <1>3, <1>4, <2>1 DEF Past
    <2>3. Reach' = Reach
      BY <1>3, <2>2 DEF Reach
    <2>4. \A u \in workers' : pc'[u] = "store head" => u # t /\ pc[u] = "store head"
      BY <1>1, <1>3
    <2> QED
      BY <1>3, <1>4, <1>5, <2>3, <2>4 DEF HInv, WithinReach
  <1>7. CASE ~IsCommand(read[t] + 1)
    <2>1. process' # "running"
      BY <1>7 DEF Parse
    <2> QED
      BY <1>5, <2>1 DEF WithinReach
  <1> QED
    BY <1>6, <1>7

LEMMA WorkerHInv == ASSUME HInv, NEW t \in Worker, applyCommands(t) PROVE HInv'
  <1>1. TInv'
    BY WorkerTInv DEF HInv
  <1>2. CASE TakeSlot(t)
    BY <1>1, <1>2, TakeSlotHInv DEF HInv
  <1>3. CASE Parse(t)
    BY <1>1, <1>3, ParseHInv DEF HInv
  <1>4. ASSUME NEW from \in Label \ {"sscanf"}, NEW to \in Label \ {"sscanf", "store head"},
               Goes(t, from, to), headQueue' = headQueue,
               read' = read \/ \E value : read' = [read EXCEPT ![t] = value]
        PROVE  HInv'
    <2>1. \A u \in workers \ {t} : read'[u] = read[u]
      BY <1>4 DEF HInv, TInv, TypeOK
    <2> QED
      BY <1>1, <1>4, <2>1, QuietStep DEF HInv
  <1>5. CASE Load(t, "load head", "store head", headQueue)
    <2>1. /\ Goes(t, "load head", "store head") /\ headQueue' = headQueue
          /\ read' = [read EXCEPT ![t] = headQueue]
          /\ "store head" \in Label
      BY <1>5 DEF Load, counters, Label
    <2>2. t \in workers /\ read \in [workers -> Int]
      BY <2>1 DEF Goes, HInv, TInv, TypeOK
    <2>3. read'[t] = headQueue /\ \A u \in workers \ {t} : read'[u] = read[u]
      BY <2>1, <2>2
    <2> QED
      BY <1>1, <2>1, <2>3, QuietStep DEF HInv
  <1>6. CASE Load(t, "load number", "store number", numberCommands)
    BY <1>4, <1>6 DEF Load, counters, Label
  <1>7. CASE Load(t, "load inumber", "store inumber", nextINumber)
    BY <1>4, <1>7 DEF Load, counters, Label
  <1>8. CASE \/ While(t) \/ FindCommand(t) \/ LowerNumber(t) \/ Enter(t) \/ Leave(t) \/ ReadINumber(t)
             \/ /\ Store(t, "store inumber", "enter")
                /\ nextINumber' = read[t] + 1
                /\ iNumber' = [iNumber EXCEPT ![t] = read[t] + 1]
                /\ UNCHANGED <<locks, counters, dir, taken>>
    <2>1. PICK from \in Label \ {"sscanf"}, to \in Label \ {"sscanf", "store head"} : Goes(t, from, to)
      BY <1>8 DEF While, FindCommand, LowerNumber, Enter, Leave, ReadINumber, Store, Label
    <2>2. headQueue' = headQueue /\ read' = read
      BY <1>8 DEF While, FindCommand, LowerNumber, Enter, Leave, ReadINumber, Store, counters
    <2> QED
      BY <1>4, <2>1, <2>2
  <1> QED
    BY <1>2, <1>3, <1>5, <1>6, <1>7, <1>8 DEF applyCommands, removeCommand, obtainNewInumber

LEMMA NextHInv == HInv /\ [Next]_vars => HInv'
  <1> SUFFICES ASSUME HInv, [Next]_vars PROVE HInv'
    OBVIOUS
  <1>1. TInv'
    BY NextTInv DEF HInv
  <1>2. CASE UNCHANGED vars \/ Exited \/ JoinAll
    <2>1. UNCHANGED <<input, counters, locals>> /\ (process' = "running" => process = "running")
      BY <1>2 DEF Exited, JoinAll, vars
    <2>2. Reach' = Reach
      BY <2>1 DEF Reach, Past, input, locals
    <2> QED
      BY <1>1, <2>1, <2>2 DEF HInv, WithinReach, HeadBounded, input, counters, locals
  <1> QED
    BY <1>2, InputHInv, WorkerHInv DEF Next

\* With locks that lock nothing decrements get lost and workers go on when the
\* commands are used up, but each fails on the first slot past the last, so
\* headQueue gets no further than one for each worker (main.c:50-53, 102).
THEOREM HeadStaysNear == Spec => []HeadBounded
  <1>1. HInv => HeadBounded
    BY DEF HInv
  <1> QED
    BY <1>1, InitHInv, NextHInv, PTL DEF Spec
-----------------------------------------------------------------------------
(* What main reads is the file. *)

\* How much of the file has been inserted, and why the rest has not been.
FileRead ==
  /\ Len(inputCommands) = Cardinality(LinesUpTo(line))
  /\ \A i \in LinesUpTo(line) :
       /\ Cardinality(LinesUpTo(i)) \in 1..Len(inputCommands)
       /\ inputCommands[Cardinality(LinesUpTo(i))] = file[i]
  /\ process # "reading" =>
       \/ line = Len(file)
       \/ line < Len(file) /\ IsLine(file[line + 1]) /\ Len(inputCommands) = MAX_COMMANDS

LEMMA LinesUpToFinite ==
  ASSUME TypeOK, NEW n \in Int
  PROVE  /\ IsFiniteSet(LinesUpTo(n)) /\ Cardinality(LinesUpTo(n)) \in Nat
         /\ LinesUpTo(n) \subseteq 1..Len(file) /\ Len(file) \in Nat
         /\ \A m \in Int : m <= n =>
              /\ LinesUpTo(m) \subseteq LinesUpTo(n)
              /\ Cardinality(LinesUpTo(m)) <= Cardinality(LinesUpTo(n))
  <1>1. DOMAIN file = 1..Len(file) /\ Len(file) \in Nat
    BY LenProperties, FirstAssumption DEF TypeOK
  <1>2. \A m : LinesUpTo(m) \subseteq 1..Len(file)
    BY <1>1 DEF LinesUpTo
  <1>3. \A m : IsFiniteSet(LinesUpTo(m)) /\ Cardinality(LinesUpTo(m)) \in Nat
    <2>1. IsFiniteSet(1..Len(file))
      BY <1>1, FS_Interval
    <2> QED
      BY <1>2, <2>1, FS_Subset, FS_CardinalityType
  <1>4. ASSUME NEW m \in Int, m <= n PROVE LinesUpTo(m) \subseteq LinesUpTo(n)
    <2>1. \A i \in Int : i <= m => i <= n
      BY <1>4
    <2> QED
      BY <1>1, <2>1 DEF LinesUpTo
  <1>5. ASSUME NEW m \in Int, m <= n
        PROVE  Cardinality(LinesUpTo(m)) <= Cardinality(LinesUpTo(n))
    BY <1>3, <1>4, <1>5, FS_Subset
  <1> QED
    BY <1>1, <1>2, <1>3, <1>4, <1>5

LEMMA NextLine ==
  ASSUME TypeOK, line < Len(file)
  PROVE  /\ line \in Nat /\ line + 1 \in 1..Len(file) /\ line + 1 \notin LinesUpTo(line)
         /\ IsLine(file[line + 1]) => LinesUpTo(line + 1) = LinesUpTo(line) \cup {line + 1}
         /\ ~IsLine(file[line + 1]) => LinesUpTo(line + 1) = LinesUpTo(line)
  <1>1. DOMAIN file = 1..Len(file) /\ Len(file) \in Nat /\ line \in 0..Len(file)
    BY LenProperties, FirstAssumption DEF TypeOK
  <1>2. line \in Nat /\ line + 1 \in 1..Len(file) /\ ~(line + 1 <= line)
    BY <1>1
  <1>3. \A i \in 1..Len(file) : i <= line + 1 <=> i <= line \/ i = line + 1
    BY <1>1
  <1>4. \A i : i \in LinesUpTo(line + 1) <=>
                 i \in LinesUpTo(line) \/ (i = line + 1 /\ IsLine(file[i]))
    BY <1>1, <1>2, <1>3 DEF LinesUpTo
  <1>5. IsLine(file[line + 1]) => LinesUpTo(line + 1) = LinesUpTo(line) \cup {line + 1}
    BY <1>4
  <1>6. ~IsLine(file[line + 1]) => LinesUpTo(line + 1) = LinesUpTo(line)
    BY <1>4
  <1> QED
    BY <1>2, <1>5, <1>6 DEF LinesUpTo

LEMMA InitFileRead == Init => FileRead
  <1> SUFFICES ASSUME Init PROVE FileRead
    OBVIOUS
  <1>1. TypeOK /\ line = 0 /\ process = "reading" /\ Len(inputCommands) = 0
    BY InitTInv, EmptySeq DEF Init, TInv
  <1>2. DOMAIN file = 1..Len(file) /\ Len(file) \in Nat
    BY <1>1, LenProperties, FirstAssumption DEF TypeOK
  <1>3. LinesUpTo(0) = {}
    BY <1>2 DEF LinesUpTo
  <1> QED
    BY <1>1, <1>3, FS_EmptySet DEF FileRead

LEMMA InputFileRead == ASSUME TInv, FileRead, processInput PROVE FileRead'
  <1>1. /\ TypeOK /\ process = "reading" /\ numberCommands = Len(inputCommands)
        /\ file' = file /\ inputCommands \in Seq(Line) /\ Len(inputCommands) \in Nat
    BY LenProperties DEF TInv, TypeOK, NotStarted, processInput
  <1>2. \A n : LinesUpTo(n)' = LinesUpTo(n)
    BY <1>1 DEF LinesUpTo
  <1>3. ASSUME ReadLine PROVE FileRead'
    <2>1. line < Len(file) /\ line' = line + 1 /\ process' = process
      BY <1>3 DEF ReadLine
    <2>2. CASE ~IsLine(file[line + 1])
      <3>1. inputCommands' = inputCommands
        BY <1>1, <1>3, <2>1, <2>2 DEF ReadLine
      <3>2. LinesUpTo(line + 1) = LinesUpTo(line)
        BY <1>1, <2>1, <2>2, NextLine
      <3> QED
        BY <1>1, <1>2, <2>1, <3>1, <3>2 DEF FileRead
    <2>3. CASE IsLine(file[line + 1])
      <3>1. inputCommands' = Append(inputCommands, file[line + 1])
        BY <1>1, <1>3, <2>1, <2>3 DEF ReadLine, insertCommand
      <3>2. /\ line + 1 \notin LinesUpTo(line) /\ line \in Int
            /\ LinesUpTo(line + 1) = LinesUpTo(line) \cup {line + 1}
        BY <1>1, <2>1, <2>3, NextLine
      <3>3. IsFiniteSet(LinesUpTo(line))
        BY <1>1, <3>2, LinesUpToFinite
      <3>4. Cardinality(LinesUpTo(line + 1)) = Len(inputCommands) + 1
        BY <3>2, <3>3, FS_AddElement DEF FileRead
      <3>5. file[line + 1] \in Line
        <4>1. file \in Seq(Line \cup {Other}) /\ line + 1 \in 1..Len(file)
          BY <1>1, <2>1, NextLine, FirstAssumption DEF TypeOK
        <4> QED
          BY <2>3, <4>1, ElementOfSeq DEF IsLine
      <3>6. /\ Len(inputCommands') = Len(inputCommands) + 1
            /\ inputCommands'[Len(inputCommands) + 1] = file[line + 1]
            /\ \A k \in 1..Len(inputCommands) : inputCommands'[k] = inputCommands[k]
        BY <1>1, <3>1, <3>5, AppendProperties
      <3>7. ASSUME NEW i \in LinesUpTo(line + 1)
            PROVE  /\ Cardinality(LinesUpTo(i)) \in 1..Len(inputCommands')
                   /\ inputCommands'[Cardinality(LinesUpTo(i))] = file[i]
        <4>1. CASE i = line + 1
          BY <1>1, <3>4, <3>6, <4>1
        <4>2. CASE i \in LinesUpTo(line)
          BY <1>1, <3>6, <4>2 DEF FileRead
        <4> QED
          BY <3>2, <4>1, <4>2
      <3> QED
        BY <1>1, <1>2, <2>1, <3>4, <3>6, <3>7 DEF FileRead
    <2> QED
      BY <2>2, <2>3
  <1>4. ASSUME EndInput PROVE FileRead'
    <2>1. /\ line' = line /\ inputCommands' = inputCommands
          /\ line < Len(file) => IsLine(file[line + 1]) /\ numberCommands = MAX_COMMANDS
      BY <1>4 DEF EndInput, Room
    <2>2. line \in 0..Len(file) /\ Len(file) \in Nat
      BY <1>1, LenProperties, FirstAssumption DEF TypeOK
    <2>3. line = Len(file) \/ line < Len(file)
      BY <2>2
    <2> QED
      BY <1>1, <1>2, <2>1, <2>3 DEF FileRead
  <1> QED
    BY <1>3, <1>4 DEF processInput

LEMMA ReadFile == ASSUME TypeOK, FileRead, process # "reading" PROVE InputIsFile
  <1> DEFINE lines == LinesUpTo(Len(file))
             place(i) == Cardinality(LinesUpTo(i))
  <1>1. /\ DOMAIN file = 1..Len(file) /\ Len(file) \in Nat /\ line \in 0..Len(file)
        /\ MAX_COMMANDS \in Nat /\ Len(inputCommands) \in Nat
        /\ Len(inputCommands) <= MAX_COMMANDS
    BY LenProperties, FirstAssumption DEF TypeOK
  <1>2. lines \subseteq 1..Len(file) /\ IsFiniteSet(lines) /\ Cardinality(lines) \in Nat
    BY <1>1, LinesUpToFinite
  <1>3. CASE line = Len(file)
    BY <1>1, <1>3 DEF InputIsFile, FileRead
  <1>4. CASE line < Len(file) /\ IsLine(file[line + 1]) /\ Len(inputCommands) = MAX_COMMANDS
    <2>1. /\ line + 1 \in 1..Len(file) /\ line + 1 \notin LinesUpTo(line)
          /\ LinesUpTo(line + 1) = LinesUpTo(line) \cup {line + 1}
      BY <1>4, NextLine
    <2>2. IsFiniteSet(LinesUpTo(line))
      BY <1>1, LinesUpToFinite
    <2>3. place(line + 1) = MAX_COMMANDS + 1
      BY <1>4, <2>1, <2>2, FS_AddElement DEF FileRead
    <2>4. ASSUME NEW i \in lines, ~(i \in LinesUpTo(line))
          PROVE  place(i) > MAX_COMMANDS
      <3>1. i \in Int /\ line + 1 \in Int /\ line + 1 <= i
        BY <1>1, <1>2, <2>4 DEF LinesUpTo
      <3>2. place(line + 1) <= place(i) /\ place(i) \in Nat
        BY <3>1, LinesUpToFinite
      <3> QED
        BY <1>1, <2>3, <3>2
    <2>5. Cardinality(lines) > MAX_COMMANDS
      <3>1. Len(file) \in Int /\ line + 1 \in Int /\ line + 1 <= Len(file)
        BY <1>1, <2>1
      <3>2. place(line + 1) <= Cardinality(lines)
        BY <3>1, LinesUpToFinite
      <3> QED
        BY <1>1, <1>2, <2>3, <3>2
    <2>6. ASSUME NEW i \in lines, place(i) <= MAX_COMMANDS
          PROVE  inputCommands[place(i)] = file[i]
      <3>1. place(i) \in Nat
        BY <1>1, <1>2, LinesUpToFinite
      <3>2. i \in LinesUpTo(line)
        BY <1>1, <2>4, <2>6, <3>1
      <3> QED
        BY <3>2 DEF FileRead
    <2>7. Len(inputCommands) = IF Cardinality(lines) < MAX_COMMANDS
                               THEN Cardinality(lines) ELSE MAX_COMMANDS
      BY <1>1, <1>2, <1>4, <2>5
    <2> QED
      BY <2>6, <2>7 DEF InputIsFile
  <1> QED
    BY <1>3, <1>4 DEF FileRead
-----------------------------------------------------------------------------
(* One worker executes the commands one after the other. *)

\* The directory and the last number that a sequence of commands leaves behind.
Outcome == [dir : [Name -> Nat], next : Nat]
NothingYet == [dir |-> [n \in Name |-> 0], next |-> 0]

\* What command k makes of them.
AfterCommand(k, s) ==
  CASE inputCommands[k].op = "c" ->
         [dir |-> [s.dir EXCEPT ![inputCommands[k].name] = s.next + 1], next |-> s.next + 1]
    [] inputCommands[k].op = "d" -> [s EXCEPT !.dir[inputCommands[k].name] = 0]
    [] OTHER -> s

LEMMA AfterCommandType ==
  ASSUME NEW k, NEW s \in Outcome
  PROVE  AfterCommand(k, s) \in Outcome
  <1>1. s.dir \in [Name -> Nat] /\ s.next \in Nat /\ s = [dir |-> s.dir, next |-> s.next]
    BY DEF Outcome
  <1>2. ASSUME NEW n, NEW i \in Nat PROVE [s.dir EXCEPT ![n] = i] \in [Name -> Nat]
    BY <1>1
  <1>3. CASE inputCommands[k].op = "c"
    <2>1. [s.dir EXCEPT ![inputCommands[k].name] = s.next + 1] \in [Name -> Nat]
          /\ s.next + 1 \in Nat
      BY <1>1, <1>2
    <2> QED
      BY <1>3, <2>1 DEF AfterCommand, Outcome
  <1>4. CASE inputCommands[k].op = "d"
    <2>1. [s.dir EXCEPT ![inputCommands[k].name] = 0] \in [Name -> Nat]
      BY <1>1, <1>2
    <2>2. AfterCommand(k, s) = [s EXCEPT !.dir = [s.dir EXCEPT ![inputCommands[k].name] = 0]]
      BY <1>1, <1>4 DEF AfterCommand
    <2> QED
      BY <1>1, <2>1, <2>2 DEF Outcome
  <1>5. CASE inputCommands[k].op \notin {"c", "d"}
    BY <1>5 DEF AfterCommand
  <1> QED
    BY <1>3, <1>4, <1>5

\* After is the function that its recursive definition describes.
LEMMA AfterUnfolds ==
  After = [k \in Nat |-> IF k = 0 THEN NothingYet ELSE AfterCommand(k, After[k - 1])]
  <1> DEFINE step == [k \in Nat |-> [s \in Outcome |-> AfterCommand(k, s)]]
             P(g) == g = [k \in Nat |->
                            IF k = 0 THEN NothingYet ELSE AfterCommand(k, g[k - 1])]
  <1>1. NothingYet \in Outcome
    BY DEF NothingYet, Outcome
  <1>2. step \in [Nat -> [Outcome -> Outcome]]
    BY AfterCommandType
  <1> HIDE DEF step, P
  <1>3. PICK f \in [Nat -> Outcome] :
          f[0] = NothingYet /\ \A n \in Nat : f[n + 1] = step[n + 1][f[n]]
    <2>1. ASSUME NEW st, st \in [Nat -> [Outcome -> Outcome]]
          PROVE  \E f \in [Nat -> Outcome] :
                   f[0] = NothingYet /\ \A n \in Nat : f[n + 1] = st[n + 1][f[n]]
      BY <1>1, <2>1, FunctionByRecursion
    <2> QED
      BY <1>2, <2>1, Zenon
  <1>4. ASSUME NEW k \in Nat
        PROVE  f[k] = IF k = 0 THEN NothingYet ELSE AfterCommand(k, f[k - 1])
    <2>1. CASE k = 0
      BY <1>3, <2>1
    <2>2. CASE k # 0
      <3>1. k - 1 \in Nat /\ k - 1 + 1 = k
        BY <2>2
      <3>2. f[k] = step[k][f[k - 1]] /\ f[k - 1] \in Outcome
        BY <1>3, <3>1
      <3>3. step[k][f[k - 1]] = AfterCommand(k, f[k - 1])
        BY <3>2 DEF step
      <3> QED
        BY <2>2, <3>2, <3>3
    <2> QED
      BY <2>1, <2>2
  <1>5. P(f)
    BY <1>3, <1>4 DEF P
  <1>6. After = CHOOSE g : P(g)
    BY Zenon DEF P, After, NothingYet, AfterCommand
  <1>7. P(After)
    BY <1>5, <1>6
  <1> QED
    BY <1>7 DEF P

LEMMA AfterType == After \in [Nat -> Outcome]
  <1> DEFINE P == {k \in Nat : After[k] \in Outcome}
  <1>1. \A k \in Nat :
          After[k] = IF k = 0 THEN NothingYet ELSE AfterCommand(k, After[k - 1])
    BY AfterUnfolds
  <1>2. 0 \in P
    BY <1>1 DEF NothingYet, Outcome
  <1>3. ASSUME NEW k \in P PROVE k + 1 \in P
    <2>1. k + 1 \in Nat /\ k + 1 # 0 /\ k + 1 - 1 = k
      OBVIOUS
    <2>2. After[k + 1] = AfterCommand(k + 1, After[k])
      BY <1>1, <2>1
    <2> QED
      BY <2>1, <2>2, AfterCommandType
  <1> HIDE DEF P
  <1>4. P = Nat
    <2>1. P \in SUBSET Nat
      BY DEF P
    <2> QED
      BY <1>2, <1>3, <2>1, InductionOverNat
  <1>5. \A k \in Nat : After[k] \in Outcome
    BY <1>4 DEF P
  <1>6. \E f : After = [k \in Nat |-> f[k]]
    BY AfterUnfolds
  <1> QED
    BY <1>5, <1>6

LEMMA AfterKinds ==
  ASSUME NEW k \in Nat \ {0}
  PROVE  /\ After[k - 1].dir \in [Name -> Nat] /\ After[k - 1].next \in Nat
         /\ inputCommands[k].op = "c" =>
              /\ After[k].dir =
                   [After[k - 1].dir EXCEPT ![inputCommands[k].name] = After[k - 1].next + 1]
              /\ After[k].next = After[k - 1].next + 1
         /\ inputCommands[k].op = "d" =>
              /\ After[k].dir = [After[k - 1].dir EXCEPT ![inputCommands[k].name] = 0]
              /\ After[k].next = After[k - 1].next
         /\ inputCommands[k].op \notin {"c", "d"} => After[k] = After[k - 1]
  <1> DEFINE s == After[k - 1]
  <1>1. k - 1 \in Nat /\ k \in Nat
    OBVIOUS
  <1>2. s \in Outcome
    BY <1>1, AfterType
  <1>3. After[k] = AfterCommand(k, s)
    BY <1>1, AfterUnfolds
  <1> HIDE DEF s
  <1>4. s.dir \in [Name -> Nat] /\ s.next \in Nat
    BY <1>2 DEF Outcome
  <1>5. inputCommands[k].op = "c" =>
          /\ After[k].dir = [s.dir EXCEPT ![inputCommands[k].name] = s.next + 1]
          /\ After[k].next = s.next + 1
    BY <1>3 DEF AfterCommand
  <1>6. inputCommands[k].op = "d" =>
          /\ After[k].dir = [s.dir EXCEPT ![inputCommands[k].name] = 0]
          /\ After[k].next = s.next
    BY <1>2, <1>3 DEF AfterCommand, Outcome
  <1>7. inputCommands[k].op \notin {"c", "d"} => After[k] = s
    BY <1>3 DEF AfterCommand
  <1> QED
    BY <1>4, <1>5, <1>6, <1>7 DEF s

LEMMA AfterStays == inputCommands' = inputCommands => After' = After
  BY DEF After

\* How far worker t is with the command at headQueue, when it is the only one.
Alone(t) ==
  LET left == Len(inputCommands) - headQueue
      done == After[headQueue]
      before == After[headQueue - 1]
  IN
  /\ headQueue \in 0..Len(inputCommands)
  /\ taken = 0..headQueue - 1
  /\ numberCommands = IF pc[t] \in {"load head", "store head"} THEN left - 1 ELSE left
  /\ pc[t] \in {"if", "load number", "store number", "load head", "store head"} => left > 0
  /\ pc[t] = "store number" => read[t] = numberCommands
  /\ pc[t] = "store head" => read[t] = headQueue
  /\ pc[t] \in {"while", "if", "load number", "store number", "load head", "store head",
                "inumber", "done"}
       => dir = done.dir /\ nextINumber = done.next
  /\ pc[t] = "done" => left = 0
  /\ pc[t] = "sscanf" => read[t] + 1 = headQueue
  /\ pc[t] \in {"sscanf", "load inumber", "store inumber", "enter", "tree"}
       => headQueue > 0 /\ dir = before.dir
  /\ pc[t] \in {"sscanf", "load inumber", "store inumber"} => nextINumber = before.next
  /\ pc[t] \in {"load inumber", "store inumber", "enter", "tree"}
       => current[t] = inputCommands[headQueue]
  /\ pc[t] \in {"load inumber", "store inumber"} => current[t].op = "c"
  /\ pc[t] = "store inumber" => read[t] = nextINumber
  /\ pc[t] \in {"enter", "tree"} =>
       /\ nextINumber = done.next
       /\ current[t].op = "c" => iNumber[t] = done.next

\* How the execution ends.
EndedAlone ==
  /\ process # "undefined"
  /\ process = "failed" =>
       headQueue \in DOMAIN inputCommands /\ inputCommands[headQueue].name = NoName
  /\ process = "finished" =>
       /\ taken = 0..(Len(inputCommands) - 1)
       /\ dir = After[Len(inputCommands)].dir
       /\ nextINumber = After[Len(inputCommands)].next

OneWorkerInv ==
  \A t \in workers : workers = {t} =>
    /\ process \in {"reading", "running"} => Alone(t)
    /\ EndedAlone

SequentialInv == TInv /\ FileRead /\ OneWorkerInv

LEMMA InitSequential == Init => SequentialInv
  <1> SUFFICES ASSUME Init PROVE SequentialInv
    OBVIOUS
  <1>1. TInv /\ FileRead
    BY InitTInv, InitFileRead
  <1>2. /\ process = "reading" /\ Len(inputCommands) = 0 /\ numberCommands = 0
        /\ headQueue = 0 /\ taken = {} /\ nextINumber = 0 /\ dir = [n \in Name |-> 0]
        /\ \A t \in workers : pc[t] = "while"
    BY EmptySeq DEF Init, new_tecnicofs
  <1>3. After[0] = NothingYet
    BY AfterUnfolds
  <1>4. taken = 0..headQueue - 1
    BY <1>2
  <1>5. EndedAlone
    BY <1>2 DEF EndedAlone
  <1>6. ASSUME NEW t \in workers PROVE Alone(t)
    <2>1. pc[t] = "while" /\ headQueue \in 0..Len(inputCommands)
          /\ numberCommands = Len(inputCommands) - headQueue
      BY <1>2
    <2>2. dir = After[headQueue].dir /\ nextINumber = After[headQueue].next
      BY <1>2, <1>3 DEF NothingYet
    <2> QED
      BY <1>4, <2>1, <2>2 DEF Alone
  <1> QED
    BY <1>1, <1>5, <1>6 DEF SequentialInv, OneWorkerInv

\* Where a step takes the only worker.
LEMMA GoesAlone ==
  ASSUME TypeOK, NEW t, NEW from, NEW to, Goes(t, from, to)
  PROVE  /\ pc[t] = from /\ pc'[t] = to /\ process = "running"
         /\ inputCommands' = inputCommands /\ After' = After /\ workers' = workers
         /\ Len(inputCommands) \in Nat
  BY AfterStays, LenProperties DEF TypeOK, Goes, input

LEMMA AfterEmpty == After[0] = NothingYet
  BY AfterUnfolds

LEMMA InputAlone ==
  ASSUME SequentialInv, processInput, NEW t \in workers', workers' = {t}
  PROVE  Alone(t)' /\ EndedAlone'
  <1>1. /\ TInv /\ TInv' /\ process = "reading" /\ process' \in {"reading", "running"}
        /\ workers' = workers /\ headQueue' = 0 /\ headQueue = 0
        /\ UNCHANGED <<dir, nextINumber, taken>> /\ pc'[t] = "while"
    BY InputTInv
       DEF SequentialInv, processInput, ReadLine, EndInput, TInv, NotStarted, fs, locals
  <1>2. Alone(t) /\ pc[t] = "while"
    BY <1>1 DEF SequentialInv, OneWorkerInv, TInv, NotStarted
  <1>3. After[0] = NothingYet /\ After'[0] = NothingYet
    <2>1. (After[0] = NothingYet)'
      BY AfterEmpty, PTL
    <2> QED
      BY <2>1, AfterEmpty DEF NothingYet
  <1>4. numberCommands' = Len(inputCommands') /\ Len(inputCommands') \in Nat
    <2>1. inputCommands \in Seq(Line) /\ inputCommands' \in Seq(Line)
      BY <1>1 DEF TInv, TypeOK
    <2>2. numberCommands = Len(inputCommands) /\ Len(inputCommands) \in Nat
      BY <1>1, <2>1, LenProperties DEF TInv, NotStarted
    <2>3. \A x \in Line : Len(Append(inputCommands, x)) = Len(inputCommands) + 1
      BY <2>1, AppendProperties
    <2>4. \/ inputCommands' = inputCommands /\ numberCommands' = numberCommands
          \/ \E x \in Line : /\ inputCommands' = Append(inputCommands, x)
                             /\ numberCommands' = numberCommands + 1
      <3>1. line < Len(file) => file[line + 1] \in Line \cup {Other}
        <4>1. file \in Seq(Line \cup {Other}) /\ line \in 0..Len(file) /\ Len(file) \in Nat
          BY <1>1, LenProperties, FirstAssumption DEF TInv, TypeOK
        <4> QED
          BY <4>1, ElementOfSeq
      <3> QED
        BY <3>1 DEF processInput, ReadLine, EndInput, insertCommand, IsLine
    <2> QED
      BY <2>1, <2>2, <2>3, <2>4, LenProperties
  <1>5. dir' = After'[0].dir /\ nextINumber' = After'[0].next
    BY <1>1, <1>2, <1>3 DEF Alone
  <1> QED
    BY <1>1, <1>2, <1>4, <1>5 DEF Alone, EndedAlone

LEMMA AloneTypes ==
  ASSUME TypeOK, NEW t, Alone(t)
  PROVE  /\ headQueue \in Nat /\ headQueue <= Len(inputCommands)
         /\ Len(inputCommands) \in Nat /\ numberCommands \in Int
         /\ Len(inputCommands) - headQueue \in Nat
         /\ pc[t] \notin {"load head", "store head"}
              => numberCommands = Len(inputCommands) - headQueue
         /\ pc[t] \in {"load head", "store head"}
              => numberCommands = Len(inputCommands) - headQueue - 1
  <1>1. Len(inputCommands) \in Nat /\ numberCommands \in Int
    BY LenProperties DEF TypeOK
  <1>2. headQueue \in 0..Len(inputCommands)
    BY DEF Alone
  <1>3. headQueue \in Nat /\ headQueue <= Len(inputCommands)
        /\ Len(inputCommands) - headQueue \in Nat
    BY <1>1, <1>2
  <1> QED
    BY <1>1, <1>3 DEF Alone

LEMMA TakeAlone ==
  ASSUME TInv, NEW t \in workers, workers = {t}, Alone(t),
         While(t) \/ removeCommand(t)
  PROVE  process' = "running" /\ Alone(t)'
  <1>1. TypeOK
    BY DEF TInv
  <1>2. read \in [workers -> Int]
    BY <1>1 DEF TypeOK
  <1>3. CASE While(t) \/ FindCommand(t)
    <2>1. UNCHANGED <<process, headQueue, numberCommands, taken, dir, nextINumber>>
      BY <1>3 DEF While, FindCommand, counters, fs
    <2>2. CASE While(t)
      <3>1. Goes(t, "while", IF numberCommands > 0 THEN "if" ELSE "done")
        BY <2>2 DEF While
      <3>2. /\ pc[t] = "while" /\ pc'[t] = IF numberCommands > 0 THEN "if" ELSE "done"
            /\ process = "running" /\ inputCommands' = inputCommands /\ After' = After
        BY <1>1, <3>1, GoesAlone
      <3>3. CASE numberCommands > 0
        BY <1>1, <2>1, <3>2, <3>3, AloneTypes DEF Alone
      <3>4. CASE ~(numberCommands > 0)
        <4>1. Len(inputCommands) - headQueue = 0
          <5>1. numberCommands = Len(inputCommands) - headQueue /\ numberCommands \in Nat
            BY <1>1, <3>2, AloneTypes
          <5> QED
            BY <3>4, <5>1
        <4> QED
          BY <1>1, <2>1, <3>2, <3>4, <4>1, AloneTypes DEF Alone
      <3> QED
        BY <3>3, <3>4
    <2>3. CASE FindCommand(t)
      <3>1. Goes(t, "if", IF numberCommands > 0 THEN "load number" ELSE "while")
        BY <2>3 DEF FindCommand
      <3>2. /\ pc[t] = "if" /\ pc'[t] = IF numberCommands > 0 THEN "load number" ELSE "while"
            /\ process = "running" /\ inputCommands' = inputCommands /\ After' = After
        BY <1>1, <3>1, GoesAlone
      <3> QED
        BY <1>1, <2>1, <3>2, AloneTypes DEF Alone
    <2> QED
      BY <1>3, <2>2, <2>3
  <1>4. CASE Load(t, "load number", "store number", numberCommands)
    <2>1. /\ pc[t] = "load number" /\ pc'[t] = "store number" /\ read'[t] = numberCommands
          /\ inputCommands' = inputCommands /\ After' = After /\ Len(inputCommands) \in Nat
          /\ process = "running"
          /\ UNCHANGED <<process, headQueue, numberCommands, taken, dir, nextINumber>>
      BY <1>1, <1>2, <1>4, GoesAlone DEF Load, counters, fs
    <2> QED
      BY <2>1 DEF Alone
  <1>5. CASE LowerNumber(t)
    <2>1. /\ pc[t] = "store number" /\ pc'[t] = "load head"
          /\ numberCommands' = read[t] - 1
          /\ inputCommands' = inputCommands /\ After' = After /\ Len(inputCommands) \in Nat
          /\ process = "running"
          /\ UNCHANGED <<process, headQueue, taken, dir, nextINumber>>
      BY <1>1, <1>5, GoesAlone DEF LowerNumber, Store, fs
    <2> QED
      BY <2>1 DEF Alone
  <1>6. CASE Load(t, "load head", "store head", headQueue)
    <2>1. /\ pc[t] = "load head" /\ pc'[t] = "store head" /\ read'[t] = headQueue
          /\ inputCommands' = inputCommands /\ After' = After /\ Len(inputCommands) \in Nat
          /\ process = "running"
          /\ UNCHANGED <<process, headQueue, numberCommands, taken, dir, nextINumber>>
      BY <1>1, <1>2, <1>6, GoesAlone DEF Load, counters, fs
    <2> QED
      BY <2>1 DEF Alone
  <1>7. CASE TakeSlot(t)
    <2>1. /\ pc[t] = "store head" /\ pc'[t] = "sscanf" /\ read' = read
          /\ headQueue' = read[t] + 1 /\ taken' = taken \cup {read[t]}
          /\ inputCommands' = inputCommands /\ After' = After /\ Len(inputCommands) \in Nat
          /\ process = "running"
          /\ UNCHANGED <<process, numberCommands, dir, nextINumber>>
      BY <1>1, <1>7, GoesAlone DEF TakeSlot, Store, fs
    <2>2. /\ read[t] = headQueue /\ headQueue \in 0..Len(inputCommands) /\ headQueue \in Nat
          /\ Len(inputCommands) - headQueue > 0 /\ taken = 0..headQueue - 1
          /\ numberCommands = Len(inputCommands) - headQueue - 1
          /\ dir = After[headQueue].dir /\ nextINumber = After[headQueue].next
      <3>1. /\ read[t] = headQueue /\ Len(inputCommands) - headQueue > 0
            /\ taken = 0..headQueue - 1 /\ headQueue \in 0..Len(inputCommands)
            /\ dir = After[headQueue].dir /\ nextINumber = After[headQueue].next
        BY <2>1 DEF Alone
      <3> QED
        BY <1>1, <2>1, <3>1, AloneTypes
    <2>3. headQueue' = headQueue + 1 /\ headQueue' - 1 = headQueue
      <3>1. headQueue' = read[t] + 1
        BY <2>1
      <3>2. read[t] = headQueue /\ headQueue \in Nat
        BY <2>2
      <3> QED
        BY <3>1, <3>2
    <2>4. taken' = 0..headQueue' - 1
      <3>1. (0..headQueue - 1) \cup {headQueue} = 0..headQueue
        BY <2>2
      <3>2. taken' = 0..headQueue
        BY <2>1, <2>2, <3>1
      <3> QED
        BY <2>3, <3>2
    <2>5. /\ headQueue' \in 0..Len(inputCommands) /\ headQueue' > 0
          /\ numberCommands' = Len(inputCommands) - headQueue'
      <3>1. ASSUME NEW h \in Nat, NEW l \in Nat, h <= l, l - h > 0
            PROVE  h + 1 \in 0..l /\ h + 1 > 0 /\ l - h - 1 = l - (h + 1)
        BY <3>1
      <3>2. /\ headQueue + 1 \in 0..Len(inputCommands) /\ headQueue + 1 > 0
            /\ Len(inputCommands) - headQueue - 1 = Len(inputCommands) - (headQueue + 1)
        BY <1>1, <2>2, <3>1, AloneTypes
      <3>3. numberCommands' = Len(inputCommands) - headQueue - 1
        BY <2>1, <2>2
      <3> QED
        BY <2>3, <3>2, <3>3
    <2> QED
      BY <2>1, <2>2, <2>3, <2>4, <2>5 DEF Alone
  <1> QED
    BY <1>3, <1>4, <1>5, <1>6, <1>7 DEF removeCommand

LEMMA ParseAlone ==
  ASSUME TInv, NEW t \in workers, workers = {t}, Alone(t), EndedAlone, Parse(t)
  PROVE  (process' = "running" => Alone(t)') /\ EndedAlone'
  <1>1. TypeOK
    BY DEF TInv
  <1> DEFINE to == IF ~IsCommand(read[t] + 1) THEN "done"
                   ELSE IF inputCommands[read[t] + 1].op = "c" THEN "load inumber"
                   ELSE "enter"
  <1>2. Goes(t, "sscanf", to)
    BY DEF Parse
  <1>3. /\ pc[t] = "sscanf" /\ pc'[t] = to /\ process = "running"
        /\ inputCommands' = inputCommands /\ After' = After
        /\ UNCHANGED <<headQueue, numberCommands, taken, dir, nextINumber, read>>
    BY <1>1, <1>2, GoesAlone DEF Parse, counters, fs
  <1>4. /\ read[t] + 1 = headQueue /\ headQueue > 0 /\ dir = After[headQueue - 1].dir
        /\ nextINumber = After[headQueue - 1].next /\ taken = 0..headQueue - 1
        /\ headQueue \in 0..Len(inputCommands)
        /\ numberCommands = Len(inputCommands) - headQueue
    BY <1>3 DEF Alone
  <1>5. /\ headQueue \in Nat /\ headQueue <= Len(inputCommands)
        /\ Len(inputCommands) \in Nat /\ Len(inputCommands) <= MAX_COMMANDS
        /\ MAX_COMMANDS \in Nat
        /\ inputCommands \in Seq(Line) /\ DOMAIN inputCommands = 1..Len(inputCommands)
    BY <1>1, AloneTypes, LenProperties, FirstAssumption DEF TypeOK
  <1>6. headQueue \in DOMAIN inputCommands /\ ~(headQueue > MAX_COMMANDS)
        /\ headQueue \in Nat \ {0}
    BY <1>4, <1>5
  <1>7. IsCommand(headQueue) <=> inputCommands[headQueue].name # NoName
    BY <1>5 DEF IsCommand
  <1>8. CASE ~IsCommand(headQueue)
    <2>1. process' = "failed"
      BY <1>4, <1>6, <1>8 DEF Parse
    <2> QED
      BY <1>3, <1>6, <1>7, <1>8, <2>1 DEF EndedAlone
  <1>9. CASE IsCommand(headQueue)
    <2>1. process' = process /\ current' = [current EXCEPT ![t] = inputCommands[headQueue]]
      BY <1>4, <1>9 DEF Parse
    <2>2. current'[t] = inputCommands[headQueue]
      BY <1>1, <2>1 DEF TypeOK
    <2>3. EndedAlone'
      BY <1>3, <2>1 DEF EndedAlone
    <2>4. CASE inputCommands[headQueue].op = "c"
      <3>1. pc'[t] = "load inumber"
        BY <1>3, <1>4, <1>9, <2>4
      <3> QED
        BY <1>3, <1>4, <2>1, <2>2, <2>3, <2>4, <3>1 DEF Alone
    <2>5. CASE inputCommands[headQueue].op # "c"
      <3>1. pc'[t] = "enter"
        BY <1>3, <1>4, <1>9, <2>5
      <3>2. nextINumber = After[headQueue].next
        BY <1>4, <1>6, <2>5, AfterKinds
      <3> QED
        BY <1>3, <1>4, <2>1, <2>2, <2>3, <2>5, <3>1, <3>2 DEF Alone
    <2> QED
      BY <2>4, <2>5
  <1> QED
    BY <1>8, <1>9

LEMMA OperationAlone ==
  ASSUME TInv, NEW t \in workers, workers = {t}, Alone(t),
         obtainNewInumber(t) \/ Enter(t) \/ Leave(t) \/ ReadINumber(t)
  PROVE  process' = "running" /\ Alone(t)'
  <1>1. TypeOK /\ read \in [workers -> Int] /\ iNumber \in [workers -> Nat]
        /\ dir \in [Name -> Nat]
    BY DEF TInv, TypeOK
  <1>2. /\ headQueue \in Nat /\ headQueue <= Len(inputCommands)
        /\ taken = 0..headQueue - 1 /\ headQueue \in 0..Len(inputCommands)
    BY <1>1, AloneTypes DEF Alone
  <1>3. CASE Load(t, "load inumber", "store inumber", nextINumber)
    <2>1. /\ pc[t] = "load inumber" /\ pc'[t] = "store inumber" /\ read'[t] = nextINumber
          /\ inputCommands' = inputCommands /\ After' = After /\ process = "running"
          /\ UNCHANGED <<process, headQueue, numberCommands, taken, dir, nextINumber, current>>
      BY <1>1, <1>3, GoesAlone DEF Load, counters, fs
    <2> QED
      BY <2>1 DEF Alone
  <1>4. CASE /\ Store(t, "store inumber", "enter")
             /\ nextINumber' = read[t] + 1
             /\ iNumber' = [iNumber EXCEPT ![t] = read[t] + 1]
             /\ UNCHANGED <<locks, counters, dir, taken>>
    <2>1. /\ pc[t] = "store inumber" /\ pc'[t] = "enter"
          /\ nextINumber' = read[t] + 1 /\ iNumber'[t] = read[t] + 1
          /\ inputCommands' = inputCommands /\ After' = After /\ process = "running"
          /\ UNCHANGED <<process, headQueue, numberCommands, taken, dir, current>>
      BY <1>1, <1>4, GoesAlone DEF Store, counters
    <2>2. /\ headQueue > 0 /\ read[t] = After[headQueue - 1].next
          /\ current[t] = inputCommands[headQueue] /\ current[t].op = "c"
      BY <2>1 DEF Alone
    <2>3. After[headQueue].next = After[headQueue - 1].next + 1
      <3>1. headQueue \in Nat \ {0}
        BY <1>2, <2>2
      <3> QED
        BY <2>2, <3>1, AfterKinds
    <2> QED
      BY <2>1, <2>2, <2>3 DEF Alone
  <1>5. CASE Enter(t)
    <2>1. /\ pc[t] = "enter" /\ pc'[t] = "tree"
          /\ inputCommands' = inputCommands /\ After' = After /\ process = "running"
          /\ UNCHANGED <<process, headQueue, numberCommands, taken, dir, nextINumber, current,
                         iNumber>>
      BY <1>1, <1>5, GoesAlone DEF Enter, counters, fs
    <2> QED
      BY <2>1 DEF Alone
  <1>6. CASE Leave(t)
    <2> DEFINE n == current[t].name
               to == IF current[t].op = "l" /\ dir[n] # 0 THEN "inumber" ELSE "while"
    <2>1. Goes(t, "tree", to)
      BY <1>6 DEF Leave
    <2>2. ~Races(t)
      BY DEF Races
    <2>3. /\ pc[t] = "tree" /\ pc'[t] = to
          /\ inputCommands' = inputCommands /\ After' = After /\ process = "running"
          /\ UNCHANGED <<headQueue, numberCommands, taken, nextINumber, current>>
      BY <1>1, <1>6, <2>1, GoesAlone DEF Leave, counters
    <2>4. process' = "running" /\ dir' = AfterOperation(t, n)
      BY <1>6, <2>2 DEF Leave
    <2>5. /\ headQueue > 0 /\ dir = After[headQueue - 1].dir
          /\ nextINumber = After[headQueue].next
          /\ current[t] = inputCommands[headQueue]
          /\ current[t].op = "c" => iNumber[t] = After[headQueue].next
          /\ numberCommands = Len(inputCommands) - headQueue
      BY <2>3 DEF Alone
    <2>6. headQueue \in Nat \ {0}
      BY <1>2, <2>5
    <2>7. dir' = After[headQueue].dir
      <3>1. CASE current[t].op = "c"
        <4>1. dir' = [dir EXCEPT ![n] = iNumber[t]]
          BY <2>4, <3>1 DEF AfterOperation
        <4>2. iNumber[t] = After[headQueue - 1].next + 1
          BY <2>5, <2>6, <3>1, AfterKinds
        <4> QED
          BY <2>5, <2>6, <3>1, <4>1, <4>2, AfterKinds
      <3>2. CASE current[t].op = "d"
        <4>1. dir' = [dir EXCEPT ![n] = 0]
          BY <2>4, <3>2 DEF AfterOperation
        <4> QED
          BY <2>5, <2>6, <3>2, <4>1, AfterKinds
      <3>3. CASE current[t].op \notin {"c", "d"}
        <4>1. dir' = dir
          BY <2>4, <3>3 DEF AfterOperation
        <4> QED
          BY <2>5, <2>6, <3>3, <4>1, AfterKinds
      <3> QED
        BY <3>1, <3>2, <3>3
    <2>8. pc'[t] \in {"inumber", "while"}
      BY <2>3
    <2> HIDE DEF n, to
    <2> QED
      BY <1>2, <2>3, <2>4, <2>5, <2>7, <2>8 DEF Alone
  <1>7. CASE ReadINumber(t)
    <2>1. /\ pc[t] = "inumber" /\ pc'[t] = "while"
          /\ inputCommands' = inputCommands /\ After' = After /\ process = "running"
          /\ UNCHANGED <<process, headQueue, numberCommands, taken, dir, nextINumber>>
      BY <1>1, <1>7, GoesAlone DEF ReadINumber, counters, fs
    <2> QED
      BY <2>1 DEF Alone
  <1> QED
    BY <1>3, <1>4, <1>5, <1>6, <1>7 DEF obtainNewInumber

LEMMA NextSequential == SequentialInv /\ [Next]_vars => SequentialInv'
  <1> SUFFICES ASSUME SequentialInv, [Next]_vars PROVE SequentialInv'
    OBVIOUS
  <1>1. TInv /\ TypeOK /\ FileRead /\ TInv'
    BY NextTInv DEF SequentialInv, TInv
  <1>2. CASE processInput
    <2>1. FileRead'
      BY <1>1, <1>2, InputFileRead
    <2>2. OneWorkerInv'
      BY <1>2, InputAlone DEF OneWorkerInv
    <2> QED
      BY <1>1, <2>1, <2>2 DEF SequentialInv
  <1>3. ASSUME UNCHANGED input, process # "reading" PROVE FileRead'
    <2>1. UNCHANGED <<file, line, inputCommands>>
      BY <1>3 DEF input
    <2>2. \A n : LinesUpTo(n)' = LinesUpTo(n)
      BY <2>1 DEF LinesUpTo
    <2> QED
      BY <1>1, <1>3, <2>1, <2>2 DEF FileRead
  <1>4. ASSUME NEW t \in Worker, applyCommands(t)
        PROVE  SequentialInv'
    <2>1. UNCHANGED input /\ process = "running" /\ t \in workers /\ workers' = workers
      BY <1>4
         DEF applyCommands, While, removeCommand, FindCommand, Load, LowerNumber, TakeSlot,
             Store, Parse, obtainNewInumber, Enter, Leave, ReadINumber, Goes, input
    <2>2. ASSUME workers = {t}
          PROVE  (process' = "running" => Alone(t)') /\ EndedAlone'
      <3>1. Alone(t) /\ EndedAlone
        BY <2>1, <2>2 DEF SequentialInv, OneWorkerInv
      <3>2. CASE Parse(t)
        BY <1>1, <2>1, <2>2, <3>1, <3>2, ParseAlone
      <3>3. CASE ~Parse(t)
        <4>1. process' = "running" /\ Alone(t)'
          BY <1>1, <1>4, <2>1, <2>2, <3>1, <3>3, TakeAlone, OperationAlone DEF applyCommands
        <4> QED
          BY <4>1 DEF EndedAlone
      <3> QED
        BY <3>2, <3>3
    <2>3. process' # "reading"
      BY <1>4, <2>1
         DEF applyCommands, While, removeCommand, FindCommand, Load, LowerNumber, TakeSlot,
             Store, Parse, obtainNewInumber, Enter, Leave, ReadINumber
    <2>4. OneWorkerInv'
      <3> SUFFICES ASSUME NEW u \in workers, workers = {u}
                   PROVE  /\ process' \in {"reading", "running"} => Alone(u)'
                          /\ EndedAlone'
        BY <2>1 DEF OneWorkerInv
      <3>1. u = t
        BY <2>1
      <3> QED
        BY <2>2, <2>3, <3>1
    <2> QED
      BY <1>1, <1>3, <2>1, <2>4 DEF SequentialInv
  <1>5. CASE JoinAll
    <2>1. /\ process = "running" /\ process' = "finished" /\ UNCHANGED input
          /\ workers' = workers /\ inputCommands' = inputCommands
          /\ UNCHANGED <<headQueue, taken, dir, nextINumber>>
          /\ \A t \in workers : pc[t] = "done"
      BY <1>5 DEF JoinAll, input, counters, fs
    <2>2. After' = After
      BY <2>1, AfterStays
    <2>3. OneWorkerInv'
      <3> SUFFICES ASSUME NEW t \in workers, workers = {t} PROVE EndedAlone'
        BY <2>1 DEF OneWorkerInv
      <3>1. Alone(t) /\ pc[t] = "done"
        BY <2>1 DEF SequentialInv, OneWorkerInv
      <3>2. /\ Len(inputCommands) - headQueue = 0 /\ taken = 0..headQueue - 1
            /\ dir = After[headQueue].dir /\ nextINumber = After[headQueue].next
        BY <3>1 DEF Alone
      <3>3. headQueue = Len(inputCommands)
        <4>1. ASSUME NEW l \in Nat, NEW h \in Nat, l - h = 0 PROVE h = l
          BY <4>1
        <4> QED
          BY <1>1, <3>1, <3>2, <4>1, AloneTypes
      <3> QED
        BY <2>1, <2>2, <3>2, <3>3 DEF EndedAlone
    <2> QED
      BY <1>1, <1>3, <2>1, <2>3 DEF SequentialInv
  <1>6. CASE Exited \/ UNCHANGED vars
    <2>1. UNCHANGED vars
      BY <1>6 DEF Exited
    <2>2. UNCHANGED <<file, line, workers, inputCommands, process, numberCommands, headQueue,
                      dir, nextINumber, pc, read, current, iNumber, taken>>
      BY <2>1 DEF vars, input, counters, fs, locals
    <2>3. After' = After /\ \A n : LinesUpTo(n)' = LinesUpTo(n)
      BY <2>2, AfterStays DEF LinesUpTo
    <2>4. FileRead'
      BY <1>1, <2>2, <2>3 DEF FileRead
    <2>5. OneWorkerInv'
      <3>1. \A t : Alone(t)' <=> Alone(t)
        BY <2>2, <2>3 DEF Alone
      <3>2. EndedAlone' <=> EndedAlone
        BY <2>2, <2>3 DEF EndedAlone
      <3> QED
        BY <2>2, <3>1, <3>2 DEF SequentialInv, OneWorkerInv
    <2> QED
      BY <1>1, <2>4, <2>5 DEF SequentialInv
  <1> QED
    BY <1>2, <1>4, <1>5, <1>6 DEF Next

\* With one worker, whatever the file and the room for its commands: none is
\* lost or repeated and they take effect in their order, up to the first that
\* lacks its name (Project_1/main.c:101).
THEOREM OneWorkerSequential == Spec => []OneWorkerIsSequential
  <1>1. SequentialInv => OneWorkerIsSequential
    <2> SUFFICES ASSUME SequentialInv, Cardinality(workers) = 1
                 PROVE  EndedAlone /\ (process = "finished" => InputIsFile)
      BY DEF OneWorkerIsSequential, EndedAlone
    <2>1. TypeOK /\ FileRead
      BY DEF SequentialInv, TInv
    <2>2. IsFiniteSet(workers)
      BY <2>1, PastFinite
    <2>3. PICK t : workers = {t}
      BY <2>2, FS_Singleton
    <2>4. EndedAlone
      BY <2>3 DEF SequentialInv, OneWorkerInv
    <2> QED
      BY <2>1, <2>4, ReadFile
  <1>2. Spec => []SequentialInv
    BY InitSequential, NextSequential, PTL DEF Spec
  <1> QED
    BY <1>1, <1>2, PTL
=============================================================================
