------------------------- MODULE CommandQueueProofs -------------------------
(***************************************************************************)
(* Proofs about CommandQueue, for any number of consumers and slots.       *)
(***************************************************************************)
EXTENDS CommandQueue, FiniteSetTheorems, TLAPS

\* At most one consumer is between removeCommand and the unlock: the mutex sees
\* to that, and in the build without it there is only one consumer.
OneInside ==
  \A c, d \in Consumer :
    pc[c] \in {"remove", "parse", "unlock"} /\ pc[d] \in {"remove", "parse", "unlock"}
      => c = d

\* A consumer that has the address of a slot has that of the last one taken.
SlotIsLast ==
  \A c \in Consumer : pc[c] = "parse" =>
    /\ headQueue > 0
    /\ slot[c] = (headQueue - 1) % MAX_COMMANDS

\* What has been stored is a command.
StoredAreCommands ==
  /\ \A k \in 0..numberCommands-1 : inputCommands[k % MAX_COMMANDS] # Nothing
  /\ pc[Producer] \in {"wait", "lock", "store", "unlock", "post"} => data # Nothing

\* A consumer has no command in hand until it has read the slot.
HandEmpty ==
  \A c \in Consumer :
    pc[c] \in {"wait", "lock", "remove", "parse"} => current[c] = Nothing

\* The inductive invariant.
IInv ==
  /\ TypeOK
  /\ SemaphoresAgree
  /\ MutualExclusion
  /\ OneInside
  /\ SlotIsLast
  /\ StoredAreCommands
  /\ HandEmpty
-----------------------------------------------------------------------------
(* Counting consumers. *)

LEMMA CountIsNat ==
  ASSUME NEW labels
  PROVE  /\ InConsumers(labels) \in Nat
         /\ \A c \in Consumer : pc[c] \in labels => InConsumers(labels) >= 1
  <1> DEFINE S == {c \in Consumer : pc[c] \in labels}
  <1>1. IsFiniteSet(S) /\ Cardinality(S) \in Nat
    BY QueueAssumption, FS_Subset, FS_CardinalityType
  <1>2. Cardinality(S) = 0 <=> S = {}
    BY <1>1, FS_EmptySet
  <1> QED
    BY <1>1, <1>2 DEF InConsumers

\* A consumer that moves leaves one set of places and enters another.
LEMMA CountAfterMove ==
  ASSUME NEW labels, NEW c \in Consumer, NEW to,
         pc \in [Thread -> ProducerLabel \cup ConsumerLabel],
         pc' = [pc EXCEPT ![c] = to]
  PROVE  InConsumers(labels)' = InConsumers(labels)
                                - (IF pc[c] \in labels THEN 1 ELSE 0)
                                + (IF to \in labels THEN 1 ELSE 0)
  <1> DEFINE S == {d \in Consumer : pc[d] \in labels}
             T == {d \in Consumer : pc'[d] \in labels}
             R == S \ {c}
  <1>1. IsFiniteSet(S)
    BY QueueAssumption, FS_Subset
  <1>2. /\ IsFiniteSet(R)
        /\ Cardinality(R) = IF c \in S THEN Cardinality(S) - 1 ELSE Cardinality(S)
    BY <1>1, FS_RemoveElement
  <1>3. T = IF to \in labels THEN R \cup {c} ELSE R
    BY DEF Thread
  <1>4. c \notin R
    OBVIOUS
  <1>5. Cardinality(R \cup {c}) = Cardinality(R) + 1
    BY <1>2, <1>4, FS_AddElement
  <1>6. Cardinality(S) \in Nat /\ Cardinality(R) \in Nat
    BY <1>1, <1>2, FS_CardinalityType
  <1>7. c \in S <=> pc[c] \in labels
    OBVIOUS
  <1> HIDE DEF R, S, T
  <1>8. Cardinality(T) = Cardinality(S) - (IF pc[c] \in labels THEN 1 ELSE 0)
                         + (IF to \in labels THEN 1 ELSE 0)
    BY <1>2, <1>3, <1>5, <1>6, <1>7
  <1> QED
    BY <1>8 DEF InConsumers, S, T

LEMMA CountAfterProducer ==
  ASSUME NEW labels, NEW to,
         pc \in [Thread -> ProducerLabel \cup ConsumerLabel],
         pc' = [pc EXCEPT ![Producer] = to]
  PROVE  InConsumers(labels)' = InConsumers(labels)
  <1>1. \A c \in Consumer : pc'[c] = pc[c]
    BY QueueAssumption DEF Thread
  <1> QED
    BY <1>1 DEF InConsumers
-----------------------------------------------------------------------------
(* The ring. *)

\* Less than one turn of the ring apart, two indices have different slots.
LEMMA DifferentSlots ==
  ASSUME NEW m \in Nat \ {0}, NEW i \in Nat, NEW j \in Nat, i < j, j - i < m
  PROVE  i % m # j % m
  <1> DEFINE p == i \div m
             q == j \div m
  <1>1. /\ p \in Int /\ q \in Int
        /\ i = m * p + (i % m)
        /\ j = m * q + (j % m)
    OBVIOUS
  <1> HIDE DEF p, q
  <1>2. ASSUME i % m = j % m PROVE FALSE
    <2>1. j - i = m * (q - p)
      BY <1>1, <1>2
    <2>2. CASE q - p >= 1
      <3>1. m * (q - p) >= m
        BY <1>1, <2>2
      <3> QED
        BY <2>1, <3>1
    <2>3. CASE q - p <= 0
      <3>1. m * (q - p) <= 0
        BY <1>1, <2>3
      <3> QED
        BY <2>1, <3>1
    <2> QED
      BY <1>1, <2>2, <2>3
  <1> QED
    BY <1>2

LEMMA SlotOfIndex ==
  ASSUME NEW i \in Int
  PROVE  i % MAX_COMMANDS \in 0..MAX_COMMANDS-1
  BY QueueAssumption
-----------------------------------------------------------------------------
(* The invariant is inductive. *)

\* What SemaphoresAgree adds up: the consumers it counts, and the producer.
Taken == InConsumers({"parse", "unlock", "post", "done"})
LetIn == InConsumers({"lock", "remove"})
Filling == InProducer({"lock", "store"})
Announcing == InProducer({"unlock", "post"})

LEMMA CountTypes == Taken \in Nat /\ LetIn \in Nat
  BY CountIsNat DEF Taken, LetIn

LEMMA CountsAfterConsumer ==
  ASSUME TypeOK, NEW c \in Consumer, NEW from, NEW to, Goes(c, from, to)
  PROVE  /\ Taken' = Taken - (IF from \in {"parse", "unlock", "post", "done"} THEN 1 ELSE 0)
                           + (IF to \in {"parse", "unlock", "post", "done"} THEN 1 ELSE 0)
         /\ LetIn' = LetIn - (IF from \in {"lock", "remove"} THEN 1 ELSE 0)
                           + (IF to \in {"lock", "remove"} THEN 1 ELSE 0)
         /\ pc'[Producer] = pc[Producer]
  <1>1. /\ pc \in [Thread -> ProducerLabel \cup ConsumerLabel]
        /\ pc[c] = from
        /\ pc' = [pc EXCEPT ![c] = to]
    BY DEF TypeOK, Goes
  <1>2. Taken' = Taken - (IF from \in {"parse", "unlock", "post", "done"} THEN 1 ELSE 0)
                       + (IF to \in {"parse", "unlock", "post", "done"} THEN 1 ELSE 0)
    BY <1>1, CountAfterMove DEF Taken
  <1>3. LetIn' = LetIn - (IF from \in {"lock", "remove"} THEN 1 ELSE 0)
                       + (IF to \in {"lock", "remove"} THEN 1 ELSE 0)
    BY <1>1, CountAfterMove DEF LetIn
  <1>4. pc'[Producer] = pc[Producer]
    BY <1>1, QueueAssumption DEF Thread
  <1> QED
    BY <1>2, <1>3, <1>4

LEMMA CountsAfterProducer ==
  ASSUME TypeOK, NEW from, NEW to, Goes(Producer, from, to)
  PROVE  /\ Taken' = Taken
         /\ LetIn' = LetIn
         /\ pc[Producer] = from
         /\ pc'[Producer] = to
         /\ \A c \in Consumer : pc'[c] = pc[c]
  <1>1. /\ pc \in [Thread -> ProducerLabel \cup ConsumerLabel]
        /\ pc' = [pc EXCEPT ![Producer] = to]
        /\ pc[Producer] = from
    BY DEF TypeOK, Goes
  <1>2. Taken' = Taken /\ LetIn' = LetIn
    BY <1>1, CountAfterProducer DEF Taken, LetIn
  <1> QED
    BY <1>1, <1>2, QueueAssumption DEF Thread

LEMMA InitIInv == Init => IInv
  <1> SUFFICES ASSUME Init PROVE IInv
    OBVIOUS
  <1> USE QueueAssumption
  <1>1. TypeOK
    <2>1. numberThreads \in Nat
      BY FS_CardinalityType DEF numberThreads
    <2>2. Len(file) \in Nat
      BY DEF Init
    <2> QED
      BY <2>1, <2>2, SlotOfIndex
         DEF Init, init_variables, TypeOK, ProducerLabel, ConsumerLabel, Thread
  <1>2. SemaphoresAgree
    <2>1. \A labels : "wait" \notin labels => InConsumers(labels) = 0
      <3> SUFFICES ASSUME NEW labels, "wait" \notin labels
                   PROVE  InConsumers(labels) = 0
        OBVIOUS
      <3>1. {c \in Consumer : pc[c] \in labels} = {}
        BY DEF Init, Thread
      <3> QED
        BY <3>1, FS_EmptySet DEF InConsumers
    <2>2. InProducer({"lock", "store"}) = 0 /\ InProducer({"unlock", "post"}) = 0
      BY DEF Init, InProducer, Thread
    <2> QED
      BY <2>1, <2>2 DEF Init, init_variables, SemaphoresAgree
  <1>3. MutualExclusion
    BY DEF Init, init_variables, MutualExclusion, Thread
  <1>4. OneInside /\ SlotIsLast /\ HandEmpty
    BY DEF Init, OneInside, SlotIsLast, HandEmpty, Thread
  <1>5. StoredAreCommands
    BY DEF Init, StoredAreCommands, Thread
  <1> QED
    BY <1>1, <1>2, <1>3, <1>4, <1>5 DEF IInv

(* One lemma for the steps of the producer, one for those of a consumer. *)

LEMMA ProducerKeepsIInv ==
  ASSUME IInv, processInput
  PROVE  IInv'
  <1> USE QueueAssumption DEF IInv
  <1>a. /\ numberThreads \in Nat
        /\ Len(file) \in Nat
        /\ file \in Seq(Command \cup {Comment, Invalid})
    BY FS_CardinalityType DEF numberThreads, TypeOK
  <1>1. CASE ReadCommand
    <2>1. /\ Taken' = Taken /\ LetIn' = LetIn
          /\ pc[Producer] = "read"
          /\ pc'[Producer] = "wait"
          /\ \A c \in Consumer : pc'[c] = pc[c]
      BY <1>1, CountsAfterProducer DEF ReadCommand
    <2>2. TypeOK'
      <3>1. /\ pc' \in [Thread -> ProducerLabel \cup ConsumerLabel]
            /\ pc'[Producer] \in ProducerLabel
            /\ \A c \in Consumer : pc'[c] \in ConsumerLabel
        BY <1>1, <2>1 DEF TypeOK, ReadCommand, Goes, ProducerLabel
      <3> QED
        BY <1>1, <1>a, <3>1
           DEF TypeOK, ReadCommand, Line, Goes, Thread, producerVars, consumerVars, ring, sync
    <2>3. SemaphoresAgree'
      BY <1>1, <2>1, CountTypes
         DEF TypeOK, ReadCommand, SemaphoresAgree, Taken, LetIn, InProducer,
             producerVars, consumerVars, ring, sync
    <2>4. MutualExclusion' /\ OneInside' /\ HandEmpty'
      BY <1>1, <2>1
         DEF TypeOK, ReadCommand, MutualExclusion, OneInside, HandEmpty, Thread,
             producerVars, consumerVars, ring, sync
    <2>5. SlotIsLast' /\ StoredAreCommands'
      BY <1>1, <2>1
         DEF TypeOK, ReadCommand, Line, SlotIsLast, StoredAreCommands,
             producerVars, consumerVars, ring, sync
    <2> QED
      BY <2>2, <2>3, <2>4, <2>5
  <1>2. CASE SkipComment
    <2>1. /\ Taken' = Taken /\ LetIn' = LetIn
          /\ pc[Producer] = "read"
          /\ pc'[Producer] = "read"
          /\ \A c \in Consumer : pc'[c] = pc[c]
      BY <1>2, CountsAfterProducer DEF SkipComment
    <2>2. TypeOK'
      <3>1. /\ pc' \in [Thread -> ProducerLabel \cup ConsumerLabel]
            /\ pc'[Producer] \in ProducerLabel
            /\ \A c \in Consumer : pc'[c] \in ConsumerLabel
        BY <1>2, <2>1 DEF TypeOK, SkipComment, Goes, ProducerLabel
      <3> QED
        BY <1>2, <1>a, <3>1
           DEF TypeOK, SkipComment, Goes, Thread, producerVars, consumerVars, ring, sync
    <2>3. SemaphoresAgree'
      BY <1>2, <2>1, CountTypes
         DEF TypeOK, SkipComment, SemaphoresAgree, Taken, LetIn, InProducer,
             producerVars, consumerVars, ring, sync
    <2>4. MutualExclusion' /\ OneInside' /\ HandEmpty'
      BY <1>2, <2>1
         DEF TypeOK, SkipComment, MutualExclusion, OneInside, HandEmpty, Thread,
             producerVars, consumerVars, ring, sync
    <2>5. SlotIsLast' /\ StoredAreCommands'
      BY <1>2, <2>1
         DEF TypeOK, SkipComment, SlotIsLast, StoredAreCommands,
             producerVars, consumerVars, ring, sync
    <2> QED
      BY <2>2, <2>3, <2>4, <2>5
  <1>3. CASE EndOfFile
    <2>1. /\ Taken' = Taken /\ LetIn' = LetIn
          /\ pc[Producer] = "read"
          /\ pc'[Producer] = "end"
          /\ \A c \in Consumer : pc'[c] = pc[c]
      BY <1>3, CountsAfterProducer DEF EndOfFile
    <2>2. TypeOK'
      <3>1. /\ pc' \in [Thread -> ProducerLabel \cup ConsumerLabel]
            /\ pc'[Producer] \in ProducerLabel
            /\ \A c \in Consumer : pc'[c] \in ConsumerLabel
        BY <1>3, <2>1 DEF TypeOK, EndOfFile, Goes, ProducerLabel
      <3> QED
        BY <1>3, <1>a, <3>1
           DEF TypeOK, EndOfFile, Goes, Thread, producerVars, consumerVars, ring, sync
    <2>3. SemaphoresAgree'
      BY <1>3, <2>1, CountTypes
         DEF TypeOK, EndOfFile, SemaphoresAgree, Taken, LetIn, InProducer,
             producerVars, consumerVars, ring, sync
    <2>4. MutualExclusion' /\ OneInside' /\ HandEmpty'
      BY <1>3, <2>1
         DEF TypeOK, EndOfFile, MutualExclusion, OneInside, HandEmpty, Thread,
             producerVars, consumerVars, ring, sync
    <2>5. SlotIsLast' /\ StoredAreCommands'
      BY <1>3, <2>1
         DEF TypeOK, EndOfFile, SlotIsLast, StoredAreCommands,
             producerVars, consumerVars, ring, sync
    <2> QED
      BY <2>2, <2>3, <2>4, <2>5
  <1>4. CASE InsertEnd
    <2>1. /\ Taken' = Taken /\ LetIn' = LetIn
          /\ pc[Producer] = "end"
          /\ pc'[Producer] = "wait"
          /\ \A c \in Consumer : pc'[c] = pc[c]
      BY <1>4, CountsAfterProducer DEF InsertEnd
    <2>2. TypeOK'
      <3>1. /\ pc' \in [Thread -> ProducerLabel \cup ConsumerLabel]
            /\ pc'[Producer] \in ProducerLabel
            /\ \A c \in Consumer : pc'[c] \in ConsumerLabel
        BY <1>4, <2>1 DEF TypeOK, InsertEnd, Goes, ProducerLabel
      <3> QED
        BY <1>4, <1>a, <3>1
           DEF TypeOK, InsertEnd, Goes, Thread, producerVars, consumerVars, ring, sync
    <2>3. SemaphoresAgree'
      BY <1>4, <2>1, CountTypes
         DEF TypeOK, InsertEnd, SemaphoresAgree, Taken, LetIn, InProducer,
             producerVars, consumerVars, ring, sync
    <2>4. MutualExclusion' /\ OneInside' /\ HandEmpty'
      BY <1>4, <2>1
         DEF TypeOK, InsertEnd, MutualExclusion, OneInside, HandEmpty, Thread,
             producerVars, consumerVars, ring, sync
    <2>5. SlotIsLast' /\ StoredAreCommands'
      BY <1>4, <2>1
         DEF TypeOK, InsertEnd, SlotIsLast, StoredAreCommands,
             producerVars, consumerVars, ring, sync
    <2> QED
      BY <2>2, <2>3, <2>4, <2>5
  <1>5. CASE EndsInserted
    <2>1. /\ Taken' = Taken /\ LetIn' = LetIn
          /\ pc[Producer] = "end"
          /\ pc'[Producer] = "done"
          /\ \A c \in Consumer : pc'[c] = pc[c]
      BY <1>5, CountsAfterProducer DEF EndsInserted
    <2>2. TypeOK'
      <3>1. /\ pc' \in [Thread -> ProducerLabel \cup ConsumerLabel]
            /\ pc'[Producer] \in ProducerLabel
            /\ \A c \in Consumer : pc'[c] \in ConsumerLabel
        BY <1>5, <2>1 DEF TypeOK, EndsInserted, Goes, ProducerLabel
      <3> QED
        BY <1>5, <1>a, <3>1
           DEF TypeOK, EndsInserted, Goes, Thread, producerVars, consumerVars, ring, sync
    <2>3. SemaphoresAgree'
      BY <1>5, <2>1, CountTypes
         DEF TypeOK, EndsInserted, SemaphoresAgree, Taken, LetIn, InProducer,
             producerVars, consumerVars, ring, sync
    <2>4. MutualExclusion' /\ OneInside' /\ HandEmpty'
      BY <1>5, <2>1
         DEF TypeOK, EndsInserted, MutualExclusion, OneInside, HandEmpty, Thread,
             producerVars, consumerVars, ring, sync
    <2>5. SlotIsLast' /\ StoredAreCommands'
      BY <1>5, <2>1
         DEF TypeOK, EndsInserted, SlotIsLast, StoredAreCommands,
             producerVars, consumerVars, ring, sync
    <2> QED
      BY <2>2, <2>3, <2>4, <2>5
  <1>6. CASE WaitForSlot
    <2>1. /\ Taken' = Taken /\ LetIn' = LetIn
          /\ pc[Producer] = "wait"
          /\ pc'[Producer] = "lock"
          /\ \A c \in Consumer : pc'[c] = pc[c]
      BY <1>6, CountsAfterProducer DEF WaitForSlot
    <2>2. TypeOK'
      <3>1. /\ pc' \in [Thread -> ProducerLabel \cup ConsumerLabel]
            /\ pc'[Producer] \in ProducerLabel
            /\ \A c \in Consumer : pc'[c] \in ConsumerLabel
        BY <1>6, <2>1 DEF TypeOK, WaitForSlot, Goes, ProducerLabel
      <3> QED
        BY <1>6, <1>a, <3>1
           DEF TypeOK, WaitForSlot, Goes, Thread, producerVars, consumerVars, ring, sync
    <2>3. SemaphoresAgree'
      BY <1>6, <2>1, CountTypes
         DEF TypeOK, WaitForSlot, SemaphoresAgree, Taken, LetIn, InProducer,
             producerVars, consumerVars, ring, sync
    <2>4. MutualExclusion' /\ OneInside' /\ HandEmpty'
      BY <1>6, <2>1
         DEF TypeOK, WaitForSlot, MutualExclusion, OneInside, HandEmpty, Thread,
             producerVars, consumerVars, ring, sync
    <2>5. SlotIsLast' /\ StoredAreCommands'
      BY <1>6, <2>1
         DEF TypeOK, WaitForSlot, SlotIsLast, StoredAreCommands,
             producerVars, consumerVars, ring, sync
    <2> QED
      BY <2>2, <2>3, <2>4, <2>5
  <1>7. CASE Lock(Producer, "store")
    <2>1. /\ Taken' = Taken /\ LetIn' = LetIn
          /\ pc[Producer] = "lock"
          /\ pc'[Producer] = "store"
          /\ \A c \in Consumer : pc'[c] = pc[c]
      BY <1>7, CountsAfterProducer DEF Lock
    <2>2. TypeOK'
      <3>1. /\ pc' \in [Thread -> ProducerLabel \cup ConsumerLabel]
            /\ pc'[Producer] \in ProducerLabel
            /\ \A c \in Consumer : pc'[c] \in ConsumerLabel
        BY <1>7, <2>1 DEF TypeOK, Lock, Goes, ProducerLabel
      <3> QED
        BY <1>7, <1>a, <3>1
           DEF TypeOK, Lock, mutex_lock, Goes, Thread, producerVars, consumerVars, ring, sync
    <2>3. SemaphoresAgree'
      BY <1>7, <2>1, CountTypes
         DEF TypeOK, Lock, SemaphoresAgree, Taken, LetIn, InProducer,
             producerVars, consumerVars, ring, sync
    <2>4. MutualExclusion' /\ OneInside' /\ HandEmpty'
      BY <1>7, <2>1
         DEF TypeOK, Lock, mutex_lock, MutualExclusion, OneInside, HandEmpty, Thread,
             producerVars, consumerVars, ring, sync
    <2>5. SlotIsLast' /\ StoredAreCommands'
      BY <1>7, <2>1
         DEF TypeOK, Lock, SlotIsLast, StoredAreCommands,
             producerVars, consumerVars, ring, sync
    <2> QED
      BY <2>2, <2>3, <2>4, <2>5
  <1>8. CASE StoreCommand
    <2>1. /\ Taken' = Taken /\ LetIn' = LetIn
          /\ pc[Producer] = "store"
          /\ pc'[Producer] = "unlock"
          /\ \A c \in Consumer : pc'[c] = pc[c]
      BY <1>8, CountsAfterProducer DEF StoreCommand
    <2>2. TypeOK'
      <3>1. /\ pc' \in [Thread -> ProducerLabel \cup ConsumerLabel]
            /\ pc'[Producer] \in ProducerLabel
            /\ \A c \in Consumer : pc'[c] \in ConsumerLabel
        BY <1>8, <2>1 DEF TypeOK, StoreCommand, Goes, ProducerLabel
      <3> QED
        BY <1>8, <1>a, <3>1
           DEF TypeOK, StoreCommand, Goes, Thread, producerVars, consumerVars, ring, sync
    <2>3. SemaphoresAgree'
      BY <1>8, <2>1, CountTypes
         DEF TypeOK, StoreCommand, SemaphoresAgree, Taken, LetIn, InProducer,
             producerVars, consumerVars, ring, sync
    <2>4. MutualExclusion' /\ OneInside' /\ HandEmpty'
      BY <1>8, <2>1
         DEF TypeOK, StoreCommand, MutualExclusion, OneInside, HandEmpty, Thread,
             producerVars, consumerVars, ring, sync
    <2>5. SlotIsLast' /\ StoredAreCommands'
      <3>1. SlotIsLast'
        BY <1>8, <2>1
           DEF TypeOK, StoreCommand, SlotIsLast, producerVars, consumerVars, ring, sync
      <3>2. /\ data # Nothing /\ data' = data
            /\ numberCommands \in Nat /\ numberCommands' = numberCommands + 1
            /\ inputCommands \in [0..MAX_COMMANDS-1 -> Command \cup {End, Nothing}]
            /\ inputCommands' = [inputCommands EXCEPT ![numberCommands % MAX_COMMANDS] = data]
        BY <1>8, <2>1 DEF TypeOK, StoreCommand, StoredAreCommands, producerVars
      <3>3. ASSUME NEW k \in 0..numberCommands'-1
            PROVE  inputCommands'[k % MAX_COMMANDS] # Nothing
        <4>1. k % MAX_COMMANDS \in 0..MAX_COMMANDS-1
          <5>1. k \in Int
            BY <3>2
          <5> QED
            BY <5>1, SlotOfIndex
        <4>2. CASE k = numberCommands
          BY <3>2, <4>1, <4>2
        <4>3. CASE k \in 0..numberCommands-1
          <5>1. inputCommands[k % MAX_COMMANDS] # Nothing
            BY <4>3 DEF StoredAreCommands
          <5> QED
            BY <3>2, <4>1, <5>1
        <4> QED
          BY <3>2, <4>2, <4>3
      <3> QED
        BY <3>1, <3>2, <3>3 DEF StoredAreCommands
    <2> QED
      BY <2>2, <2>3, <2>4, <2>5
  <1>9. CASE Unlock(Producer, "post")
    <2>1. /\ Taken' = Taken /\ LetIn' = LetIn
          /\ pc[Producer] = "unlock"
          /\ pc'[Producer] = "post"
          /\ \A c \in Consumer : pc'[c] = pc[c]
      BY <1>9, CountsAfterProducer DEF Unlock
    <2>2. TypeOK'
      <3>1. /\ pc' \in [Thread -> ProducerLabel \cup ConsumerLabel]
            /\ pc'[Producer] \in ProducerLabel
            /\ \A c \in Consumer : pc'[c] \in ConsumerLabel
        BY <1>9, <2>1 DEF TypeOK, Unlock, Goes, ProducerLabel
      <3> QED
        BY <1>9, <1>a, <3>1
           DEF TypeOK, Unlock, mutex_unlock, Goes, Thread, producerVars, consumerVars, ring, sync
    <2>3. SemaphoresAgree'
      BY <1>9, <2>1, CountTypes
         DEF TypeOK, Unlock, SemaphoresAgree, Taken, LetIn, InProducer,
             producerVars, consumerVars, ring, sync
    <2>4. MutualExclusion' /\ OneInside' /\ HandEmpty'
      BY <1>9, <2>1
         DEF TypeOK, Unlock, mutex_unlock, MutualExclusion, OneInside, HandEmpty, Thread,
             producerVars, consumerVars, ring, sync
    <2>5. SlotIsLast' /\ StoredAreCommands'
      BY <1>9, <2>1
         DEF TypeOK, Unlock, SlotIsLast, StoredAreCommands,
             producerVars, consumerVars, ring, sync
    <2> QED
      BY <2>2, <2>3, <2>4, <2>5
  <1>10. CASE PostCommand
    <2>1. /\ Taken' = Taken /\ LetIn' = LetIn
          /\ pc[Producer] = "post"
          /\ pc'[Producer] = IF data = End THEN "end" ELSE "read"
          /\ \A c \in Consumer : pc'[c] = pc[c]
      BY <1>10, CountsAfterProducer DEF PostCommand
    <2>2. TypeOK'
      <3>1. /\ pc' \in [Thread -> ProducerLabel \cup ConsumerLabel]
            /\ pc'[Producer] \in ProducerLabel
            /\ \A c \in Consumer : pc'[c] \in ConsumerLabel
        BY <1>10, <2>1 DEF TypeOK, PostCommand, Goes, ProducerLabel
      <3> QED
        BY <1>10, <1>a, <3>1
           DEF TypeOK, PostCommand, Goes, Thread, producerVars, consumerVars, ring, sync
    <2>3. SemaphoresAgree'
      BY <1>10, <2>1, CountTypes
         DEF TypeOK, PostCommand, SemaphoresAgree, Taken, LetIn, InProducer,
             producerVars, consumerVars, ring, sync
    <2>4. MutualExclusion' /\ OneInside' /\ HandEmpty'
      BY <1>10, <2>1
         DEF TypeOK, PostCommand, MutualExclusion, OneInside, HandEmpty, Thread,
             producerVars, consumerVars, ring, sync
    <2>5. SlotIsLast' /\ StoredAreCommands'
      BY <1>10, <2>1
         DEF TypeOK, PostCommand, SlotIsLast, StoredAreCommands,
             producerVars, consumerVars, ring, sync
    <2> QED
      BY <2>2, <2>3, <2>4, <2>5
  <1>11. CASE errorParse
    <2> USE DEF errorParse, producerVars, consumerVars, ring, sync
    <2>1. TypeOK'
      BY <1>11, <1>a DEF TypeOK
    <2>2. SemaphoresAgree'
      BY <1>11 DEF SemaphoresAgree, InProducer, InConsumers
    <2>3. MutualExclusion' /\ OneInside' /\ SlotIsLast' /\ StoredAreCommands' /\ HandEmpty'
      BY <1>11 DEF MutualExclusion, OneInside, SlotIsLast, StoredAreCommands, HandEmpty
    <2> QED
      BY <2>1, <2>2, <2>3
  <1> QED
    BY <1>1, <1>2, <1>3, <1>4, <1>5, <1>6, <1>7, <1>8, <1>9, <1>10, <1>11 DEF processInput

LEMMA ConsumerKeepsIInv ==
  ASSUME IInv, NEW c \in Consumer, applyCommands(c)
  PROVE  IInv'
  <1> USE QueueAssumption DEF IInv
  <1>a. /\ c \in Thread /\ c # Producer
        /\ \A d \in Consumer : d \in Thread /\ d # Producer
    BY DEF Thread
  <1>b. /\ sem_prod + Filling + (numberCommands - headQueue) + Taken = MAX_COMMANDS
        /\ sem_cons + Announcing + LetIn = numberCommands - headQueue
    BY DEF SemaphoresAgree, Taken, LetIn, Filling, Announcing
  <1>t. /\ sem_prod \in Nat /\ sem_cons \in Nat
        /\ numberCommands \in Nat /\ headQueue \in Nat
        /\ Filling \in Nat /\ Announcing \in Nat
    BY DEF TypeOK, InProducer, Filling, Announcing
  <1>1. CASE WaitForCommand(c)
    <2>1. /\ Taken' = Taken /\ LetIn' = LetIn + 1
          /\ pc'[Producer] = pc[Producer]
          /\ Filling' = Filling
          /\ Announcing' = Announcing
      BY <1>1, CountsAfterConsumer, CountTypes
         DEF WaitForCommand, InProducer, Filling, Announcing
    <2>2. /\ pc[c] = "wait"
          /\ pc' = [pc EXCEPT ![c] = "lock"]
          /\ pc'[c] = "lock"
          /\ \A d \in Consumer : d # c => pc'[d] = pc[d]
      BY <1>1, <1>a DEF TypeOK, WaitForCommand, Goes
    <2>3. TypeOK'
      <3>1. /\ pc' \in [Thread -> ProducerLabel \cup ConsumerLabel]
            /\ pc'[Producer] \in ProducerLabel
            /\ \A d \in Consumer : pc'[d] \in ConsumerLabel
        BY <1>a, <2>1, <2>2 DEF TypeOK, ConsumerLabel
      <3> QED
        BY <1>1, <1>a, <3>1
           DEF TypeOK, WaitForCommand, Goes, producerVars, consumerVars, ring, sync
    <2>4. SemaphoresAgree'
      <3>1. /\ sem_prod' + Filling' + (numberCommands' - headQueue') + Taken' = MAX_COMMANDS
            /\ sem_cons' + Announcing' + LetIn' = numberCommands' - headQueue'
        BY <1>1, <1>b, <1>t, <2>1, CountTypes
           DEF WaitForCommand, producerVars, consumerVars, ring, sync
      <3> QED
        BY <3>1 DEF SemaphoresAgree, Taken, LetIn, Filling, Announcing
    <2>5. MutualExclusion' /\ OneInside'
      BY <1>1, <1>a, <2>1, <2>2
         DEF TypeOK, WaitForCommand, MutualExclusion, OneInside, Thread,
             producerVars, consumerVars, ring, sync
    <2>6. SlotIsLast'
      BY <1>1, <2>1, <2>2
         DEF TypeOK, WaitForCommand, SlotIsLast, OneInside, producerVars, consumerVars, ring, sync
    <2>7. StoredAreCommands' /\ HandEmpty'
      BY <1>1, <2>1, <2>2
         DEF TypeOK, WaitForCommand, StoredAreCommands, HandEmpty, producerVars, consumerVars, ring, sync
    <2> QED
      BY <2>3, <2>4, <2>5, <2>6, <2>7
  <1>2. CASE Lock(c, "remove")
    <2>1. /\ Taken' = Taken /\ LetIn' = LetIn
          /\ pc'[Producer] = pc[Producer]
          /\ Filling' = Filling
          /\ Announcing' = Announcing
      BY <1>2, CountsAfterConsumer, CountTypes
         DEF Lock, InProducer, Filling, Announcing
    <2>2. /\ pc[c] = "lock"
          /\ pc' = [pc EXCEPT ![c] = "remove"]
          /\ pc'[c] = "remove"
          /\ \A d \in Consumer : d # c => pc'[d] = pc[d]
      BY <1>2, <1>a DEF TypeOK, Lock, Goes
    <2>3. TypeOK'
      <3>1. /\ pc' \in [Thread -> ProducerLabel \cup ConsumerLabel]
            /\ pc'[Producer] \in ProducerLabel
            /\ \A d \in Consumer : pc'[d] \in ConsumerLabel
        BY <1>a, <2>1, <2>2 DEF TypeOK, ConsumerLabel
      <3> QED
        BY <1>2, <1>a, <3>1
           DEF TypeOK, Lock, mutex_lock, Goes, producerVars, consumerVars, ring, sync
    <2>4. SemaphoresAgree'
      <3>1. /\ sem_prod' + Filling' + (numberCommands' - headQueue') + Taken' = MAX_COMMANDS
            /\ sem_cons' + Announcing' + LetIn' = numberCommands' - headQueue'
        BY <1>2, <1>b, <1>t, <2>1, CountTypes
           DEF Lock, producerVars, consumerVars, ring, sync
      <3> QED
        BY <3>1 DEF SemaphoresAgree, Taken, LetIn, Filling, Announcing
    <2>5. MutualExclusion' /\ OneInside'
      BY <1>2, <1>a, <2>1, <2>2
         DEF TypeOK, Lock, mutex_lock, MutualExclusion, OneInside, Thread,
             producerVars, consumerVars, ring, sync
    <2>6. SlotIsLast'
      BY <1>2, <2>1, <2>2
         DEF TypeOK, Lock, SlotIsLast, OneInside, producerVars, consumerVars, ring, sync
    <2>7. StoredAreCommands' /\ HandEmpty'
      BY <1>2, <2>1, <2>2
         DEF TypeOK, Lock, StoredAreCommands, HandEmpty, producerVars, consumerVars, ring, sync
    <2> QED
      BY <2>3, <2>4, <2>5, <2>6, <2>7
  <1>3. CASE removeCommand(c)
    <2>1. /\ Taken' = Taken + 1 /\ LetIn' = LetIn - 1
          /\ pc'[Producer] = pc[Producer]
          /\ Filling' = Filling
          /\ Announcing' = Announcing
      BY <1>3, CountsAfterConsumer, CountTypes
         DEF removeCommand, InProducer, Filling, Announcing
    <2>2. /\ pc[c] = "remove"
          /\ pc' = [pc EXCEPT ![c] = "parse"]
          /\ pc'[c] = "parse"
          /\ \A d \in Consumer : d # c => pc'[d] = pc[d]
      BY <1>3, <1>a DEF TypeOK, removeCommand, Goes
    <2>3. TypeOK'
      <3>1. /\ pc' \in [Thread -> ProducerLabel \cup ConsumerLabel]
            /\ pc'[Producer] \in ProducerLabel
            /\ \A d \in Consumer : pc'[d] \in ConsumerLabel
        BY <1>a, <2>1, <2>2 DEF TypeOK, ConsumerLabel
      <3> QED
        BY <1>3, <1>a, <3>1
           DEF TypeOK, removeCommand, Goes, producerVars, consumerVars, ring, sync
    <2>4. SemaphoresAgree'
      <3>1. /\ sem_prod' + Filling' + (numberCommands' - headQueue') + Taken' = MAX_COMMANDS
            /\ sem_cons' + Announcing' + LetIn' = numberCommands' - headQueue'
        BY <1>3, <1>b, <1>t, <2>1, CountTypes
           DEF removeCommand, producerVars, consumerVars, ring, sync
      <3> QED
        BY <3>1 DEF SemaphoresAgree, Taken, LetIn, Filling, Announcing
    <2>5. MutualExclusion' /\ OneInside'
      BY <1>3, <1>a, <2>1, <2>2
         DEF TypeOK, removeCommand, MutualExclusion, OneInside, Thread,
             producerVars, consumerVars, ring, sync
    <2>6. SlotIsLast'
      BY <1>3, <2>1, <2>2
         DEF TypeOK, removeCommand, SlotIsLast, OneInside, producerVars, consumerVars, ring, sync
    <2>7. StoredAreCommands' /\ HandEmpty'
      BY <1>3, <2>1, <2>2
         DEF TypeOK, removeCommand, StoredAreCommands, HandEmpty, producerVars, consumerVars, ring, sync
    <2> QED
      BY <2>3, <2>4, <2>5, <2>6, <2>7
  <1>4. CASE Unlock(c, IF current[c] = End THEN "done" ELSE "post")
    <2>1. /\ Taken' = Taken /\ LetIn' = LetIn
          /\ pc'[Producer] = pc[Producer]
          /\ Filling' = Filling
          /\ Announcing' = Announcing
      BY <1>4, CountsAfterConsumer, CountTypes
         DEF Unlock, InProducer, Filling, Announcing
    <2>2. /\ pc[c] = "unlock"
          /\ pc' = [pc EXCEPT ![c] = IF current[c] = End THEN "done" ELSE "post"]
          /\ pc'[c] = IF current[c] = End THEN "done" ELSE "post"
          /\ \A d \in Consumer : d # c => pc'[d] = pc[d]
      BY <1>4, <1>a DEF TypeOK, Unlock, Goes
    <2>3. TypeOK'
      <3>1. /\ pc' \in [Thread -> ProducerLabel \cup ConsumerLabel]
            /\ pc'[Producer] \in ProducerLabel
            /\ \A d \in Consumer : pc'[d] \in ConsumerLabel
        BY <1>a, <2>1, <2>2 DEF TypeOK, ConsumerLabel
      <3> QED
        BY <1>4, <1>a, <3>1
           DEF TypeOK, Unlock, mutex_unlock, Goes, producerVars, consumerVars, ring, sync
    <2>4. SemaphoresAgree'
      <3>1. /\ sem_prod' + Filling' + (numberCommands' - headQueue') + Taken' = MAX_COMMANDS
            /\ sem_cons' + Announcing' + LetIn' = numberCommands' - headQueue'
        BY <1>4, <1>b, <1>t, <2>1, CountTypes
           DEF Unlock, producerVars, consumerVars, ring, sync
      <3> QED
        BY <3>1 DEF SemaphoresAgree, Taken, LetIn, Filling, Announcing
    <2>5. MutualExclusion' /\ OneInside'
      BY <1>4, <1>a, <2>1, <2>2
         DEF TypeOK, Unlock, mutex_unlock, MutualExclusion, OneInside, Thread,
             producerVars, consumerVars, ring, sync
    <2>6. SlotIsLast'
      BY <1>4, <2>1, <2>2
         DEF TypeOK, Unlock, SlotIsLast, OneInside, producerVars, consumerVars, ring, sync
    <2>7. StoredAreCommands' /\ HandEmpty'
      BY <1>4, <2>1, <2>2
         DEF TypeOK, Unlock, StoredAreCommands, HandEmpty, producerVars, consumerVars, ring, sync
    <2> QED
      BY <2>3, <2>4, <2>5, <2>6, <2>7
  <1>5. CASE GiveSlotBack(c)
    <2>1. /\ Taken' = Taken - 1 /\ LetIn' = LetIn
          /\ pc'[Producer] = pc[Producer]
          /\ Filling' = Filling
          /\ Announcing' = Announcing
      BY <1>5, CountsAfterConsumer, CountTypes
         DEF GiveSlotBack, InProducer, Filling, Announcing
    <2>2. /\ pc[c] = "post"
          /\ pc' = [pc EXCEPT ![c] = "apply"]
          /\ pc'[c] = "apply"
          /\ \A d \in Consumer : d # c => pc'[d] = pc[d]
      BY <1>5, <1>a DEF TypeOK, GiveSlotBack, Goes
    <2>3. TypeOK'
      <3>1. /\ pc' \in [Thread -> ProducerLabel \cup ConsumerLabel]
            /\ pc'[Producer] \in ProducerLabel
            /\ \A d \in Consumer : pc'[d] \in ConsumerLabel
        BY <1>a, <2>1, <2>2 DEF TypeOK, ConsumerLabel
      <3> QED
        BY <1>5, <1>a, <3>1
           DEF TypeOK, GiveSlotBack, Goes, producerVars, consumerVars, ring, sync
    <2>4. SemaphoresAgree'
      <3>1. /\ sem_prod' + Filling' + (numberCommands' - headQueue') + Taken' = MAX_COMMANDS
            /\ sem_cons' + Announcing' + LetIn' = numberCommands' - headQueue'
        BY <1>5, <1>b, <1>t, <2>1, CountTypes
           DEF GiveSlotBack, producerVars, consumerVars, ring, sync
      <3> QED
        BY <3>1 DEF SemaphoresAgree, Taken, LetIn, Filling, Announcing
    <2>5. MutualExclusion' /\ OneInside'
      BY <1>5, <1>a, <2>1, <2>2
         DEF TypeOK, GiveSlotBack, MutualExclusion, OneInside, Thread,
             producerVars, consumerVars, ring, sync
    <2>6. SlotIsLast'
      BY <1>5, <2>1, <2>2
         DEF TypeOK, GiveSlotBack, SlotIsLast, OneInside, producerVars, consumerVars, ring, sync
    <2>7. StoredAreCommands' /\ HandEmpty'
      BY <1>5, <2>1, <2>2
         DEF TypeOK, GiveSlotBack, StoredAreCommands, HandEmpty, producerVars, consumerVars, ring, sync
    <2> QED
      BY <2>3, <2>4, <2>5, <2>6, <2>7
  <1>6. CASE ParseCommand(c)
    <2>1. /\ Taken' = Taken /\ LetIn' = LetIn
          /\ pc'[Producer] = pc[Producer]
          /\ Filling' = Filling
          /\ Announcing' = Announcing
      BY <1>6, CountsAfterConsumer, CountTypes
         DEF ParseCommand, InProducer, Filling, Announcing
    <2>2. /\ pc[c] = "parse"
          /\ pc' = [pc EXCEPT ![c] = "unlock"]
          /\ pc'[c] = "unlock"
          /\ \A d \in Consumer : d # c => pc'[d] = pc[d]
      BY <1>6, <1>a DEF TypeOK, ParseCommand, Goes
    <2>3. TypeOK'
      <3>1. /\ pc' \in [Thread -> ProducerLabel \cup ConsumerLabel]
            /\ pc'[Producer] \in ProducerLabel
            /\ \A d \in Consumer : pc'[d] \in ConsumerLabel
        BY <1>a, <2>1, <2>2 DEF TypeOK, ConsumerLabel
      <3>2. inputCommands[slot[c]] \in Command \cup {End}
        <4>1. numberCommands - headQueue \in Nat
          BY <1>b, CountTypes
         DEF TypeOK, InProducer, Filling, Announcing
        <4>2. headQueue - 1 \in 0..numberCommands-1 /\ slot[c] = (headQueue - 1) % MAX_COMMANDS
          BY <2>2, <4>1 DEF TypeOK, SlotIsLast
        <4>3. inputCommands[slot[c]] # Nothing
          BY <4>2 DEF StoredAreCommands
        <4> QED
          BY <4>3 DEF TypeOK
      <3>3. current' \in [Consumer -> Command \cup {End, Nothing}] /\ applied' \in Seq(Command)
        BY <1>6, <3>2 DEF TypeOK, ParseCommand
      <3> QED
        BY <1>6, <3>1, <3>3
           DEF TypeOK, ParseCommand, Goes, producerVars, ring, sync
    <2>4. SemaphoresAgree'
      <3>1. /\ sem_prod' + Filling' + (numberCommands' - headQueue') + Taken' = MAX_COMMANDS
            /\ sem_cons' + Announcing' + LetIn' = numberCommands' - headQueue'
        BY <1>6, <1>b, <1>t, <2>1, CountTypes
           DEF ParseCommand, producerVars, consumerVars, ring, sync
      <3> QED
        BY <3>1 DEF SemaphoresAgree, Taken, LetIn, Filling, Announcing
    <2>5. MutualExclusion' /\ OneInside'
      BY <1>6, <1>a, <2>1, <2>2
         DEF TypeOK, ParseCommand, MutualExclusion, OneInside, Thread,
             producerVars, consumerVars, ring, sync
    <2>6. SlotIsLast'
      BY <1>6, <2>1, <2>2
         DEF TypeOK, ParseCommand, SlotIsLast, OneInside, producerVars, consumerVars, ring, sync
    <2>7. StoredAreCommands' /\ HandEmpty'
      BY <1>6, <2>1, <2>2
         DEF TypeOK, ParseCommand, StoredAreCommands, HandEmpty, producerVars, consumerVars, ring, sync
    <2> QED
      BY <2>3, <2>4, <2>5, <2>6, <2>7
  <1>7. CASE Apply(c)
    <2>1. /\ Taken' = Taken /\ LetIn' = LetIn
          /\ pc'[Producer] = pc[Producer]
          /\ Filling' = Filling
          /\ Announcing' = Announcing
      BY <1>7, CountsAfterConsumer, CountTypes
         DEF Apply, InProducer, Filling, Announcing
    <2>2. /\ pc[c] = "apply"
          /\ pc' = [pc EXCEPT ![c] = "wait"]
          /\ pc'[c] = "wait"
          /\ \A d \in Consumer : d # c => pc'[d] = pc[d]
      BY <1>7, <1>a DEF TypeOK, Apply, Goes
    <2>3. TypeOK'
      <3>1. /\ pc' \in [Thread -> ProducerLabel \cup ConsumerLabel]
            /\ pc'[Producer] \in ProducerLabel
            /\ \A d \in Consumer : pc'[d] \in ConsumerLabel
        BY <1>a, <2>1, <2>2 DEF TypeOK, ConsumerLabel
      <3> QED
        BY <1>7, <1>a, <3>1
           DEF TypeOK, Apply, Goes, producerVars, consumerVars, ring, sync
    <2>4. SemaphoresAgree'
      <3>1. /\ sem_prod' + Filling' + (numberCommands' - headQueue') + Taken' = MAX_COMMANDS
            /\ sem_cons' + Announcing' + LetIn' = numberCommands' - headQueue'
        BY <1>7, <1>b, <1>t, <2>1, CountTypes
           DEF Apply, producerVars, consumerVars, ring, sync
      <3> QED
        BY <3>1 DEF SemaphoresAgree, Taken, LetIn, Filling, Announcing
    <2>5. MutualExclusion' /\ OneInside'
      BY <1>7, <1>a, <2>1, <2>2
         DEF TypeOK, Apply, MutualExclusion, OneInside, Thread,
             producerVars, consumerVars, ring, sync
    <2>6. SlotIsLast'
      BY <1>7, <2>1, <2>2
         DEF TypeOK, Apply, SlotIsLast, OneInside, producerVars, consumerVars, ring, sync
    <2>7. StoredAreCommands' /\ HandEmpty'
      BY <1>7, <2>1, <2>2
         DEF TypeOK, Apply, StoredAreCommands, HandEmpty, producerVars, consumerVars, ring, sync
    <2> QED
      BY <2>3, <2>4, <2>5, <2>6, <2>7
  <1> QED
    BY <1>1, <1>2, <1>3, <1>4, <1>5, <1>6, <1>7 DEF applyCommands, TakeCommand

LEMMA NextIInv == IInv /\ [Next]_vars => IInv'
  <1> SUFFICES ASSUME IInv, [Next]_vars PROVE IInv'
    OBVIOUS
  <1> USE DEF vars, producerVars, consumerVars, ring, sync
  <1>1. CASE processInput
    BY <1>1, ProducerKeepsIInv
  <1>2. ASSUME NEW c \in Consumer, applyCommands(c)
        PROVE  IInv'
    BY <1>2, ConsumerKeepsIInv
  <1>3. CASE JoinAll
    <2>1. TypeOK'
      BY <1>3 DEF IInv, JoinAll, TypeOK
    <2>2. SemaphoresAgree'
      BY <1>3 DEF IInv, JoinAll, SemaphoresAgree, InProducer, InConsumers
    <2>3. MutualExclusion' /\ OneInside' /\ SlotIsLast' /\ StoredAreCommands' /\ HandEmpty'
      BY <1>3 DEF IInv, JoinAll, MutualExclusion, OneInside, SlotIsLast, StoredAreCommands,
             HandEmpty
    <2> QED
      BY <2>1, <2>2, <2>3 DEF IInv
  <1>4. CASE UNCHANGED vars
    <2>1. TypeOK'
      BY <1>4 DEF IInv, TypeOK
    <2>2. SemaphoresAgree'
      BY <1>4 DEF IInv, SemaphoresAgree, InProducer, InConsumers
    <2>3. MutualExclusion' /\ OneInside' /\ SlotIsLast' /\ StoredAreCommands' /\ HandEmpty'
      BY <1>4 DEF IInv, MutualExclusion, OneInside, SlotIsLast, StoredAreCommands,
             HandEmpty
    <2> QED
      BY <2>1, <2>2, <2>3 DEF IInv
  <1> QED
    BY <1>1, <1>2, <1>3, <1>4 DEF Next, Exited

THEOREM Invariance == Spec => []IInv
  <1> QED
    BY InitIInv, NextIInv, PTL DEF Spec
-----------------------------------------------------------------------------
(* What follows from it. *)

\* The variables of main.c keep their types, numberCommands and headQueue stay
\* naturals and no slot outside the ring is named.
THEOREM TypeCorrect == Spec => []TypeOK
  <1>1. IInv => TypeOK
    BY DEF IInv
  <1> QED
    BY <1>1, Invariance, PTL

\* However many consumers there are, the two semaphores count what is in the
\* ring (insertCommand, removeCommand and the posts of applyCommands).
THEOREM SemaphoresCorrect == Spec => []SemaphoresAgree
  <1>1. IInv => SemaphoresAgree
    BY DEF IInv
  <1> QED
    BY <1>1, Invariance, PTL

\* commandsLock keeps every other thread out of insertCommand and removeCommand.
THEOREM MutexCorrect == Spec => []MutualExclusion
  <1>1. IInv => MutualExclusion
    BY DEF IInv
  <1> QED
    BY <1>1, Invariance, PTL

\* The producer and the consumers are never at one slot, whatever the number of
\* slots and in every build: while a consumer still reads its slot it has not
\* given it back, and the producer has been let in for another.
LEMMA SlotsApart == IInv => NoSlotRace
  <1> SUFFICES ASSUME IInv, NEW c \in Consumer, pc[c] = "parse"
               PROVE  /\ pc[Producer] \in {"lock", "store"}
                           => numberCommands % MAX_COMMANDS # slot[c]
                      /\ \A d \in Consumer : d # c /\ pc[d] = "parse" => slot[d] # slot[c]
    BY DEF NoSlotRace
  <1> USE QueueAssumption DEF IInv
  <1>1. Taken \in Nat /\ Taken >= 1
    BY CountIsNat DEF Taken
  <1>2. numberCommands - headQueue >= 0
    <2>1. sem_cons + Announcing + LetIn = numberCommands - headQueue
      BY DEF SemaphoresAgree, LetIn, Announcing
    <2> QED
      BY <2>1, CountTypes
         DEF TypeOK, InProducer, Announcing
  <1>3. headQueue > 0 /\ slot[c] = (headQueue - 1) % MAX_COMMANDS
    BY DEF SlotIsLast
  <1>4. ASSUME pc[Producer] \in {"lock", "store"}
        PROVE  numberCommands % MAX_COMMANDS # slot[c]
    <2>1. sem_prod + 1 + (numberCommands - headQueue) + Taken = MAX_COMMANDS
      BY <1>4 DEF SemaphoresAgree, Taken, InProducer
    <2>2. /\ headQueue - 1 \in Nat /\ numberCommands \in Nat
          /\ headQueue - 1 < numberCommands
          /\ numberCommands - (headQueue - 1) < MAX_COMMANDS
      BY <1>1, <1>2, <1>3, <2>1 DEF TypeOK
    <2>3. (headQueue - 1) % MAX_COMMANDS # numberCommands % MAX_COMMANDS
      BY <2>2, DifferentSlots
    <2> QED
      BY <1>3, <2>3
  <1>5. \A d \in Consumer : pc[d] = "parse" => d = c
    BY DEF OneInside
  <1> QED
    BY <1>4, <1>5

THEOREM NoRace == Spec => []NoSlotRace
  <1> QED
    BY SlotsApart, Invariance, PTL
-----------------------------------------------------------------------------
(* CommandQueue implements BoundedQueue. *)

\* What is in the ring, as a sequence.
LEMMA QueueBarType ==
  ASSUME IInv
  PROVE  /\ numberCommands - headQueue \in 0..MAX_COMMANDS
         /\ Len(queueBar) = numberCommands - headQueue
         /\ queueBar \in Seq(Command \cup {End, Nothing})
  <1> USE QueueAssumption DEF IInv
  <1>1. /\ sem_prod + Filling + (numberCommands - headQueue) + Taken = MAX_COMMANDS
        /\ sem_cons + Announcing + LetIn = numberCommands - headQueue
    BY DEF SemaphoresAgree, Taken, LetIn, Filling, Announcing
  <1>2. /\ sem_prod \in Nat /\ sem_cons \in Nat
        /\ numberCommands \in Nat /\ headQueue \in Nat
        /\ Filling \in Nat /\ Announcing \in Nat
    BY DEF TypeOK, InProducer, Filling, Announcing
  <1>3. numberCommands - headQueue \in 0..MAX_COMMANDS
    BY <1>1, <1>2, CountTypes
  <1>4. \A i \in 1..numberCommands - headQueue :
          inputCommands[(headQueue + i - 1) % MAX_COMMANDS] \in Command \cup {End, Nothing}
    <2> SUFFICES ASSUME NEW i \in 1..numberCommands - headQueue
                 PROVE  inputCommands[(headQueue + i - 1) % MAX_COMMANDS]
                          \in Command \cup {End, Nothing}
      OBVIOUS
    <2>1. headQueue + i - 1 \in Int
      BY <1>2
    <2> QED
      BY <2>1, SlotOfIndex DEF TypeOK
  <1> DEFINE n == numberCommands - headQueue
             q(i) == inputCommands[(headQueue + i - 1) % MAX_COMMANDS]
  <1>5. queueBar = [i \in 1..n |-> q(i)]
    BY DEF queueBar
  <1>6. n \in Nat /\ \A i \in 1..n : q(i) \in Command \cup {End, Nothing}
    BY <1>3, <1>4
  <1> HIDE DEF n, q
  <1>7. Len(queueBar) = n /\ queueBar \in Seq(Command \cup {End, Nothing})
    BY <1>5, <1>6
  <1> QED
    BY <1>3, <1>7 DEF n

LEMMA InitRefines == Init => Queue!Init
  <1> SUFFICES ASSUME Init PROVE Queue!Init
    OBVIOUS
  <1>1. IInv
    BY InitIInv
  <1>2. Len(queueBar) = 0 /\ queueBar \in Seq(Command \cup {End, Nothing})
    BY <1>1, QueueBarType DEF Init
  <1>3. queueBar = <<>>
    BY <1>2
  <1>4. currentBar = [c \in Consumer |-> Nothing]
    BY QueueAssumption DEF Init, currentBar, Thread
  <1> QED
    BY <1>3, <1>4 DEF Queue!Init

\* insertCommand puts a command at the end of the queue.
LEMMA StoreRefines == IInv /\ StoreCommand => Queue!Put
  <1> SUFFICES ASSUME IInv, StoreCommand PROVE Queue!Put
    OBVIOUS
  <1> USE QueueAssumption
  <1> DEFINE n == numberCommands - headQueue
  <1>1. /\ numberCommands \in Nat /\ headQueue \in Nat
        /\ numberCommands' = numberCommands + 1 /\ headQueue' = headQueue
        /\ inputCommands \in [0..MAX_COMMANDS-1 -> Command \cup {End, Nothing}]
        /\ inputCommands' = [inputCommands EXCEPT ![numberCommands % MAX_COMMANDS] = data]
    BY DEF IInv, TypeOK, StoreCommand
  <1>s. numberCommands % MAX_COMMANDS \in 0..MAX_COMMANDS-1
    <2>1. numberCommands \in Int
      BY <1>1
    <2> QED
      BY <2>1, SlotOfIndex
  <1>2. n \in 0..MAX_COMMANDS-1
    <2>1. sem_prod + 1 + n + Taken = MAX_COMMANDS
      BY DEF IInv, SemaphoresAgree, StoreCommand, Goes, InProducer, Taken
    <2> QED
      BY <1>1, <2>1, QueueBarType, CountTypes DEF IInv, TypeOK
  <1>3. data \in Command \cup {End}
    BY DEF IInv, TypeOK, StoredAreCommands, StoreCommand, Goes
  <1>4. ASSUME NEW i \in 1..n
        PROVE  inputCommands'[(headQueue + i - 1) % MAX_COMMANDS]
                 = inputCommands[(headQueue + i - 1) % MAX_COMMANDS]
    <2>1. /\ headQueue + i - 1 \in Nat
          /\ headQueue + i - 1 < numberCommands
          /\ numberCommands - (headQueue + i - 1) < MAX_COMMANDS
      BY <1>1, <1>2
    <2>2. (headQueue + i - 1) % MAX_COMMANDS # numberCommands % MAX_COMMANDS
      BY <1>1, <2>1, DifferentSlots
    <2>3. (headQueue + i - 1) % MAX_COMMANDS \in 0..MAX_COMMANDS-1
      <3>1. headQueue + i - 1 \in Int
        BY <2>1
      <3> QED
        BY <3>1, SlotOfIndex
    <2> QED
      BY <1>1, <2>2, <2>3
  <1>5. inputCommands'[numberCommands % MAX_COMMANDS] = data
    BY <1>1, <1>s
  <1>6. queueBar' = Append(queueBar, data)
    <2> DEFINE q(i) == inputCommands[(headQueue + i - 1) % MAX_COMMANDS]
               r(i) == inputCommands'[(headQueue + i - 1) % MAX_COMMANDS]
    <2>1. queueBar = [i \in 1..n |-> q(i)] /\ n \in Nat
      BY <1>2 DEF queueBar
    <2>2. queueBar' = [i \in 1..n+1 |-> r(i)]
      <3>1. numberCommands' - headQueue' = n + 1
        BY <1>1
      <3> QED
        BY <1>1, <3>1 DEF queueBar
    <2>3. \A i \in 1..n : r(i) = q(i)
      BY <1>4
    <2>4. r(n + 1) = data
      <3>1. headQueue + (n + 1) - 1 = numberCommands
        BY <1>1
      <3> QED
        BY <1>5, <3>1
    <2>5. queueBar \in Seq(Command \cup {End, Nothing}) /\ Len(queueBar) = n
      BY QueueBarType
    <2> HIDE DEF n, q, r
    <2> QED
      BY <2>1, <2>2, <2>3, <2>4, <2>5
  <1>7. currentBar' = currentBar
    <2>1. ASSUME NEW c \in Consumer
          PROVE  /\ pc'[c] = pc[c] /\ current'[c] = current[c] /\ slot' = slot
                 /\ pc[c] = "parse" => inputCommands'[slot[c]] = inputCommands[slot[c]]
      <3>1. pc'[c] = pc[c] /\ current'[c] = current[c] /\ slot' = slot
        BY DEF StoreCommand, Goes, IInv, TypeOK, consumerVars, Thread
      <3>2. pc[c] = "parse" => numberCommands % MAX_COMMANDS # slot[c]
        BY SlotsApart DEF NoSlotRace, StoreCommand, Goes
      <3>3. slot[c] \in 0..MAX_COMMANDS-1
        BY DEF IInv, TypeOK
      <3> QED
        BY <1>1, <3>1, <3>2, <3>3
    <2> QED
      BY <2>1 DEF currentBar
  <1>8. Len(queueBar) < MAX_COMMANDS
    BY <1>2, QueueBarType
  <1> QED
    BY <1>3, <1>6, <1>7, <1>8 DEF Queue!Put

\* removeCommand takes the oldest one: from then on the others see the slot
\* as empty and the command as the consumer's.
LEMMA RemoveRefines ==
  ASSUME IInv, NEW c \in Consumer, removeCommand(c)
  PROVE  Queue!Take(c)
  <1> USE QueueAssumption
  <1> DEFINE n == numberCommands - headQueue
             q(i) == inputCommands[(headQueue + i - 1) % MAX_COMMANDS]
             r(i) == inputCommands[(headQueue' + i - 1) % MAX_COMMANDS]
  <1>1. /\ numberCommands \in Nat /\ headQueue \in Nat
        /\ numberCommands' = numberCommands /\ headQueue' = headQueue + 1
        /\ inputCommands' = inputCommands
        /\ current' = current
    BY DEF IInv, TypeOK, removeCommand
  <1>2. n \in Nat /\ n >= 1
    <2>1. n = sem_cons + Announcing + LetIn
      BY DEF IInv, SemaphoresAgree, Announcing, LetIn
    <2>2. LetIn >= 1
      BY CountIsNat DEF LetIn, removeCommand, Goes
    <2>3. sem_cons \in Nat /\ Announcing \in Nat /\ LetIn \in Nat
      BY CountTypes DEF IInv, TypeOK, Announcing, InProducer
    <2> HIDE DEF n
    <2> QED
      BY <2>1, <2>2, <2>3
  <1>3. queueBar = [i \in 1..n |-> q(i)] /\ queueBar \in Seq(Command \cup {End, Nothing})
    BY QueueBarType DEF queueBar
  <1>4. queueBar' = [i \in 1..n-1 |-> r(i)]
    <2>1. numberCommands' - headQueue' = n - 1
      BY <1>1
    <2> QED
      BY <1>1, <2>1 DEF queueBar
  <1>5. \A i \in 1..n-1 : r(i) = q(i + 1)
    <2> SUFFICES ASSUME NEW i \in 1..n-1 PROVE r(i) = q(i + 1)
      OBVIOUS
    <2>1. headQueue' + i - 1 = headQueue + (i + 1) - 1
      BY <1>1, <1>2
    <2> QED
      BY <2>1
  <1>6. q(1) = inputCommands[headQueue % MAX_COMMANDS]
    <2>1. headQueue + 1 - 1 = headQueue
      BY <1>1
    <2> QED
      BY <2>1
  <1>7. queueBar # <<>> /\ queueBar' = Tail(queueBar) /\ Head(queueBar) = q(1)
    <2> HIDE DEF n, q, r
    <2> QED
      BY <1>2, <1>3, <1>4, <1>5
  <1>8. currentBar[c] = Nothing
    BY DEF currentBar, IInv, HandEmpty, removeCommand, Goes
  <1>9. currentBar' = [currentBar EXCEPT ![c] = Head(queueBar)]
    <2>1. /\ pc'[c] = "parse" /\ slot'[c] = headQueue % MAX_COMMANDS
          /\ \A d \in Consumer : d # c => pc'[d] = pc[d] /\ slot'[d] = slot[d]
      BY DEF IInv, TypeOK, removeCommand, Goes, Thread
    <2>2. currentBar' = [d \in Consumer |->
             IF pc'[d] = "parse" THEN inputCommands[slot'[d]] ELSE current[d]]
      BY <1>1 DEF currentBar
    <2>3. currentBar'[c] = Head(queueBar)
      BY <1>6, <1>7, <2>1, <2>2
    <2>4. \A d \in Consumer : d # c => currentBar'[d] = currentBar[d]
      BY <2>1, <2>2 DEF currentBar
    <2> QED
      BY <2>2, <2>3, <2>4 DEF currentBar
  <1> QED
    BY <1>7, <1>8, <1>9 DEF Queue!Take

\* Every other step of a consumer leaves the queue alone, and only Apply puts
\* down the command it had in hand.
LEMMA OtherStepsRefine ==
  ASSUME IInv, NEW c \in Consumer,
         \/ WaitForCommand(c) \/ Lock(c, "remove")
         \/ Unlock(c, IF current[c] = End THEN "done" ELSE "post")
         \/ GiveSlotBack(c) \/ ParseCommand(c) \/ Apply(c)
  PROVE  UNCHANGED <<queueBar, currentBar>> \/ Queue!Forget(c)
  <1> USE DEF IInv, TypeOK, Goes, Thread, producerVars, consumerVars, ring, sync
  <1>1. queueBar' = queueBar
    BY DEF queueBar, WaitForCommand, Lock, Unlock, GiveSlotBack, ParseCommand, Apply
  <1>2. CASE \/ WaitForCommand(c) \/ Lock(c, "remove") \/ GiveSlotBack(c)
             \/ Unlock(c, IF current[c] = End THEN "done" ELSE "post")
    <2>1. /\ pc[c] # "parse" /\ pc'[c] # "parse"
          /\ \A d \in Consumer : d # c => pc'[d] = pc[d]
          /\ UNCHANGED <<current, slot, inputCommands>>
      BY <1>2 DEF WaitForCommand, Lock, GiveSlotBack, Unlock
    <2>2. \A d \in Consumer : (pc'[d] = "parse") <=> (pc[d] = "parse")
      BY <2>1
    <2>3. currentBar' = currentBar
      BY <2>1, <2>2 DEF currentBar
    <2> QED
      BY <1>1, <2>3
  <1>3. CASE ParseCommand(c)
    <2>1. /\ pc[c] = "parse" /\ pc'[c] # "parse"
          /\ \A d \in Consumer : d # c => pc'[d] = pc[d] /\ current'[d] = current[d]
          /\ current'[c] = inputCommands[slot[c]]
          /\ UNCHANGED <<slot, inputCommands>>
      BY <1>3 DEF ParseCommand
    <2>2. currentBar' = currentBar
      BY <2>1 DEF currentBar
    <2> QED
      BY <1>1, <2>2
  <1>4. CASE Apply(c)
    <2>1. /\ pc[c] # "parse" /\ pc'[c] # "parse"
          /\ \A d \in Consumer : d # c => pc'[d] = pc[d] /\ current'[d] = current[d]
          /\ current'[c] = Nothing
          /\ UNCHANGED <<slot, inputCommands>>
      BY <1>4 DEF Apply
    <2>2. currentBar' = [currentBar EXCEPT ![c] = Nothing]
      BY <2>1 DEF currentBar
    <2> QED
      BY <1>1, <2>2 DEF Queue!Forget
  <1> QED
    BY <1>2, <1>3, <1>4

LEMMA NextRefines ==
  IInv /\ [Next]_vars => [Queue!Next]_<<queueBar, currentBar>>
  <1> SUFFICES ASSUME IInv, [Next]_vars
               PROVE  [Queue!Next]_<<queueBar, currentBar>>
    OBVIOUS
  <1> USE QueueAssumption DEF producerVars, consumerVars, ring, sync
  <1>1. CASE StoreCommand
    BY <1>1, StoreRefines DEF Queue!Next
  <1>2. CASE \/ ReadCommand \/ SkipComment \/ EndOfFile \/ InsertEnd \/ EndsInserted
             \/ WaitForSlot \/ Lock(Producer, "store") \/ Unlock(Producer, "post")
             \/ PostCommand
    <2>1. /\ \A c \in Consumer : pc'[c] = pc[c]
          /\ UNCHANGED <<inputCommands, numberCommands, headQueue, slot, current>>
      BY <1>2
         DEF IInv, TypeOK, Goes, Thread, ReadCommand, SkipComment, EndOfFile, InsertEnd,
             EndsInserted, WaitForSlot, Lock, Unlock, PostCommand
    <2> QED
      BY <2>1 DEF queueBar, currentBar
  <1>3. CASE errorParse
    BY <1>3 DEF errorParse, queueBar, currentBar
  <1>4. ASSUME NEW c \in Consumer, applyCommands(c)
        PROVE  [Queue!Next]_<<queueBar, currentBar>>
    <2>1. CASE removeCommand(c)
      BY <2>1, RemoveRefines DEF Queue!Next
    <2>2. CASE ~removeCommand(c)
      <3>1. UNCHANGED <<queueBar, currentBar>> \/ Queue!Forget(c)
        BY <1>4, <2>2, OtherStepsRefine DEF applyCommands, TakeCommand
      <3> QED
        BY <3>1 DEF Queue!Next
    <2> QED
      BY <2>1, <2>2
  <1>5. CASE JoinAll
    BY <1>5 DEF JoinAll, queueBar, currentBar
  <1>6. CASE UNCHANGED vars
    BY <1>6 DEF vars, queueBar, currentBar
  <1> QED
    BY <1>1, <1>2, <1>3, <1>4, <1>5, <1>6 DEF Next, processInput, Exited

\* With any number of slots and consumers, insertCommand and removeCommand are
\* the two ends of a first-in-first-out queue of at most MAX_COMMANDS commands.
THEOREM Refinement == Spec => ImplementsBoundedQueue
  <1> QED
    BY InitRefines, NextRefines, Invariance, PTL
       DEF Spec, ImplementsBoundedQueue, Queue!Spec
-----------------------------------------------------------------------------
(* Commands are taken in the order of the file. *)

\* The commands the consumers have read from their slots, and those of the file.
Read == IF \E c \in Consumer : pc[c] = "parse" THEN headQueue - 1 ELSE headQueue
Total == Cardinality(CommandLines)

\* What the k-th item put into the ring is: after the commands come the "e".
Item(k, x) == IF k <= Total THEN IsCommand(k, x) ELSE x = End

AppliedInOrder ==
  /\ \A k \in DOMAIN applied : IsCommand(k, applied[k])
  /\ Len(applied) = IF Read <= Total THEN Read ELSE Total

RingInOrder ==
  \A k \in Read..numberCommands-1 : Item(k + 1, inputCommands[k % MAX_COMMANDS])

\* The producer has read as many commands as it has stored, or one more.
Stored == numberCommands + InProducer({"wait", "lock", "store"})

LinesRead ==
  /\ pc[Producer] \in {"wait", "lock", "store"} => Item(numberCommands + 1, data)
  /\ pc[Producer] = "read" => data # End
  /\ IF data = End \/ pc[Producer] \in {"end", "done"}
     THEN lineNumber = Len(file) /\ Total <= Stored
     ELSE UpTo(CommandLines, lineNumber) = Stored

\* A consumer ends because it has read an "e".
EndsReached ==
  \A c \in Consumer :
    pc[c] = "done" \/ (pc[c] = "unlock" /\ current[c] = End) => Total < Read

FinishedAll == process = "finished" => Len(applied) = Total

OrderInv ==
  /\ IInv
  /\ AppliedInOrder
  /\ RingInOrder
  /\ LinesRead
  /\ EndsReached
  /\ FinishedAll

(* Counting up to a place. *)

LEMMA UpToType ==
  ASSUME NEW S, IsFiniteSet(S), NEW n
  PROVE  /\ IsFiniteSet({i \in S : i <= n})
         /\ UpTo(S, n) \in Nat
         /\ UpTo(S, n) <= Cardinality(S)
         /\ Cardinality(S) \in Nat
  BY FS_Subset, FS_CardinalityType DEF UpTo

\* The next number adds one if it is an element.
LEMMA UpToNext ==
  ASSUME NEW S \in SUBSET Int, IsFiniteSet(S), NEW n \in Int
  PROVE  UpTo(S, n + 1) = UpTo(S, n) + (IF n + 1 \in S THEN 1 ELSE 0)
  <1> DEFINE T == {i \in S : i <= n}
  <1>1. IsFiniteSet(T)
    BY FS_Subset
  <1> DEFINE U == {i \in S : i <= n + 1}
  <1>a. \A i \in S : i <= n + 1 <=> i <= n \/ i = n + 1
    <2>1. \A i \in Int : i <= n + 1 <=> i <= n \/ i = n + 1
      OBVIOUS
    <2> QED
      BY <2>1
  <1>2. U = IF n + 1 \in S THEN T \cup {n + 1} ELSE T
    <2>1. \A i : i \in U <=> i \in T \/ (i = n + 1 /\ n + 1 \in S)
      BY <1>a
    <2> HIDE DEF T, U
    <2> QED
      BY <2>1
  <1>3. n + 1 \notin T
    OBVIOUS
  <1>4. Cardinality(T \cup {n + 1}) = Cardinality(T) + 1
    BY <1>1, <1>3, FS_AddElement
  <1>5. Cardinality(T) \in Nat
    BY <1>1, FS_CardinalityType
  <1> HIDE DEF T, U
  <1>6. Cardinality(U) = Cardinality(T) + (IF n + 1 \in S THEN 1 ELSE 0)
    BY <1>2, <1>4, <1>5
  <1> QED
    BY <1>6 DEF UpTo, T, U

LEMMA UpToEnds ==
  ASSUME NEW S \in SUBSET Int, NEW n \in Int, \A i \in S : i <= n, IsFiniteSet(S)
  PROVE  /\ UpTo(S, n) = Cardinality(S)
         /\ \A m \in Int : (\A i \in S : i > m) => UpTo(S, m) = 0
  <1>1. {i \in S : i <= n} = S
    OBVIOUS
  <1>2. ASSUME NEW m \in Int, \A i \in S : i > m PROVE UpTo(S, m) = 0
    <2>1. \A i \in S : ~(i <= m)
      <3>1. \A i \in Int : i > m => ~(i <= m)
        OBVIOUS
      <3> QED
        BY <1>2, <3>1
    <2>2. {i \in S : i <= m} = {}
      BY <2>1
    <2> QED
      BY <2>2, FS_EmptySet DEF UpTo
  <1> QED
    BY <1>1, <1>2 DEF UpTo

\* Later elements have later places.
LEMMA UpToGrows ==
  ASSUME NEW S \in SUBSET Int, IsFiniteSet(S), NEW i \in Int, NEW j \in S, i < j
  PROVE  UpTo(S, i) < UpTo(S, j)
  <1> DEFINE T == {k \in S : k <= i}
             U == {k \in S : k <= j}
  <1>1. IsFiniteSet(T) /\ IsFiniteSet(U) /\ Cardinality(T) \in Nat /\ Cardinality(U) \in Nat
    BY FS_Subset, FS_CardinalityType
  <1>2. T \cup {j} \subseteq U /\ j \notin T
    <2>1. j <= j /\ \A k \in Int : k <= i => k <= j /\ k # j
      OBVIOUS
    <2>2. \A k \in T : k \in U /\ k # j
      BY <2>1
    <2>3. j \in U
      BY <2>1
    <2> HIDE DEF T, U
    <2> QED
      BY <2>2, <2>3
  <1>3. Cardinality(T \cup {j}) = Cardinality(T) + 1
    BY <1>1, <1>2, FS_AddElement
  <1>4. Cardinality(T \cup {j}) <= Cardinality(U)
    BY <1>1, <1>2, FS_Subset
  <1> HIDE DEF T, U
  <1>5. Cardinality(T) < Cardinality(U)
    BY <1>1, <1>3, <1>4
  <1> QED
    BY <1>5 DEF UpTo, T, U

LEMMA CommandLinesFinite ==
  ASSUME TypeOK
  PROVE  /\ IsFiniteSet(CommandLines)
         /\ CommandLines \in SUBSET Int
         /\ CommandLines \subseteq 1..Len(file)
         /\ Len(file) \in Nat
         /\ Total \in Nat
         /\ UpTo(CommandLines, 0) = 0
         /\ UpTo(CommandLines, Len(file)) = Total
  <1>1. Len(file) \in Nat /\ DOMAIN file = 1..Len(file)
    BY QueueAssumption DEF TypeOK
  <1>2. CommandLines \subseteq 1..Len(file)
    BY <1>1 DEF CommandLines
  <1>3. IsFiniteSet(CommandLines)
    <2>1. IsFiniteSet(1..Len(file))
      BY <1>1, FS_Interval
    <2> QED
      BY <1>2, <2>1, FS_Subset
  <1>4. CommandLines \in SUBSET Int /\ \A i \in CommandLines : i <= Len(file) /\ i > 0
    BY <1>1, <1>2
  <1>5. Total \in Nat
    BY <1>3, FS_CardinalityType DEF Total
  <1>6. UpTo(CommandLines, Len(file)) = Total /\ UpTo(CommandLines, 0) = 0
    BY <1>1, <1>3, <1>4, UpToEnds DEF Total
  <1> QED
    BY <1>1, <1>2, <1>3, <1>4, <1>5, <1>6

(* The ring has room for what has not been read. *)

LEMMA ReadInRing ==
  ASSUME IInv
  PROVE  /\ Read \in Nat /\ headQueue \in Nat /\ numberCommands \in Nat
         /\ Read <= headQueue /\ headQueue <= numberCommands
         /\ pc[Producer] \in {"lock", "store"} => numberCommands - Read < MAX_COMMANDS
  <1> USE QueueAssumption DEF IInv
  <1>1. /\ sem_prod + Filling + (numberCommands - headQueue) + Taken = MAX_COMMANDS
        /\ sem_cons + Announcing + LetIn = numberCommands - headQueue
    BY DEF SemaphoresAgree, Taken, LetIn, Filling, Announcing
  <1>2. /\ sem_prod \in Nat /\ sem_cons \in Nat
        /\ numberCommands \in Nat /\ headQueue \in Nat
        /\ Filling \in Nat /\ Announcing \in Nat
        /\ pc[Producer] \in {"lock", "store"} => Filling = 1
    BY DEF TypeOK, InProducer, Filling, Announcing
  <1>3. Taken \in Nat /\ LetIn \in Nat
    BY CountTypes
  <1>4. headQueue <= numberCommands
    BY <1>1, <1>2, <1>3
  <1>5. CASE \E c \in Consumer : pc[c] = "parse"
    <2>1. Read = headQueue - 1 /\ headQueue > 0
      BY <1>5 DEF Read, SlotIsLast
    <2>2. Taken >= 1
      BY <1>5, CountIsNat DEF Taken
    <2> QED
      BY <1>1, <1>2, <1>3, <1>4, <2>1, <2>2
  <1>6. CASE ~\E c \in Consumer : pc[c] = "parse"
    <2>1. Read = headQueue
      BY <1>6 DEF Read
    <2> QED
      BY <1>1, <1>2, <1>3, <1>4, <2>1
  <1> QED
    BY <1>5, <1>6

LEMMA InitOrder == Init => OrderInv
  <1> SUFFICES ASSUME Init PROVE OrderInv
    OBVIOUS
  <1>1. IInv
    BY InitIInv
  <1>2. TypeOK
    BY <1>1 DEF IInv
  <1>3. /\ pc[Producer] = "read" /\ \A c \in Consumer : pc[c] = "wait"
        /\ Read = 0 /\ numberCommands = 0 /\ applied = <<>> /\ Stored = 0
    BY QueueAssumption DEF Init, Thread, Read, Stored, InProducer
  <1>4. AppliedInOrder
    BY <1>2, <1>3, CommandLinesFinite DEF AppliedInOrder
  <1>5. RingInOrder /\ EndsReached /\ FinishedAll
    BY <1>3 DEF RingInOrder, EndsReached, FinishedAll, Init
  <1>6. LinesRead
    BY <1>2, <1>3, CommandLinesFinite, QueueAssumption DEF LinesRead, Init
  <1> QED
    BY <1>1, <1>4, <1>5, <1>6 DEF OrderInv

\* A step of the producer that stores nothing leaves the consumers' side alone.
LEMMA ProducerFrame ==
  ASSUME OrderInv, NEW from, NEW to, Goes(Producer, from, to),
         UNCHANGED <<ring, consumerVars>>
  PROVE  /\ AppliedInOrder' /\ RingInOrder' /\ EndsReached' /\ FinishedAll'
         /\ CommandLines' = CommandLines /\ Total' = Total
         /\ \A k, x : Item(k, x)' <=> Item(k, x)
         /\ \A n : UpTo(CommandLines, n)' = UpTo(CommandLines, n)
         /\ pc[Producer] = from /\ pc'[Producer] = to
  <1> USE DEF ring, consumerVars
  <1>1. /\ \A c \in Consumer : pc'[c] = pc[c]
        /\ pc[Producer] = from /\ pc'[Producer] = to
    BY CountsAfterProducer DEF OrderInv, IInv
  <1>2. file' = file /\ process' = process
    BY DEF Goes
  <1>3. CommandLines' = CommandLines /\ Total' = Total /\ Read' = Read
    BY <1>1, <1>2 DEF CommandLines, Total, Read
  <1>4. \A k, x : IsCommand(k, x)' <=> IsCommand(k, x)
    BY <1>2, <1>3 DEF IsCommand
  <1>5. \A k, x : Item(k, x)' <=> Item(k, x)
    BY <1>3, <1>4 DEF Item
  <1>6. AppliedInOrder' /\ FinishedAll'
    BY <1>2, <1>3, <1>4 DEF OrderInv, AppliedInOrder, FinishedAll
  <1>7. RingInOrder' /\ EndsReached'
    BY <1>1, <1>3, <1>5 DEF OrderInv, RingInOrder, EndsReached
  <1> QED
    BY <1>1, <1>3, <1>5, <1>6, <1>7

LEMMA QueueTypes ==
  ASSUME TypeOK
  PROVE  /\ lineNumber \in Nat /\ numberCommands \in Nat
         /\ file \in Seq(Command \cup {Comment, Invalid})
         /\ data \in Command \cup {End, Nothing}
  BY QueueAssumption DEF TypeOK, QueueAssumption

LEMMA ProducerKeepsOrder ==
  ASSUME OrderInv, processInput, IInv'
  PROVE  OrderInv'
  <1> USE QueueAssumption
  <1>a. /\ TypeOK /\ lineNumber \in Nat /\ numberCommands \in Nat
        /\ file \in Seq(Command \cup {Comment, Invalid})
        /\ data \in Command \cup {End, Nothing}
    BY QueueTypes DEF OrderInv, IInv
  <1>b. /\ IsFiniteSet(CommandLines) /\ CommandLines \in SUBSET Int
        /\ CommandLines \subseteq 1..Len(file)
        /\ Len(file) \in Nat /\ Total \in Nat
        /\ UpTo(CommandLines, 0) = 0 /\ UpTo(CommandLines, Len(file)) = Total
    BY <1>a, CommandLinesFinite
  <1>c. LinesRead
    BY DEF OrderInv
  <1>d. /\ UpTo(CommandLines, lineNumber) \in Nat
        /\ UpTo(CommandLines, lineNumber + 1) \in Nat
        /\ UpTo(CommandLines, lineNumber + 1) <= Total
        /\ UpTo(CommandLines, lineNumber + 1)
             = UpTo(CommandLines, lineNumber)
               + (IF lineNumber + 1 \in CommandLines THEN 1 ELSE 0)
    <2>1. /\ UpTo(CommandLines, lineNumber) \in Nat
          /\ UpTo(CommandLines, lineNumber + 1) \in Nat
          /\ UpTo(CommandLines, lineNumber + 1) <= Total
      BY <1>b, UpToType DEF Total
    <2>2. lineNumber \in Int
      BY <1>a
    <2> QED
      BY <1>b, <2>1, <2>2, UpToNext
  <1> USE DEF producerVars
  <1>1. CASE ReadCommand
    <2>1. /\ AppliedInOrder' /\ RingInOrder' /\ EndsReached' /\ FinishedAll'
          /\ CommandLines' = CommandLines /\ Total' = Total
          /\ \A k, x : Item(k, x)' <=> Item(k, x)
          /\ \A n : UpTo(CommandLines, n)' = UpTo(CommandLines, n)
          /\ pc[Producer] = "read" /\ pc'[Producer] = "wait"
      BY <1>1, ProducerFrame DEF ReadCommand
    <2>2. /\ lineNumber + 1 \in CommandLines
          /\ lineNumber' = lineNumber + 1 /\ data' = file[lineNumber + 1]
          /\ data' # End /\ numberCommands' = numberCommands /\ file' = file
      BY <1>1, <1>a, <1>b DEF ReadCommand, Goes, Line, CommandLines, ring
    <2>3. UpTo(CommandLines, lineNumber) = numberCommands
      BY <1>a, <1>c, <2>1 DEF LinesRead, Stored, InProducer
    <2>4. UpTo(CommandLines, lineNumber + 1) = numberCommands + 1
      BY <1>d, <2>2, <2>3
    <2>5. Item(numberCommands + 1, file[lineNumber + 1])
      BY <1>d, <2>2, <2>4 DEF Item, IsCommand
    <2>6. UpTo(CommandLines, lineNumber)' = numberCommands + 1
      BY <2>1, <2>2, <2>4 DEF UpTo
    <2>7. Item(numberCommands + 1, data)'
      BY <2>1, <2>2, <2>5 DEF Item, IsCommand
    <2>8. Stored' = numberCommands + 1
      BY <2>1, <2>2, <1>a DEF Stored, InProducer
    <2>9. LinesRead'
      BY <2>1, <2>2, <2>6, <2>7, <2>8 DEF LinesRead
    <2> QED
      BY <2>1, <2>9 DEF OrderInv
  <1>2. CASE SkipComment
    <2>1. /\ AppliedInOrder' /\ RingInOrder' /\ EndsReached' /\ FinishedAll'
          /\ CommandLines' = CommandLines /\ Total' = Total
          /\ pc[Producer] = "read" /\ pc'[Producer] = "read"
      BY <1>2, ProducerFrame DEF SkipComment
    <2>2. /\ lineNumber + 1 \notin CommandLines
          /\ lineNumber' = lineNumber + 1 /\ data' = data
          /\ numberCommands' = numberCommands
      BY <1>2, <1>a, <1>b DEF SkipComment, Line, CommandLines, ring
    <2>3. UpTo(CommandLines, lineNumber + 1) = Stored /\ data # End
      BY <1>a, <1>c, <1>d, <2>1, <2>2 DEF LinesRead
    <2>4. LinesRead'
      BY <2>1, <2>2, <2>3 DEF LinesRead, Stored, InProducer, UpTo
    <2> QED
      BY <2>1, <2>4 DEF OrderInv
  <1>3. CASE errorParse
    <2>1. /\ UNCHANGED <<file, pc, data, numberCommands, headQueue, inputCommands,
                         applied, current>>
          /\ lineNumber + 1 \notin CommandLines
          /\ lineNumber' = lineNumber + 1
          /\ process' = "failed" /\ pc[Producer] = "read"
      BY <1>3, <1>a, <1>b DEF errorParse, Line, CommandLines, ring, consumerVars
    <2>2. CommandLines' = CommandLines /\ Total' = Total /\ Read' = Read
      BY <2>1 DEF CommandLines, Total, Read
    <2>3. \A k, x : Item(k, x)' <=> Item(k, x)
      BY <2>1, <2>2 DEF Item, IsCommand
    <2>4. AppliedInOrder' /\ RingInOrder' /\ EndsReached' /\ FinishedAll'
      BY <2>1, <2>2, <2>3
         DEF OrderInv, AppliedInOrder, RingInOrder, EndsReached, FinishedAll, IsCommand
    <2>5. UpTo(CommandLines, lineNumber + 1) = Stored /\ data # End
      BY <1>a, <1>c, <1>d, <2>1 DEF LinesRead
    <2>6. LinesRead'
      BY <2>1, <2>2, <2>5 DEF LinesRead, Stored, InProducer, UpTo
    <2> QED
      BY <2>4, <2>6 DEF OrderInv
  <1>4. CASE EndOfFile
    <2>1. /\ AppliedInOrder' /\ RingInOrder' /\ EndsReached' /\ FinishedAll'
          /\ CommandLines' = CommandLines /\ Total' = Total
          /\ pc[Producer] = "read" /\ pc'[Producer] = "end"
      BY <1>4, ProducerFrame DEF EndOfFile
    <2>2. /\ lineNumber = Len(file) /\ file' = file
          /\ UNCHANGED <<lineNumber, data, numberCommands>>
      BY <1>4 DEF EndOfFile, Goes, ring
    <2>3. Stored = Total /\ data # End
      BY <1>b, <1>c, <2>1, <2>2 DEF LinesRead
    <2>4. Stored' = Stored
      BY <2>1, <2>2 DEF Stored, InProducer
    <2>5. LinesRead'
      BY <1>b, <2>1, <2>2, <2>3, <2>4 DEF LinesRead
    <2> QED
      BY <2>1, <2>5 DEF OrderInv
  <1>5. CASE InsertEnd
    <2>1. /\ AppliedInOrder' /\ RingInOrder' /\ EndsReached' /\ FinishedAll'
          /\ CommandLines' = CommandLines /\ Total' = Total
          /\ pc[Producer] = "end" /\ pc'[Producer] = "wait"
      BY <1>5, ProducerFrame DEF InsertEnd
    <2>2. /\ file' = file /\ data' = End
          /\ UNCHANGED <<lineNumber, numberCommands>>
      BY <1>5 DEF InsertEnd, Goes, ring
    <2>3. lineNumber = Len(file) /\ Total <= numberCommands
      BY <1>a, <1>c, <2>1 DEF LinesRead, Stored, InProducer
    <2>4. Stored' = numberCommands + 1
      BY <2>1, <2>2 DEF Stored, InProducer
    <2>5. Item(numberCommands + 1, data)'
      BY <1>a, <1>b, <2>1, <2>2, <2>3 DEF Item
    <2>6. Total' <= Stored'
      BY <1>a, <1>b, <2>1, <2>3, <2>4
    <2>7. LinesRead'
      BY <2>1, <2>2, <2>3, <2>5, <2>6 DEF LinesRead
    <2> QED
      BY <2>1, <2>7 DEF OrderInv
  <1>6. CASE EndsInserted
    <2>1. /\ AppliedInOrder' /\ RingInOrder' /\ EndsReached' /\ FinishedAll'
          /\ CommandLines' = CommandLines /\ Total' = Total
          /\ pc[Producer] = "end" /\ pc'[Producer] = "done"
      BY <1>6, ProducerFrame DEF EndsInserted
    <2>2. file' = file /\ UNCHANGED <<lineNumber, data, numberCommands>>
      BY <1>6 DEF EndsInserted, Goes, ring
    <2>3. LinesRead'
      BY <1>c, <2>1, <2>2 DEF LinesRead, Stored, InProducer
    <2> QED
      BY <2>1, <2>3 DEF OrderInv
  <1>7. ASSUME NEW from \in {"wait", "lock"}, NEW to \in {"lock", "store"},
               Goes(Producer, from, to), UNCHANGED <<ring, consumerVars, producerVars>>
        PROVE  OrderInv'
    <2>1. /\ AppliedInOrder' /\ RingInOrder' /\ EndsReached' /\ FinishedAll'
          /\ CommandLines' = CommandLines /\ Total' = Total
          /\ \A k, x : Item(k, x)' <=> Item(k, x)
          /\ pc[Producer] = from /\ pc'[Producer] = to
      BY <1>7, ProducerFrame
    <2>2. file' = file /\ UNCHANGED <<lineNumber, data, numberCommands>>
      BY <1>7 DEF Goes, ring
    <2>3. Stored' = Stored
      BY <2>1, <2>2 DEF Stored, InProducer
    <2>4. Item(numberCommands + 1, data)'
      BY <1>c, <2>1, <2>2 DEF LinesRead, Item, IsCommand
    <2>5. LinesRead'
      BY <1>c, <2>1, <2>2, <2>3, <2>4 DEF LinesRead
    <2> QED
      BY <2>1, <2>5 DEF OrderInv
  <1>8. ASSUME NEW from \in {"unlock", "post"},
               NEW to, to = IF from = "unlock" THEN "post"
                            ELSE IF data = End THEN "end" ELSE "read",
               Goes(Producer, from, to), UNCHANGED <<ring, consumerVars, producerVars>>
        PROVE  OrderInv'
    <2>1. /\ AppliedInOrder' /\ RingInOrder' /\ EndsReached' /\ FinishedAll'
          /\ CommandLines' = CommandLines /\ Total' = Total
          /\ pc[Producer] = from /\ pc'[Producer] = to
      BY <1>8, ProducerFrame
    <2>2. file' = file /\ UNCHANGED <<lineNumber, data, numberCommands>>
      BY <1>8 DEF Goes, ring
    <2>3. Stored' = Stored /\ UpTo(CommandLines, lineNumber)' = UpTo(CommandLines, lineNumber)
      BY <1>8, <2>1, <2>2 DEF Stored, InProducer, UpTo
    <2>4. LinesRead'
      BY <1>8, <1>c, <2>1, <2>2, <2>3 DEF LinesRead
    <2> QED
      BY <2>1, <2>4 DEF OrderInv
  <1>9. CASE WaitForSlot
    BY <1>7, <1>9 DEF WaitForSlot
  <1>10. CASE Lock(Producer, "store")
    BY <1>7, <1>10 DEF Lock, ring
  <1>11. CASE Unlock(Producer, "post")
    BY <1>8, <1>11 DEF Unlock, ring
  <1>12. CASE PostCommand
    BY <1>8, <1>12 DEF PostCommand
  <1>13. CASE StoreCommand
    <2>1. /\ pc[Producer] = "store" /\ pc'[Producer] = "unlock"
          /\ \A c \in Consumer : pc'[c] = pc[c]
      BY <1>13, CountsAfterProducer DEF OrderInv, IInv, StoreCommand
    <2>2. /\ UNCHANGED <<file, process, lineNumber, data, headQueue, applied, current>>
          /\ numberCommands' = numberCommands + 1
          /\ inputCommands \in [0..MAX_COMMANDS-1 -> Command \cup {End, Nothing}]
          /\ inputCommands' = [inputCommands EXCEPT ![numberCommands % MAX_COMMANDS] = data]
      BY <1>13, <1>a DEF StoreCommand, Goes, consumerVars, TypeOK
    <2>3. CommandLines' = CommandLines /\ Total' = Total /\ Read' = Read
      BY <2>1, <2>2 DEF CommandLines, Total, Read
    <2>4. \A k, x : IsCommand(k, x)' <=> IsCommand(k, x)
      BY <2>2, <2>3 DEF IsCommand
    <2>5. \A k, x : Item(k, x)' <=> Item(k, x)
      BY <2>3, <2>4 DEF Item
    <2>6. AppliedInOrder' /\ FinishedAll' /\ EndsReached'
      BY <2>1, <2>2, <2>3, <2>4
         DEF OrderInv, AppliedInOrder, FinishedAll, EndsReached
    <2>7. Stored' = Stored
      BY <1>a, <2>1, <2>2 DEF Stored, InProducer
    <2>8. LinesRead'
      BY <1>c, <2>1, <2>2, <2>3, <2>7 DEF LinesRead, UpTo
    <2>9. /\ Read \in Nat /\ numberCommands - Read < MAX_COMMANDS
          /\ Read <= numberCommands
      BY <2>1, ReadInRing DEF OrderInv
    <2>10. numberCommands % MAX_COMMANDS \in 0..MAX_COMMANDS-1
      <3>1. numberCommands \in Int
        BY <1>a
      <3> QED
        BY <3>1, SlotOfIndex
    <2>11. ASSUME NEW k \in Read..numberCommands
           PROVE  Item(k + 1, inputCommands'[k % MAX_COMMANDS])
      <3>1. CASE k = numberCommands
        <4>1. inputCommands'[k % MAX_COMMANDS] = data
          BY <2>2, <2>10, <3>1
        <4> QED
          BY <1>c, <2>1, <3>1, <4>1 DEF LinesRead
      <3>2. CASE k < numberCommands
        <4>1. k \in Nat /\ k \in Read..numberCommands-1 /\ numberCommands - k < MAX_COMMANDS
          BY <1>a, <2>9, <3>2
        <4>2. k % MAX_COMMANDS # numberCommands % MAX_COMMANDS
          BY <1>a, <3>2, <4>1, DifferentSlots
        <4>3. k % MAX_COMMANDS \in 0..MAX_COMMANDS-1
          <5>1. k \in Int
            BY <4>1
          <5> QED
            BY <5>1, SlotOfIndex
        <4>4. inputCommands'[k % MAX_COMMANDS] = inputCommands[k % MAX_COMMANDS]
          BY <2>2, <4>2, <4>3
        <4>5. Item(k + 1, inputCommands[k % MAX_COMMANDS])
          BY <4>1 DEF OrderInv, RingInOrder
        <4> QED
          BY <4>4, <4>5
      <3> QED
        BY <1>a, <2>9, <3>1, <3>2
    <2>12. RingInOrder'
      <3>1. numberCommands' - 1 = numberCommands
        BY <1>a, <2>2
      <3> QED
        BY <2>3, <2>5, <2>11, <3>1 DEF RingInOrder
    <2> QED
      BY <2>6, <2>8, <2>12 DEF OrderInv
  <1> QED
    BY <1>1, <1>2, <1>3, <1>4, <1>5, <1>6, <1>9, <1>10, <1>11, <1>12, <1>13
       DEF processInput

\* A consumer that reads its slot reads the next command, or an "e" when there
\* are no more.
LEMMA ParseReads ==
  ASSUME OrderInv, NEW c \in Consumer, ParseCommand(c)
  PROVE  /\ Read \in Nat /\ Total \in Nat
         /\ Read' = Read + 1
         /\ Item(Read + 1, inputCommands[slot[c]])
         /\ inputCommands[slot[c]] = End <=> Total <= Read
  <1> USE QueueAssumption DEF ring, consumerVars, producerVars
  <1> DEFINE x == inputCommands[slot[c]]
  <1>1. TypeOK /\ OneInside /\ SlotIsLast /\ RingInOrder /\ IInv
    BY DEF OrderInv, IInv
  <1>2. /\ Read \in Nat /\ Read <= headQueue /\ headQueue <= numberCommands
        /\ headQueue \in Nat /\ numberCommands \in Nat /\ Total \in Nat
    BY <1>1, ReadInRing, CommandLinesFinite
  <1>3. /\ pc[c] = "parse" /\ pc'[c] = "unlock" /\ headQueue' = headQueue
        /\ \A d \in Consumer : d # c => pc'[d] = pc[d]
    BY <1>1 DEF ParseCommand, Goes, TypeOK, Thread
  <1>4. /\ headQueue > 0 /\ Read = headQueue - 1
        /\ slot[c] = (headQueue - 1) % MAX_COMMANDS
    BY <1>1, <1>3 DEF Read, SlotIsLast
  <1>5. Read' = Read + 1
    <2>1. \A d \in Consumer : pc'[d] # "parse"
      BY <1>1, <1>3 DEF OneInside
    <2> QED
      BY <1>2, <1>3, <1>4, <2>1 DEF Read
  <1>6. Item(Read + 1, x)
    <2>1. Read \in Read..numberCommands-1
      BY <1>2, <1>4
    <2> QED
      BY <1>1, <1>4, <2>1 DEF RingInOrder
  <1>7. x = End <=> Total <= Read
    <2>1. CASE Read + 1 <= Total
      <3>1. x \in Command
        BY <1>6, <2>1 DEF Item, IsCommand, CommandLines
      <3> QED
        BY <1>2, <2>1, <3>1
    <2>2. CASE ~(Read + 1 <= Total)
      <3>1. x = End
        BY <1>6, <2>2 DEF Item
      <3> QED
        BY <1>2, <2>2, <3>1
    <2> QED
      BY <2>1, <2>2
  <1> QED
    BY <1>2, <1>5, <1>6, <1>7

LEMMA ConsumerKeepsOrder ==
  ASSUME OrderInv, NEW c \in Consumer, applyCommands(c), IInv'
  PROVE  OrderInv'
  <1> USE QueueAssumption DEF ring, consumerVars, producerVars
  <1>a. /\ TypeOK /\ numberCommands \in Nat /\ headQueue \in Nat /\ Total \in Nat
        /\ pc \in [Thread -> ProducerLabel \cup ConsumerLabel]
        /\ current \in [Consumer -> Command \cup {End, Nothing}]
        /\ applied \in Seq(Command) /\ Len(applied) \in Nat
    <2>1. TypeOK
      BY DEF OrderInv, IInv
    <2>2. Total \in Nat
      BY <2>1, CommandLinesFinite
    <2> QED
      BY <2>1, <2>2 DEF TypeOK
  <1>b. /\ file' = file /\ process' = process /\ process = "running"
        /\ UNCHANGED <<lineNumber, data, inputCommands, numberCommands>>
    BY DEF applyCommands, TakeCommand, WaitForCommand, Lock, removeCommand, Unlock,
           GiveSlotBack, ParseCommand, Apply, Goes
  <1>c. \E to : pc' = [pc EXCEPT ![c] = to]
    BY DEF applyCommands, TakeCommand, WaitForCommand, Lock, removeCommand, Unlock,
           GiveSlotBack, ParseCommand, Apply, Goes
  <1>d. \A t \in Thread : t # c => pc'[t] = pc[t]
    BY <1>a, <1>c
  <1>e. pc'[Producer] = pc[Producer]
    BY <1>d DEF Thread
  <1>f. CommandLines' = CommandLines /\ Total' = Total /\ Stored' = Stored
    BY <1>b, <1>e DEF CommandLines, Total, Stored, InProducer
  <1>g. \A k, x : IsCommand(k, x)' <=> IsCommand(k, x)
    BY <1>b, <1>f DEF IsCommand
  <1>h. \A k, x : Item(k, x)' <=> Item(k, x)
    BY <1>f, <1>g DEF Item
  <1>i. LinesRead' /\ FinishedAll'
    <2>1. Item(numberCommands + 1, data)' <=> Item(numberCommands + 1, data)
      BY <1>b, <1>f DEF Item, IsCommand
    <2>2. UpTo(CommandLines, lineNumber)' = UpTo(CommandLines, lineNumber)
      BY <1>b, <1>f DEF UpTo
    <2> QED
      BY <1>b, <1>e, <1>f, <2>1, <2>2 DEF OrderInv, LinesRead, FinishedAll
  <1>j. Read \in Nat /\ Read <= headQueue /\ headQueue <= numberCommands
    BY ReadInRing DEF OrderInv
  <1>1. CASE removeCommand(c)
    <2>1. /\ pc[c] = "remove" /\ pc'[c] = "parse"
          /\ headQueue' = headQueue + 1
          /\ UNCHANGED <<current, applied>>
      BY <1>1, <1>a DEF removeCommand, Goes, Thread
    <2>2. Read = headQueue
      BY <2>1 DEF Read, OrderInv, IInv, OneInside
    <2>3. Read' = Read
      BY <1>a, <2>1, <2>2 DEF Read
    <2>4. EndsReached'
      BY <1>d, <1>f, <2>1, <2>3 DEF OrderInv, EndsReached, Thread
    <2>5. AppliedInOrder' /\ RingInOrder'
      BY <1>b, <1>f, <1>g, <1>h, <2>1, <2>3 DEF OrderInv, AppliedInOrder, RingInOrder
    <2> QED
      BY <1>i, <2>4, <2>5 DEF OrderInv
  <1>2. CASE ParseCommand(c)
    <2> DEFINE x == inputCommands[slot[c]]
    <2>1. /\ pc[c] = "parse" /\ pc'[c] = "unlock"
          /\ headQueue' = headQueue
          /\ current' = [current EXCEPT ![c] = x]
          /\ applied' = IF x = End THEN applied ELSE Append(applied, x)
      BY <1>2, <1>a DEF ParseCommand, Goes, Thread
    <2>2. /\ Read' = Read + 1
          /\ Item(Read + 1, x)
          /\ x = End <=> Total <= Read
      BY <1>2, ParseReads
    <2>3. RingInOrder'
      <3>1. Read'..numberCommands-1 \subseteq Read..numberCommands-1
        BY <1>a, <1>j, <2>2
      <3> QED
        BY <1>b, <1>h, <3>1 DEF OrderInv, RingInOrder
    <2>4. EndsReached'
      <3> SUFFICES ASSUME NEW d \in Consumer,
                          pc'[d] = "done" \/ (pc'[d] = "unlock" /\ current'[d] = End)
                   PROVE  Total < Read + 1
        BY <1>f, <2>2 DEF EndsReached
      <3>1. CASE d = c
        <4>1. x = End
          BY <1>a, <2>1, <3>1
        <4> QED
          BY <1>a, <1>j, <2>2, <4>1
      <3>2. CASE d # c
        <4>1. pc'[d] = pc[d] /\ current'[d] = current[d]
          BY <1>a, <1>d, <2>1, <3>2 DEF Thread
        <4>2. Total < Read
          BY <4>1 DEF OrderInv, EndsReached
        <4> QED
          BY <1>a, <1>j, <4>2
      <3> QED
        BY <3>1, <3>2
    <2>5. AppliedInOrder'
      <3>1. Len(applied) = IF Read <= Total THEN Read ELSE Total
        BY DEF OrderInv, AppliedInOrder
      <3>2. \A k \in 1..Len(applied) : IsCommand(k, applied[k])
        BY <1>a DEF OrderInv, AppliedInOrder
      <3>3. CASE x = End
        <4>1. applied' = applied /\ Total <= Read
          BY <2>1, <2>2, <3>3
        <4>2. Len(applied) = IF Read + 1 <= Total THEN Read + 1 ELSE Total
          BY <1>a, <1>j, <3>1, <4>1
        <4> QED
          BY <1>a, <1>f, <1>g, <2>2, <3>2, <4>1, <4>2 DEF AppliedInOrder
      <3>4. CASE x # End
        <4>1. /\ applied' = Append(applied, x) /\ Read + 1 <= Total
              /\ Len(applied) = Read
          BY <1>a, <1>j, <2>1, <2>2, <3>1, <3>4
        <4>2. IsCommand(Read + 1, x)
          BY <2>2, <4>1 DEF Item
        <4>3. /\ Len(applied') = Read + 1 /\ DOMAIN applied' = 1..(Read + 1)
              /\ applied'[Read + 1] = x
              /\ \A k \in 1..Read : applied'[k] = applied[k]
          BY <1>a, <1>j, <4>1
        <4>4. \A k \in 1..(Read + 1) : k \in 1..Read \/ k = Read + 1
          BY <1>j
        <4>5. \A k \in DOMAIN applied' : IsCommand(k, applied'[k])
          BY <3>2, <4>1, <4>2, <4>3, <4>4
        <4> QED
          BY <1>f, <1>g, <2>2, <4>1, <4>3, <4>5 DEF AppliedInOrder
      <3> QED
        BY <3>3, <3>4
    <2> QED
      BY <1>i, <2>3, <2>4, <2>5 DEF OrderInv
  <1>3. CASE \/ WaitForCommand(c) \/ Lock(c, "remove") \/ GiveSlotBack(c) \/ Apply(c)
             \/ Unlock(c, IF current[c] = End THEN "done" ELSE "post")
    <2>1. /\ pc[c] # "parse" /\ pc'[c] # "parse" /\ pc'[c] # "unlock"
          /\ pc'[c] = "done" => pc[c] = "unlock" /\ current[c] = End
          /\ \A d \in Consumer : d # c => current'[d] = current[d]
          /\ UNCHANGED <<headQueue, applied>>
      BY <1>3, <1>a DEF WaitForCommand, Lock, GiveSlotBack, Apply, Unlock, Goes, Thread
    <2>2. \A d \in Consumer : pc'[d] = "parse" <=> pc[d] = "parse"
      BY <1>d, <2>1 DEF Thread
    <2>3. Read' = Read
      BY <2>1, <2>2 DEF Read
    <2>4. EndsReached'
      BY <1>d, <1>f, <2>1, <2>3 DEF OrderInv, EndsReached, Thread
    <2>5. AppliedInOrder' /\ RingInOrder'
      BY <1>b, <1>f, <1>g, <1>h, <2>1, <2>3 DEF OrderInv, AppliedInOrder, RingInOrder
    <2> QED
      BY <1>i, <2>4, <2>5 DEF OrderInv
  <1> QED
    BY <1>1, <1>2, <1>3 DEF applyCommands, TakeCommand

LEMMA NextOrder == OrderInv /\ [Next]_vars => OrderInv'
  <1> SUFFICES ASSUME OrderInv, [Next]_vars PROVE OrderInv'
    OBVIOUS
  <1>1. IInv'
    BY NextIInv DEF OrderInv
  <1>2. CASE processInput
    BY <1>1, <1>2, ProducerKeepsOrder
  <1>3. ASSUME NEW c \in Consumer, applyCommands(c)
        PROVE  OrderInv'
    BY <1>1, <1>3, ConsumerKeepsOrder
  <1>4. ASSUME UNCHANGED <<file, pc, producerVars, consumerVars, ring>>,
               process' = process \/ (\A t \in Thread : pc[t] = "done")
        PROVE  OrderInv'
    <2> USE <1>4 DEF producerVars, consumerVars, ring
    <2>1. /\ CommandLines' = CommandLines /\ Total' = Total /\ Read' = Read
          /\ Stored' = Stored
      BY DEF CommandLines, Total, Read, Stored, InProducer
    <2>2. \A k, x : Item(k, x)' <=> Item(k, x)
      BY <2>1 DEF Item, IsCommand
    <2>3. AppliedInOrder' /\ RingInOrder' /\ EndsReached'
      BY <2>1, <2>2 DEF OrderInv, AppliedInOrder, RingInOrder, EndsReached, IsCommand
    <2>4. LinesRead'
      BY <2>1 DEF OrderInv, LinesRead, UpTo, Item, IsCommand
    <2>5. FinishedAll'
      <3>1. CASE process' = process
        BY <2>1, <3>1 DEF OrderInv, FinishedAll
      <3>2. CASE \A t \in Thread : pc[t] = "done"
        <4>1. Total < Read
          BY <3>2, QueueAssumption DEF OrderInv, EndsReached, Thread
        <4>2. Read \in Nat /\ Total \in Nat
          BY ReadInRing, CommandLinesFinite DEF OrderInv, IInv
        <4>3. Len(applied) = Total
          BY <4>1, <4>2 DEF OrderInv, AppliedInOrder
        <4> QED
          BY <2>1, <4>3 DEF FinishedAll
      <3> QED
        BY <1>4, <3>1, <3>2
    <2> QED
      BY <1>1, <2>3, <2>4, <2>5 DEF OrderInv
  <1>5. CASE JoinAll
    BY <1>4, <1>5 DEF JoinAll
  <1>6. CASE UNCHANGED vars
    BY <1>4, <1>6 DEF vars
  <1> QED
    BY <1>2, <1>3, <1>5, <1>6 DEF Next, Exited

THEOREM OrderInvariance == Spec => []OrderInv
  <1> QED
    BY InitOrder, NextOrder, PTL DEF Spec

\* Whatever the consumers and the slots, the commands are taken one by one in
\* the order of the file, none twice and none skipped, and main does not exit
\* before the last one has been.
THEOREM OrderCorrect == Spec => []TakenInOrder
  <1>1. OrderInv => TakenInOrder
    BY DEF OrderInv, AppliedInOrder, FinishedAll, TakenInOrder, Total
  <1> QED
    BY <1>1, OrderInvariance, PTL

\* Two lines do not have one place, and between them there is one for each.
LEMMA PlacesDiffer ==
  ASSUME TypeOK, NEW i \in CommandLines, NEW j \in CommandLines
  PROVE  /\ UpTo(CommandLines, i) \in 1..Total
         /\ UpTo(CommandLines, i) = UpTo(CommandLines, j) => i = j
         /\ UpTo(CommandLines, i) <= UpTo(CommandLines, j) => i <= j
         /\ i <= j => UpTo(CommandLines, i) <= UpTo(CommandLines, j)
  <1>1. /\ IsFiniteSet(CommandLines) /\ CommandLines \in SUBSET Int
        /\ CommandLines \subseteq 1..Len(file) /\ Len(file) \in Nat
        /\ UpTo(CommandLines, 0) = 0
    BY CommandLinesFinite
  <1>2. i \in Int /\ j \in Int /\ i > 0
    BY <1>1
  <1>3. /\ UpTo(CommandLines, i) \in Nat /\ UpTo(CommandLines, j) \in Nat
        /\ UpTo(CommandLines, i) <= Total /\ Total \in Nat
    BY <1>1, <1>2, UpToType DEF Total
  <1>4. UpTo(CommandLines, 0) < UpTo(CommandLines, i)
    BY <1>1, <1>2, UpToGrows
  <1>5. i < j => UpTo(CommandLines, i) < UpTo(CommandLines, j)
    BY <1>1, <1>2, UpToGrows
  <1>6. j < i => UpTo(CommandLines, j) < UpTo(CommandLines, i)
    BY <1>1, <1>2, UpToGrows
  <1>7. i < j \/ i = j \/ j < i
    BY <1>2
  <1> QED
    BY <1>1, <1>2, <1>3, <1>4, <1>5, <1>6, <1>7

\* When main exits every command of the file is among those taken.
LEMMA AllTaken ==
  ASSUME OrderInv, process = "finished", NEW i \in CommandLines
  PROVE  \E k \in DOMAIN applied : applied[k] = file[i]
  <1>1. TypeOK
    BY DEF OrderInv, IInv
  <1> DEFINE k == UpTo(CommandLines, i)
  <1>2. k \in DOMAIN applied
    <2>1. k \in 1..Total
      BY <1>1, PlacesDiffer
    <2>2. Len(applied) = Total /\ DOMAIN applied = 1..Len(applied)
      BY <1>1 DEF OrderInv, FinishedAll, TypeOK
    <2> QED
      BY <2>1, <2>2
  <1>3. PICK j \in CommandLines : UpTo(CommandLines, j) = k /\ applied[k] = file[j]
    BY <1>2 DEF OrderInv, AppliedInOrder, IsCommand
  <1>4. i = j
    BY <1>1, <1>3, PlacesDiffer
  <1> QED
    BY <1>2, <1>3, <1>4
-----------------------------------------------------------------------------
(* The threads never all wait.  Which "e" there are, and who has read them. *)

\* The consumers that have read an "e".
EndReaders ==
  {c \in Consumer : pc[c] = "done" \/ (pc[c] = "unlock" /\ current[c] = End)}

\* After the commands come as many "e" as the producer has inserted, the one in
\* its hand included; it ends when there is one for each consumer.
EndsStored ==
  /\ IF data = End \/ pc[Producer] \in {"end", "done"}
     THEN Stored = Total + ends
     ELSE ends = 0
  /\ pc[Producer] = "done" => ends = numberThreads

\* Each "e" taken has been read by a consumer of its own.
EndsRead ==
  Cardinality(EndReaders) = IF Read <= Total THEN 0 ELSE Read - Total

EndsInv == OrderInv /\ EndsStored /\ EndsRead

LEMMA InitEnds == Init => EndsInv
  <1> SUFFICES ASSUME Init PROVE EndsInv
    OBVIOUS
  <1>1. OrderInv
    BY InitOrder
  <1>2. /\ pc[Producer] = "read" /\ \A c \in Consumer : pc[c] = "wait"
        /\ Read = 0 /\ data # End
    BY QueueAssumption DEF Init, Thread, Read
  <1>3. EndsStored
    BY <1>2 DEF EndsStored, Init
  <1>4. EndReaders = {}
    BY <1>2 DEF EndReaders
  <1>5. Cardinality(EndReaders) = 0
    BY <1>4, FS_EmptySet
  <1>6. Total \in Nat
    BY <1>1, CommandLinesFinite DEF OrderInv, IInv
  <1> QED
    BY <1>1, <1>2, <1>3, <1>5, <1>6 DEF EndsInv, EndsRead

\* What the producer does neither reads a slot nor ends a consumer.
LEMMA ProducerFrameEnds ==
  ASSUME OrderInv, processInput
  PROVE  /\ Read' = Read /\ Total' = Total /\ EndReaders' = EndReaders
         /\ \A n : UpTo(CommandLines, n)' = UpTo(CommandLines, n)
  <1>1. /\ \A c \in Consumer : pc'[c] = pc[c]
        /\ UNCHANGED <<file, headQueue, current>>
    BY QueueAssumption
       DEF OrderInv, IInv, TypeOK, processInput, ReadCommand, SkipComment, errorParse,
           EndOfFile, InsertEnd, EndsInserted, WaitForSlot, Lock, StoreCommand, Unlock,
           PostCommand, Goes, consumerVars, ring, Thread
  <1>2. CommandLines' = CommandLines
    BY <1>1 DEF CommandLines
  <1> QED
    BY <1>1, <1>2 DEF Read, Total, EndReaders, UpTo

LEMMA ProducerKeepsEnds ==
  ASSUME EndsInv, processInput, OrderInv'
  PROVE  EndsInv'
  <1> USE QueueAssumption DEF producerVars, consumerVars, ring
  <1>a. OrderInv /\ TypeOK /\ EndsStored /\ EndsRead /\ LinesRead
    BY DEF EndsInv, OrderInv, IInv
  <1>b. Read' = Read /\ Total' = Total /\ EndReaders' = EndReaders
    BY <1>a, ProducerFrameEnds
  <1>c. EndsRead'
    BY <1>a, <1>b DEF EndsRead
  <1>d. /\ numberCommands \in Nat /\ Total \in Nat /\ ends \in Nat
        /\ numberThreads \in Nat /\ Len(file) \in Nat
        /\ UpTo(CommandLines, Len(file)) = Total
        /\ data \in Command \cup {End, Nothing}
        /\ pc \in [Thread -> ProducerLabel \cup ConsumerLabel]
    <2>1. numberThreads \in Nat
      BY FS_CardinalityType DEF numberThreads
    <2> QED
      BY <1>a, <2>1, CommandLinesFinite DEF TypeOK
  <1>e. Producer \in Thread
    BY DEF Thread
  <1>1. CASE ReadCommand
    <2>1. /\ pc[Producer] = "read" /\ pc'[Producer] = "wait"
          /\ data' = Line /\ Line \in Command /\ ends' = ends
      BY <1>1, <1>d, <1>e DEF ReadCommand, Goes
    <2>2. data # End /\ data' # End
      BY <1>a, <2>1 DEF LinesRead
    <2>3. EndsStored'
      BY <1>a, <2>1, <2>2 DEF EndsStored
    <2> QED
      BY <1>c, <2>3 DEF EndsInv
  <1>2. CASE SkipComment \/ errorParse
    <2>1. /\ pc[Producer] = "read" /\ pc'[Producer] = "read"
          /\ UNCHANGED <<data, ends>>
      BY <1>2, <1>d, <1>e DEF SkipComment, errorParse, Goes
    <2>2. data # End
      BY <1>a, <2>1 DEF LinesRead
    <2>3. EndsStored'
      BY <1>a, <2>1, <2>2 DEF EndsStored
    <2> QED
      BY <1>c, <2>3 DEF EndsInv
  <1>3. CASE EndOfFile
    <2>1. /\ pc[Producer] = "read" /\ pc'[Producer] = "end" /\ lineNumber = Len(file)
          /\ UNCHANGED <<data, ends, numberCommands>>
      BY <1>3, <1>d, <1>e DEF EndOfFile, Goes
    <2>2. data # End /\ Stored = Total /\ ends = 0
      BY <1>a, <1>d, <2>1 DEF LinesRead, EndsStored
    <2>3. Stored' = Stored
      BY <2>1 DEF Stored, InProducer
    <2>4. EndsStored'
      BY <1>b, <1>d, <2>1, <2>2, <2>3 DEF EndsStored
    <2> QED
      BY <1>c, <2>4 DEF EndsInv
  <1>4. CASE InsertEnd
    <2>1. /\ pc[Producer] = "end" /\ pc'[Producer] = "wait"
          /\ data' = End /\ ends' = ends + 1 /\ numberCommands' = numberCommands
      BY <1>4, <1>d, <1>e DEF InsertEnd, Goes
    <2>2. Stored = Total + ends
      BY <1>a, <2>1 DEF EndsStored
    <2>3. Stored' = Stored + 1
      BY <1>d, <2>1 DEF Stored, InProducer
    <2>4. EndsStored'
      BY <1>b, <1>d, <2>1, <2>2, <2>3 DEF EndsStored
    <2> QED
      BY <1>c, <2>4 DEF EndsInv
  <1>5. CASE EndsInserted
    <2>1. /\ pc[Producer] = "end" /\ pc'[Producer] = "done"
          /\ ends = numberThreads /\ UNCHANGED <<data, ends, numberCommands>>
      BY <1>5, <1>d, <1>e DEF EndsInserted, Goes
    <2>2. Stored' = Stored /\ Stored = Total + ends
      BY <1>a, <2>1 DEF EndsStored, Stored, InProducer
    <2>3. numberThreads' = numberThreads
      BY DEF numberThreads
    <2>4. EndsStored'
      BY <1>b, <2>1, <2>2, <2>3 DEF EndsStored
    <2> QED
      BY <1>c, <2>4 DEF EndsInv
  <1>6. CASE WaitForSlot \/ Lock(Producer, "store") \/ StoreCommand
             \/ Unlock(Producer, "post")
    <2>1. /\ pc[Producer] \in {"wait", "lock", "store", "unlock"}
          /\ pc'[Producer] \in {"lock", "store", "unlock", "post"}
          /\ UNCHANGED <<data, ends>>
      BY <1>6, <1>d, <1>e DEF WaitForSlot, Lock, StoreCommand, Unlock, Goes
    <2>2. Stored' = Stored
      BY <1>6, <1>d, <1>e
         DEF Stored, InProducer, WaitForSlot, Lock, StoreCommand, Unlock, Goes
    <2>3. EndsStored'
      BY <1>a, <1>b, <2>1, <2>2 DEF EndsStored
    <2> QED
      BY <1>c, <2>3 DEF EndsInv
  <1>7. CASE PostCommand
    <2>1. /\ pc[Producer] = "post" /\ pc'[Producer] = IF data = End THEN "end" ELSE "read"
          /\ UNCHANGED <<data, ends, numberCommands>>
      BY <1>7, <1>d, <1>e DEF PostCommand, Goes
    <2>2. Stored' = Stored
      BY <2>1 DEF Stored, InProducer
    <2>3. EndsStored'
      BY <1>a, <1>b, <2>1, <2>2 DEF EndsStored
    <2> QED
      BY <1>c, <2>3 DEF EndsInv
  <1> QED
    BY <1>1, <1>2, <1>3, <1>4, <1>5, <1>6, <1>7 DEF processInput

LEMMA ConsumerKeepsEnds ==
  ASSUME EndsInv, NEW c \in Consumer, applyCommands(c), OrderInv'
  PROVE  EndsInv'
  <1> USE QueueAssumption DEF ring, consumerVars, producerVars
  <1>a. /\ OrderInv /\ EndsStored /\ EndsRead /\ OneInside
        /\ pc \in [Thread -> ProducerLabel \cup ConsumerLabel]
        /\ current \in [Consumer -> Command \cup {End, Nothing}]
        /\ headQueue \in Nat
    BY DEF EndsInv, OrderInv, IInv, TypeOK
  <1>b. /\ UNCHANGED <<file, data, ends, numberCommands>>
        /\ \E to : pc' = [pc EXCEPT ![c] = to]
    BY DEF applyCommands, TakeCommand, WaitForCommand, Lock, removeCommand, Unlock,
           GiveSlotBack, ParseCommand, Apply, Goes
  <1>c. pc'[Producer] = pc[Producer] /\ \A d \in Consumer : d # c => pc'[d] = pc[d]
    BY <1>a, <1>b DEF Thread
  <1>d. Total' = Total /\ Stored' = Stored /\ numberThreads' = numberThreads
    BY <1>b, <1>c DEF Total, CommandLines, Stored, InProducer, numberThreads
  <1>e. EndsStored'
    BY <1>a, <1>b, <1>c, <1>d DEF EndsStored
  <1>1. CASE ParseCommand(c)
    <2> DEFINE x == inputCommands[slot[c]]
    <2>1. /\ pc[c] = "parse" /\ pc'[c] = "unlock" /\ current'[c] = x
          /\ \A d \in Consumer : d # c => current'[d] = current[d]
      BY <1>1, <1>a DEF ParseCommand, Goes, Thread
    <2>2. /\ Read \in Nat /\ Total \in Nat /\ Read' = Read + 1
          /\ x = End <=> Total <= Read
      BY <1>1, <1>a, ParseReads
    <2>3. IsFiniteSet(EndReaders) /\ Cardinality(EndReaders) \in Nat /\ c \notin EndReaders
      BY <2>1, FS_Subset, FS_CardinalityType DEF EndReaders
    <2>4. EndReaders' = IF x = End THEN EndReaders \cup {c} ELSE EndReaders
      BY <1>c, <2>1 DEF EndReaders
    <2>5. Cardinality(EndReaders \cup {c}) = Cardinality(EndReaders) + 1
      BY <2>3, FS_AddElement
    <2> HIDE DEF x
    <2>6. EndsRead'
      BY <1>a, <1>d, <2>2, <2>3, <2>4, <2>5 DEF EndsRead
    <2> QED
      BY <1>e, <2>6 DEF EndsInv
  <1>2. CASE removeCommand(c)
    <2>1. /\ pc[c] = "remove" /\ pc'[c] = "parse" /\ headQueue' = headQueue + 1
          /\ current' = current
      BY <1>2, <1>a DEF removeCommand, Goes, Thread
    <2>2. Read' = Read
      <3>1. Read = headQueue
        BY <1>a, <2>1 DEF Read, OneInside
      <3> QED
        BY <1>a, <2>1, <3>1 DEF Read
    <2>3. EndReaders' = EndReaders
      BY <1>c, <2>1 DEF EndReaders
    <2>4. EndsRead'
      BY <1>a, <1>d, <2>2, <2>3 DEF EndsRead
    <2> QED
      BY <1>e, <2>4 DEF EndsInv
  <1>3. CASE \/ WaitForCommand(c) \/ Lock(c, "remove") \/ GiveSlotBack(c) \/ Apply(c)
             \/ Unlock(c, IF current[c] = End THEN "done" ELSE "post")
    <2>1. /\ pc[c] # "parse" /\ pc'[c] # "parse" /\ pc'[c] # "unlock" /\ pc[c] # "done"
          /\ pc'[c] = "done" <=> pc[c] = "unlock" /\ current[c] = End
          /\ \A d \in Consumer : d # c => current'[d] = current[d]
          /\ headQueue' = headQueue
      BY <1>3, <1>a DEF WaitForCommand, Lock, GiveSlotBack, Apply, Unlock, Goes, Thread
    <2>2. \A d \in Consumer : pc'[d] = "parse" <=> pc[d] = "parse"
      BY <1>c, <2>1
    <2>3. Read' = Read
      BY <2>1, <2>2 DEF Read
    <2>4. EndReaders' = EndReaders
      BY <1>c, <2>1 DEF EndReaders
    <2>5. EndsRead'
      BY <1>a, <1>d, <2>3, <2>4 DEF EndsRead
    <2> QED
      BY <1>e, <2>5 DEF EndsInv
  <1> QED
    BY <1>1, <1>2, <1>3 DEF applyCommands, TakeCommand

LEMMA NextEnds == EndsInv /\ [Next]_vars => EndsInv'
  <1> SUFFICES ASSUME EndsInv, [Next]_vars PROVE EndsInv'
    OBVIOUS
  <1>1. OrderInv'
    BY NextOrder DEF EndsInv
  <1>2. CASE processInput
    BY <1>1, <1>2, ProducerKeepsEnds
  <1>3. ASSUME NEW c \in Consumer, applyCommands(c)
        PROVE  EndsInv'
    BY <1>1, <1>3, ConsumerKeepsEnds
  <1>4. CASE JoinAll \/ UNCHANGED vars
    <2>1. UNCHANGED <<file, pc, producerVars, consumerVars, ring>>
      BY <1>4 DEF JoinAll, vars
    <2>2. /\ Read' = Read /\ Total' = Total /\ Stored' = Stored
          /\ EndReaders' = EndReaders /\ numberThreads' = numberThreads
      BY <2>1 DEF Read, Total, CommandLines, Stored, InProducer, EndReaders,
                  numberThreads, producerVars, consumerVars, ring
    <2>3. EndsStored' /\ EndsRead'
      BY <2>1, <2>2 DEF EndsInv, EndsStored, EndsRead, producerVars
    <2> QED
      BY <1>1, <2>3 DEF EndsInv
  <1> QED
    BY <1>2, <1>3, <1>4 DEF Next, Exited

\* The producer stores the commands and then as many "e" as there are consumers;
\* each consumer that ends has read one of its own (main.c:112, main.c:165).
THEOREM EndsInvariance == Spec => []EndsInv
  <1> QED
    BY InitEnds, NextEnds, PTL DEF Spec

\* A thread that waits for the mutex waits for one that does not wait.
LEMMA SomeoneInside ==
  ASSUME IInv, NEW t \in Thread,
         pc[t] = "lock", Mech # "NOSYNC", commandsLock # Nobody
  PROVE  \E u \in Thread : pc[u] # "done" /\ ~Waits(u)
  <1>1. commandsLock \in Thread
    BY DEF IInv, TypeOK
  <1>2. pc[commandsLock] \in {"store", "remove", "parse", "unlock"}
    BY <1>1 DEF IInv, MutualExclusion
  <1>3. pc[commandsLock] # "done" /\ ~Waits(commandsLock)
    BY <1>2 DEF Waits
  <1> QED
    BY <1>1, <1>3

\* Where the threads are when all that have not ended wait.
LEMMA AllWaiting ==
  ASSUME IInv, \A t \in Thread : pc[t] = "done" \/ Waits(t)
  PROVE  /\ pc[Producer] = "done" \/ (pc[Producer] = "wait" /\ sem_prod = 0)
         /\ \A c \in Consumer : pc[c] = "done" \/ (pc[c] = "wait" /\ sem_cons = 0)
         /\ Filling = 0 /\ Announcing = 0 /\ LetIn = 0
         /\ Taken = Cardinality({c \in Consumer : pc[c] = "done"})
  <1> USE QueueAssumption
  <1>1. \A t \in Thread : pc[t] = "done" \/ pc[t] = "wait"
    BY SomeoneInside DEF Waits
  <1>2. /\ pc[Producer] = "done" \/ (pc[Producer] = "wait" /\ sem_prod = 0)
        /\ \A c \in Consumer : pc[c] = "done" \/ (pc[c] = "wait" /\ sem_cons = 0)
    BY <1>1 DEF Waits, Thread
  <1>3. Filling = 0 /\ Announcing = 0
    BY <1>2 DEF Filling, Announcing, InProducer
  <1>4. {c \in Consumer : pc[c] \in {"lock", "remove"}} = {}
    BY <1>2
  <1>5. LetIn = 0
    BY <1>4, FS_EmptySet DEF LetIn, InConsumers
  <1>6. {c \in Consumer : pc[c] \in {"parse", "unlock", "post", "done"}}
          = {c \in Consumer : pc[c] = "done"}
    BY <1>2
  <1> QED
    BY <1>2, <1>3, <1>5, <1>6 DEF Taken, InConsumers

LEMMA NeverAllWaiting ==
  ASSUME EndsInv, numberThreads <= MAX_COMMANDS,
         \A t \in Thread : pc[t] = "done" \/ Waits(t)
  PROVE  \A t \in Thread : pc[t] = "done"
  <1> USE QueueAssumption
  <1> DEFINE Ended == {c \in Consumer : pc[c] = "done"}
  <1>1. /\ IInv /\ OrderInv /\ EndsStored /\ EndsRead /\ LinesRead /\ TypeOK
    BY DEF EndsInv, OrderInv, IInv
  <1>2. /\ pc[Producer] = "done" \/ (pc[Producer] = "wait" /\ sem_prod = 0)
        /\ \A c \in Consumer : pc[c] = "done" \/ (pc[c] = "wait" /\ sem_cons = 0)
        /\ Filling = 0 /\ Announcing = 0 /\ LetIn = 0
        /\ Taken = Cardinality(Ended)
    BY <1>1, AllWaiting
  <1>3. /\ sem_prod + (numberCommands - headQueue) + Cardinality(Ended) = MAX_COMMANDS
        /\ sem_cons = numberCommands - headQueue
    <2>1. /\ sem_prod + Filling + (numberCommands - headQueue) + Taken = MAX_COMMANDS
          /\ sem_cons + Announcing + LetIn = numberCommands - headQueue
      BY <1>1 DEF IInv, SemaphoresAgree, Taken, LetIn, Filling, Announcing
    <2> QED
      BY <1>1, <1>2, <2>1 DEF TypeOK
  <1>4. /\ IsFiniteSet(Ended) /\ Cardinality(Ended) \in Nat
        /\ Cardinality(Ended) <= numberThreads
        /\ Cardinality(Ended) = numberThreads => Ended = Consumer
        /\ numberThreads \in Nat /\ numberThreads > 0
    BY FS_Subset, FS_CardinalityType, FS_EmptySet DEF numberThreads
  <1>5. EndReaders = Ended /\ Read = headQueue
    BY <1>2 DEF EndReaders, Read
  <1>6. /\ Cardinality(Ended) = IF headQueue <= Total THEN 0 ELSE headQueue - Total
    BY <1>1, <1>5 DEF EndsRead
  <1>7. /\ headQueue \in Nat /\ numberCommands \in Nat /\ headQueue <= numberCommands
        /\ Total \in Nat /\ sem_prod \in Nat /\ sem_cons \in Nat /\ ends \in 0..numberThreads
        /\ MAX_COMMANDS \in Nat
    BY <1>1, ReadInRing, CommandLinesFinite DEF TypeOK
  <1>8. UpTo(CommandLines, lineNumber) <= Total
    BY <1>1, CommandLinesFinite, UpToType DEF Total
  <1> HIDE DEF Ended
  <1>9. CASE pc[Producer] = "done"
    <2>1. numberCommands = Total + numberThreads
      BY <1>1, <1>7, <1>9 DEF EndsStored, Stored, InProducer
    <2>2. CASE sem_cons = 0
      <3>1. Cardinality(Ended) = numberThreads
        BY <1>3, <1>4, <1>6, <1>7, <2>1, <2>2
      <3> QED
        BY <1>4, <1>9, <3>1 DEF Ended, Thread
    <2>3. CASE sem_cons # 0
      BY <1>2, <1>9, <2>3 DEF Thread
    <2> QED
      BY <2>2, <2>3
  <1>10. CASE pc[Producer] = "wait" /\ sem_prod = 0
    <2>1. Stored = numberCommands + 1
      BY <1>10 DEF Stored, InProducer
    <2>2. Cardinality(Ended) < numberThreads
      <3>1. CASE data = End
        <4>1. numberCommands + 1 = Total + ends
          BY <1>1, <2>1, <3>1 DEF EndsStored
        <4> QED
          BY <1>4, <1>6, <1>7, <4>1
      <3>2. CASE data # End
        <4>1. UpTo(CommandLines, lineNumber) = numberCommands + 1
          BY <1>1, <1>10, <2>1, <3>2 DEF LinesRead
        <4> QED
          BY <1>4, <1>6, <1>7, <1>8, <4>1
      <3> QED
        BY <3>1, <3>2
    <2>3. sem_cons = 0
      <3>1. Ended # Consumer
        BY <1>4, <2>2 DEF numberThreads
      <3>2. PICK c \in Consumer : pc[c] # "done"
        BY <3>1 DEF Ended
      <3> QED
        BY <1>2, <3>2
    <2>4. Cardinality(Ended) = MAX_COMMANDS
      BY <1>3, <1>4, <1>7, <1>10, <2>3
    <2> QED
      BY <1>4, <1>7, <2>2, <2>4
  <1> QED
    BY <1>2, <1>9, <1>10

\* With a slot for each worker the producer, the consumers and main never all
\* wait, for any file, any number of slots and of consumers, and in every build:
\* run queue_ends shows what happens with a worker more than there are slots.
THEOREM DeadlockFree == Spec => []NeverStuck
  <1>1. EndsInv => NeverStuck
    BY NeverAllWaiting DEF NeverStuck
  <1> QED
    BY <1>1, EndsInvariance, PTL

\* And with more workers than slots main never exits: the consumers that end
\* keep their slots, so they do not all end (main.c:165), whatever the file.
FinishedDone == process = "finished" => \A t \in Thread : pc[t] = "done"

THEOREM TooManyWorkers ==
  Spec => [](numberThreads > MAX_COMMANDS => process # "finished")
  <1>1. Init => FinishedDone
    BY DEF Init, FinishedDone
  <1>2. FinishedDone /\ [Next]_vars => FinishedDone'
    <2> SUFFICES ASSUME FinishedDone, [Next]_vars, process' = "finished"
                 PROVE  \A t \in Thread : pc'[t] = "done"
      BY DEF FinishedDone
    <2>1. CASE process = "running"
      <3>1. CASE JoinAll
        BY <3>1 DEF JoinAll
      <3>2. CASE ~JoinAll
        <4>1. process' # "finished"
          BY <2>1, <3>2
             DEF Next, vars, processInput, ReadCommand, SkipComment, errorParse, EndOfFile,
                 InsertEnd, EndsInserted, WaitForSlot, Lock, StoreCommand, Unlock,
                 PostCommand, applyCommands, TakeCommand, WaitForCommand, removeCommand,
                 GiveSlotBack, ParseCommand, Apply, Exited, Goes
        <4> QED
          BY <4>1
      <3> QED
        BY <3>1, <3>2
    <2>2. CASE process # "running"
      <3>1. UNCHANGED <<process, pc>>
        BY <2>2
           DEF Next, vars, processInput, ReadCommand, SkipComment, errorParse, EndOfFile,
               InsertEnd, EndsInserted, WaitForSlot, Lock, StoreCommand, Unlock,
               PostCommand, applyCommands, TakeCommand, WaitForCommand, removeCommand,
               GiveSlotBack, ParseCommand, Apply, JoinAll, Exited, Goes
      <3> QED
        BY <3>1 DEF FinishedDone
    <2> QED
      BY <2>1, <2>2
  <1>3. IInv /\ FinishedDone => (numberThreads > MAX_COMMANDS => process # "finished")
    <2> SUFFICES ASSUME IInv, FinishedDone, process = "finished"
                 PROVE  ~(numberThreads > MAX_COMMANDS)
      OBVIOUS
    <2>1. {c \in Consumer : pc[c] \in {"parse", "unlock", "post", "done"}} = Consumer
      BY DEF FinishedDone, Thread
    <2>2. Taken = numberThreads
      BY <2>1 DEF Taken, InConsumers, numberThreads
    <2>3. /\ sem_prod + Filling + (numberCommands - headQueue) + Taken = MAX_COMMANDS
          /\ sem_prod \in Nat /\ Filling \in Nat /\ Taken \in Nat /\ MAX_COMMANDS \in Nat
      BY CountTypes, QueueAssumption
         DEF IInv, TypeOK, SemaphoresAgree, Taken, Filling, InProducer
    <2>4. numberCommands - headQueue \in Nat
      BY QueueBarType
    <2> HIDE DEF numberThreads, Taken, Filling
    <2> QED
      BY <2>2, <2>3, <2>4
  <1>4. Spec => []FinishedDone
    BY <1>1, <1>2, PTL DEF Spec
  <1> QED
    BY <1>3, <1>4, Invariance, PTL
-----------------------------------------------------------------------------
(* The steps the program still has to take. *)

Running == IF process = "running" THEN 1 ELSE 0

\* The lines and the "e" the producer has not read yet.
Behind == 14 * (Len(file) - lineNumber) + 14 * (numberThreads - ends)

Parts ==
  /\ Behind \in Nat /\ ProducerRank[pc[Producer]] \in Nat
  /\ sem_cons \in Nat /\ ConsumersRemaining \in Nat /\ Running \in Nat
  /\ Remaining = Behind + ProducerRank[pc[Producer]] + 7 * sem_cons
                 + ConsumersRemaining + Running
  /\ Remaining \in Nat

LEMMA RemainingParts == TypeOK => Parts
  <1> SUFFICES ASSUME TypeOK PROVE Parts
    OBVIOUS
  <1>1. numberThreads \in Nat /\ Len(file) \in Nat
    BY QueueAssumption, FS_CardinalityType DEF numberThreads, TypeOK
  <1>2. Behind \in Nat /\ sem_cons \in Nat
    BY <1>1 DEF TypeOK, Behind
  <1>3. ProducerRank[pc[Producer]] \in Nat
    BY DEF TypeOK, ProducerRank, ProducerLabel
  <1>4. ConsumersRemaining \in Nat
    <2>1. \A labels : InConsumers(labels) \in Nat
      BY CountIsNat
    <2> QED
      BY <2>1 DEF ConsumersRemaining
  <1>5. Running \in Nat
    BY DEF Running
  <1>6. Remaining = Behind + ProducerRank[pc[Producer]] + 7 * sem_cons
                    + ConsumersRemaining + Running
    BY DEF Remaining, Behind, Running
  <1> QED
    BY <1>2, <1>3, <1>4, <1>5, <1>6 DEF Parts

\* What a consumer at a place still has to do with the command it is let in for.
ConsumerRank ==
  [lock |-> 6, remove |-> 5, parse |-> 4, unlock |-> 3, post |-> 2, apply |-> 1,
   wait |-> 0, done |-> 0]

\* A consumer that moves changes its rank, and sem_cons if it was waiting.
LEMMA RemainingAfterConsumer ==
  ASSUME TypeOK, TypeOK', NEW c \in Consumer, NEW to \in ConsumerLabel,
         Goes(c, pc[c], to), UNCHANGED <<lineNumber, ends>>
  PROVE  Remaining' = Remaining - ConsumerRank[pc[c]] + ConsumerRank[to]
                      + 7 * (sem_cons' - sem_cons)
  <1>1. /\ pc \in [Thread -> ProducerLabel \cup ConsumerLabel]
        /\ pc' = [pc EXCEPT ![c] = to]
        /\ pc[c] \in ConsumerLabel
        /\ process' = process /\ file' = file
    BY DEF TypeOK, Goes
  <1>2. pc'[Producer] = pc[Producer]
    BY <1>1, QueueAssumption DEF Thread
  <1>3. \A labels :
          /\ InConsumers(labels) \in Nat
          /\ InConsumers(labels)' = InConsumers(labels)
                                    - (IF pc[c] \in labels THEN 1 ELSE 0)
                                    + (IF to \in labels THEN 1 ELSE 0)
    BY <1>1, CountIsNat, CountAfterMove
  <1>4. ConsumersRemaining' = ConsumersRemaining - ConsumerRank[pc[c]] + ConsumerRank[to]
    BY <1>1, <1>3 DEF ConsumersRemaining, ConsumerRank, ConsumerLabel
  <1>5. ConsumerRank[pc[c]] \in Nat /\ ConsumerRank[to] \in Nat
    BY <1>1 DEF ConsumerRank, ConsumerLabel
  <1>6. Behind' = Behind /\ Running' = Running
    BY <1>1 DEF Behind, Running, numberThreads
  <1>7. /\ Behind \in Nat /\ ProducerRank[pc[Producer]] \in Nat
        /\ sem_cons \in Nat /\ ConsumersRemaining \in Nat /\ Running \in Nat
        /\ Remaining = Behind + ProducerRank[pc[Producer]] + 7 * sem_cons
                        + ConsumersRemaining + Running
    BY RemainingParts DEF Parts
  <1>8. /\ sem_cons' \in Nat
        /\ Remaining' = Behind' + ProducerRank[pc'[Producer]] + 7 * sem_cons'
                        + ConsumersRemaining' + Running'
    <2>1. Parts'
      BY RemainingParts, PTL
    <2> QED
      BY <2>1 DEF Parts
  <1> QED
    BY <1>2, <1>4, <1>5, <1>6, <1>7, <1>8

\* A step of the producer changes its rank and what is left to read.
LEMMA RemainingAfterProducer ==
  ASSUME TypeOK, TypeOK', NEW to \in ProducerLabel, Goes(Producer, pc[Producer], to)
  PROVE  Remaining' = Remaining + (Behind' - Behind)
                      - ProducerRank[pc[Producer]] + ProducerRank[to]
                      + 7 * (sem_cons' - sem_cons)
  <1>1. /\ pc \in [Thread -> ProducerLabel \cup ConsumerLabel]
        /\ pc' = [pc EXCEPT ![Producer] = to]
        /\ process' = process
    BY DEF TypeOK, Goes
  <1>2. pc'[Producer] = to
    BY <1>1, QueueAssumption DEF Thread
  <1>3. \A labels : InConsumers(labels)' = InConsumers(labels)
    BY <1>1, CountAfterProducer
  <1>4. ConsumersRemaining' = ConsumersRemaining
    BY <1>3 DEF ConsumersRemaining
  <1>5. ProducerRank[to] \in Nat
    BY DEF ProducerRank, ProducerLabel
  <1>6. Running' = Running
    BY <1>1 DEF Running
  <1>7. /\ Behind \in Nat /\ ProducerRank[pc[Producer]] \in Nat
        /\ sem_cons \in Nat /\ ConsumersRemaining \in Nat /\ Running \in Nat
        /\ Remaining = Behind + ProducerRank[pc[Producer]] + 7 * sem_cons
                        + ConsumersRemaining + Running
    BY RemainingParts DEF Parts
  <1>8. /\ Behind' \in Nat /\ sem_cons' \in Nat
        /\ Remaining' = Behind' + ProducerRank[pc'[Producer]] + 7 * sem_cons'
                        + ConsumersRemaining' + Running'
    <2>1. Parts'
      BY RemainingParts, PTL
    <2> QED
      BY <2>1 DEF Parts
  <1> QED
    BY <1>2, <1>4, <1>5, <1>6, <1>7, <1>8

LEMMA StepCounts ==
  ASSUME TypeOK, TypeOK', Next
  PROVE  Remaining' < Remaining \/ UNCHANGED vars
  <1> USE QueueAssumption DEF producerVars, consumerVars, ring, sync
  <1>a. /\ lineNumber \in Nat /\ ends \in Nat /\ sem_cons \in Nat /\ Remaining \in Nat
        /\ Len(file) \in Nat /\ numberThreads \in Nat /\ numberThreads' = numberThreads
        /\ Behind \in Nat /\ pc[Producer] \in ProducerLabel
        /\ ConsumersRemaining \in Nat
    <2>1. numberThreads \in Nat /\ numberThreads' = numberThreads
      BY FS_CardinalityType DEF numberThreads
    <2> QED
      BY <2>1, RemainingParts DEF TypeOK, Parts
  <1>p. ASSUME NEW to \in ProducerLabel, Goes(Producer, pc[Producer], to)
        PROVE  Remaining' = Remaining + (Behind' - Behind)
                            - ProducerRank[pc[Producer]] + ProducerRank[to]
                            + 7 * (sem_cons' - sem_cons)
    BY <1>p, RemainingAfterProducer
  <1>1. CASE ReadCommand
    <2>1. /\ pc[Producer] = "read" /\ Goes(Producer, pc[Producer], "wait")
          /\ lineNumber' = lineNumber + 1 /\ UNCHANGED <<ends, sem_cons>>
      BY <1>1 DEF ReadCommand, Goes
    <2>b. Behind' = Behind - 14
      BY <1>a, <2>1 DEF Goes, Behind
    <2> QED
      BY <1>a, <1>p, <2>1, <2>b DEF ProducerRank, ProducerLabel
  <1>2. CASE SkipComment
    <2>1. /\ pc[Producer] = "read" /\ Goes(Producer, pc[Producer], "read")
          /\ lineNumber' = lineNumber + 1 /\ UNCHANGED <<ends, sem_cons>>
      BY <1>2 DEF SkipComment, Goes
    <2>b. Behind' = Behind - 14
      BY <1>a, <2>1 DEF Goes, Behind
    <2> QED
      BY <1>a, <1>p, <2>1, <2>b DEF ProducerRank, ProducerLabel
  <1>3. CASE EndOfFile
    <2>1. /\ pc[Producer] = "read" /\ Goes(Producer, pc[Producer], "end")
          /\ UNCHANGED <<lineNumber, ends, sem_cons>>
      BY <1>3 DEF EndOfFile, Goes
    <2>b. Behind' = Behind
      BY <1>a, <2>1 DEF Goes, Behind
    <2> QED
      BY <1>a, <1>p, <2>1, <2>b DEF ProducerRank, ProducerLabel
  <1>4. CASE InsertEnd
    <2>1. /\ pc[Producer] = "end" /\ Goes(Producer, pc[Producer], "wait")
          /\ ends' = ends + 1 /\ UNCHANGED <<lineNumber, sem_cons>>
      BY <1>4 DEF InsertEnd, Goes
    <2>b. Behind' = Behind - 14
      BY <1>a, <2>1 DEF Goes, Behind
    <2> QED
      BY <1>a, <1>p, <2>1, <2>b DEF ProducerRank, ProducerLabel
  <1>5. CASE EndsInserted
    <2>1. /\ pc[Producer] = "end" /\ Goes(Producer, pc[Producer], "done")
          /\ UNCHANGED <<lineNumber, ends, sem_cons>>
      BY <1>5 DEF EndsInserted, Goes
    <2>b. Behind' = Behind
      BY <1>a, <2>1 DEF Goes, Behind
    <2> QED
      BY <1>a, <1>p, <2>1, <2>b DEF ProducerRank, ProducerLabel
  <1>6. CASE WaitForSlot
    <2>1. /\ pc[Producer] = "wait" /\ Goes(Producer, pc[Producer], "lock")
          /\ UNCHANGED <<lineNumber, ends, sem_cons>>
      BY <1>6 DEF WaitForSlot, Goes
    <2>b. Behind' = Behind
      BY <1>a, <2>1 DEF Goes, Behind
    <2> QED
      BY <1>a, <1>p, <2>1, <2>b DEF ProducerRank, ProducerLabel
  <1>7. CASE Lock(Producer, "store")
    <2>1. /\ pc[Producer] = "lock" /\ Goes(Producer, pc[Producer], "store")
          /\ UNCHANGED <<lineNumber, ends, sem_cons>>
      BY <1>7 DEF Lock, Goes
    <2>b. Behind' = Behind
      BY <1>a, <2>1 DEF Goes, Behind
    <2> QED
      BY <1>a, <1>p, <2>1, <2>b DEF ProducerRank, ProducerLabel
  <1>8. CASE StoreCommand
    <2>1. /\ pc[Producer] = "store" /\ Goes(Producer, pc[Producer], "unlock")
          /\ UNCHANGED <<lineNumber, ends, sem_cons>>
      BY <1>8 DEF StoreCommand, Goes
    <2>b. Behind' = Behind
      BY <1>a, <2>1 DEF Goes, Behind
    <2> QED
      BY <1>a, <1>p, <2>1, <2>b DEF ProducerRank, ProducerLabel
  <1>9. CASE Unlock(Producer, "post")
    <2>1. /\ pc[Producer] = "unlock" /\ Goes(Producer, pc[Producer], "post")
          /\ UNCHANGED <<lineNumber, ends, sem_cons>>
      BY <1>9 DEF Unlock, Goes
    <2>b. Behind' = Behind
      BY <1>a, <2>1 DEF Goes, Behind
    <2> QED
      BY <1>a, <1>p, <2>1, <2>b DEF ProducerRank, ProducerLabel
  <1>10. CASE PostCommand
    <2> DEFINE to == IF data = End THEN "end" ELSE "read"
    <2>1. /\ pc[Producer] = "post" /\ Goes(Producer, pc[Producer], to)
          /\ sem_cons' = sem_cons + 1 /\ UNCHANGED <<lineNumber, ends>>
      BY <1>10 DEF PostCommand, Goes
    <2>2. /\ to \in ProducerLabel /\ ProducerRank["post"] = 10
          /\ ProducerRank[to] \in Nat /\ ProducerRank[to] <= 2
      BY DEF ProducerRank, ProducerLabel
    <2> HIDE DEF to
    <2>b. Behind' = Behind
      BY <1>a, <2>1 DEF Goes, Behind
    <2> QED
      BY <1>a, <1>p, <2>1, <2>b, <2>2
  <1>11. CASE errorParse \/ JoinAll
    <2>1. /\ process = "running" /\ process' # "running"
          /\ UNCHANGED <<file, pc, ends, sem_cons>>
          /\ lineNumber' \in {lineNumber, lineNumber + 1}
      BY <1>11, <1>a DEF errorParse, JoinAll
    <2>2. ConsumersRemaining' = ConsumersRemaining
      BY <2>1 DEF ConsumersRemaining, InConsumers
    <2>3. Behind' <= Behind
      BY <1>a, <2>1 DEF Behind
    <2>4. /\ Remaining = Behind + ProducerRank[pc[Producer]] + 7 * sem_cons
                        + ConsumersRemaining + 1
          /\ ProducerRank[pc[Producer]] \in Nat
      BY <2>1, RemainingParts DEF Parts, Running
    <2>5. /\ Remaining' = Behind' + ProducerRank[pc'[Producer]] + 7 * sem_cons'
                         + ConsumersRemaining' + Running'
          /\ Behind' \in Nat
      <3>1. Parts'
        BY RemainingParts, PTL
      <3> QED
        BY <3>1 DEF Parts
    <2>6. Running' = 0 /\ pc' = pc /\ sem_cons' = sem_cons
      BY <2>1 DEF Running
    <2>7. Remaining' = Behind' + ProducerRank[pc[Producer]] + 7 * sem_cons
                       + ConsumersRemaining
      BY <1>a, <2>2, <2>4, <2>5, <2>6
    <2> QED
      BY <1>a, <2>3, <2>4, <2>5, <2>7
  <1>12. ASSUME NEW c \in Consumer, applyCommands(c)
         PROVE  Remaining' < Remaining
    <2>p. ASSUME NEW to \in ConsumerLabel, Goes(c, pc[c], to), UNCHANGED <<lineNumber, ends>>
          PROVE  Remaining' = Remaining - ConsumerRank[pc[c]] + ConsumerRank[to]
                              + 7 * (sem_cons' - sem_cons)
      BY <2>p, RemainingAfterConsumer
    <2>1. CASE WaitForCommand(c)
      <3>1. /\ pc[c] = "wait" /\ Goes(c, pc[c], "lock")
            /\ sem_cons' = sem_cons - 1 /\ UNCHANGED <<lineNumber, ends>>
        BY <2>1 DEF WaitForCommand, Goes
      <3> QED
        BY <1>a, <2>p, <3>1 DEF ConsumerRank, ConsumerLabel
    <2>2. CASE Lock(c, "remove")
      <3>1. /\ pc[c] = "lock" /\ Goes(c, pc[c], "remove")
            /\ UNCHANGED <<lineNumber, ends, sem_cons>>
        BY <2>2 DEF Lock, Goes
      <3> QED
        BY <1>a, <2>p, <3>1 DEF ConsumerRank, ConsumerLabel
    <2>3. CASE removeCommand(c)
      <3>1. /\ pc[c] = "remove" /\ Goes(c, pc[c], "parse")
            /\ UNCHANGED <<lineNumber, ends, sem_cons>>
        BY <2>3 DEF removeCommand, Goes
      <3> QED
        BY <1>a, <2>p, <3>1 DEF ConsumerRank, ConsumerLabel
    <2>4. CASE ParseCommand(c)
      <3>1. /\ pc[c] = "parse" /\ Goes(c, pc[c], "unlock")
            /\ UNCHANGED <<lineNumber, ends, sem_cons>>
        BY <2>4 DEF ParseCommand, Goes
      <3> QED
        BY <1>a, <2>p, <3>1 DEF ConsumerRank, ConsumerLabel
    <2>5. CASE Unlock(c, IF current[c] = End THEN "done" ELSE "post")
      <3> DEFINE to == IF current[c] = End THEN "done" ELSE "post"
      <3>1. /\ pc[c] = "unlock" /\ Goes(c, pc[c], to)
            /\ UNCHANGED <<lineNumber, ends, sem_cons>>
        BY <2>5 DEF Unlock, Goes
      <3>2. /\ to \in ConsumerLabel /\ ConsumerRank["unlock"] = 3
            /\ ConsumerRank[to] \in Nat /\ ConsumerRank[to] <= 2
        BY DEF ConsumerRank, ConsumerLabel
      <3> HIDE DEF to
      <3> QED
        BY <1>a, <2>p, <3>1, <3>2
    <2>6. CASE GiveSlotBack(c)
      <3>1. /\ pc[c] = "post" /\ Goes(c, pc[c], "apply")
            /\ UNCHANGED <<lineNumber, ends, sem_cons>>
        BY <2>6 DEF GiveSlotBack, Goes
      <3> QED
        BY <1>a, <2>p, <3>1 DEF ConsumerRank, ConsumerLabel
    <2>7. CASE Apply(c)
      <3>1. /\ pc[c] = "apply" /\ Goes(c, pc[c], "wait")
            /\ UNCHANGED <<lineNumber, ends, sem_cons>>
        BY <2>7 DEF Apply, Goes
      <3> QED
        BY <1>a, <2>p, <3>1 DEF ConsumerRank, ConsumerLabel
    <2> QED
      BY <1>12, <2>1, <2>2, <2>3, <2>4, <2>5, <2>6, <2>7 DEF applyCommands, TakeCommand
  <1> QED
    BY <1>1, <1>2, <1>3, <1>4, <1>5, <1>6, <1>7, <1>8, <1>9, <1>10, <1>11, <1>12
       DEF Next, processInput, Exited

\* Every step of the program counts down a natural number that is 3 more than 14
\* for each line and each worker: no execution has more steps, whatever the
\* scheduler does and whether the workers outnumber the slots or not.
THEOREM RunsAreShort ==
  Spec => /\ Remaining = 14 * (Len(file) + numberThreads) + 3
          /\ EveryStepCounts
          /\ [](Remaining \in Nat)
  <1>1. TypeOK => Remaining \in Nat
    BY RemainingParts DEF Parts
  <1>2. TypeOK /\ TypeOK' /\ [Next]_vars => [Remaining' < Remaining]_vars
    BY StepCounts
  <1>3. Init => Remaining = 14 * (Len(file) + numberThreads) + 3
    <2> SUFFICES ASSUME Init PROVE Remaining = 14 * (Len(file) + numberThreads) + 3
      OBVIOUS
    <2>1. TypeOK
      BY InitIInv DEF IInv
    <2>2. /\ Remaining = Behind + ProducerRank[pc[Producer]] + 7 * sem_cons
                        + ConsumersRemaining + Running
          /\ ProducerRank[pc[Producer]] = 2 /\ sem_cons = 0 /\ Running = 1
      BY <2>1, RemainingParts
         DEF Parts, Init, init_variables, ProducerRank, Running, Thread
    <2>3. ConsumersRemaining = 0
      <3>1. ASSUME NEW labels, "wait" \notin labels PROVE InConsumers(labels) = 0
        <4>1. {c \in Consumer : pc[c] \in labels} = {}
          BY <3>1, QueueAssumption DEF Init, Thread
        <4> QED
          BY <4>1, FS_EmptySet DEF InConsumers
      <3> QED
        BY <3>1 DEF ConsumersRemaining
    <2>4. /\ numberThreads \in Nat /\ Len(file) \in Nat
          /\ lineNumber = 0 /\ ends = 0
      BY <2>1, QueueAssumption, FS_CardinalityType DEF Init, TypeOK, numberThreads
    <2>5. Behind = 14 * (Len(file) + numberThreads)
      BY <2>4 DEF Behind
    <2> QED
      BY <2>2, <2>3, <2>4, <2>5
  <1> QED
    BY <1>1, <1>2, <1>3, TypeCorrect, PTL DEF Spec, EveryStepCounts
=============================================================================
