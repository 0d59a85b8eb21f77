---------------------------- MODULE CommandQueue ----------------------------
(***************************************************************************)
(* The workers of TecnicoFS (main.c of Project_2): a producer thread reads *)
(* the input file into a ring of MAX_COMMANDS slots, numberThreads         *)
(* consumers take commands out and apply them, and main joins them all.    *)
(* Two semaphores count free and full slots, a mutex guards the indices.   *)
(*                                                                         *)
(* Applying a command is one step here; module TecnicoFS puts the        *)
(* operations of Directory in its place.                                   *)
(***************************************************************************)
EXTENDS Integers, FiniteSets, Sequences

CONSTANTS
  Producer,      \* the thread of processInput
  Consumer,      \* the threads of applyCommands
  MAX_COMMANDS,  \* slots of the ring
  Mech,          \* the build: "RWLOCK", "MUTEX" or "NOSYNC"
  Command,       \* the lines that parse as commands
  Comment,       \* a line that starts with #
  Invalid,       \* a line that errorParse is for
  End,           \* the command "e"
  Nothing,       \* no command, or a slot that has not been written yet
  Nobody,        \* no thread
  File           \* the input files considered

Thread == Consumer \cup {Producer}
numberThreads == Cardinality(Consumer)

ASSUME QueueAssumption ==
  /\ MAX_COMMANDS \in Nat \ {0}
  /\ IsFiniteSet(Consumer)
  /\ Consumer # {}
  /\ Producer \notin Consumer
  /\ Nobody \notin Thread
  /\ End \notin Command
  /\ Nothing \notin Command \cup {End}
  /\ Comment # Invalid
  /\ {Comment, Invalid} \cap Command = {}
  /\ File \subseteq Seq(Command \cup {Comment, Invalid})
  /\ Mech \in {"RWLOCK", "MUTEX", "NOSYNC"}
  \* The build without locks is run with one worker only (runTests.sh:31).
  /\ Mech = "NOSYNC" => \A c, d \in Consumer : c = d

VARIABLES
  file,            \* the input file
  process,         \* running, or ended by exit(EXIT_FAILURE) or by main's exit
  pc,              \* where each thread is
  lineNumber,      \* lines read
  ends,            \* commands "e" inserted or about to be
  data,            \* the argument of insertCommand
  inputCommands,   \* the ring
  numberCommands,  \* commands put into it
  headQueue,       \* commands taken out
  slot,            \* the slot whose address removeCommand returned
  current,         \* what sscanf has read from that slot
  sem_prod, sem_cons,
  commandsLock,    \* the thread that holds the mutex
  applied          \* history: the commands taken, in that order

producerVars == <<lineNumber, ends, data>>
consumerVars == <<slot, current, applied>>
ring == <<inputCommands, numberCommands, headQueue>>
sync == <<sem_prod, sem_cons, commandsLock>>
vars == <<file, process, pc, producerVars, consumerVars, ring, sync>>

ProducerLabel == {"read", "end", "wait", "lock", "store", "unlock", "post", "done"}
ConsumerLabel == {"wait", "lock", "remove", "parse", "unlock", "post", "apply", "done"}

TypeOK ==
  /\ file \in File
  /\ process \in {"running", "failed", "finished"}
  /\ pc \in [Thread -> ProducerLabel \cup ConsumerLabel]
  /\ pc[Producer] \in ProducerLabel
  /\ \A c \in Consumer : pc[c] \in ConsumerLabel
  /\ lineNumber \in 0..Len(file)
  /\ ends \in 0..numberThreads
  /\ data \in Command \cup {End, Nothing}
  /\ inputCommands \in [0..MAX_COMMANDS-1 -> Command \cup {End, Nothing}]
  /\ numberCommands \in Nat
  /\ headQueue \in Nat
  /\ slot \in [Consumer -> 0..MAX_COMMANDS-1]
  /\ current \in [Consumer -> Command \cup {End, Nothing}]
  /\ sem_prod \in Nat
  /\ sem_cons \in Nat
  /\ commandsLock \in Thread \cup {Nobody}
  /\ applied \in Seq(Command)

\* A fault: one free slot too many.
InitOffByOne ==
  /\ commandsLock = Nobody
  /\ sem_prod = MAX_COMMANDS + 1
  /\ sem_cons = 0

init_variables ==
  /\ commandsLock = Nobody
  /\ sem_prod = MAX_COMMANDS
  /\ sem_cons = 0

Init ==
  /\ init_variables
  /\ file \in File
  /\ process = "running"
  /\ pc = [t \in Thread |-> IF t = Producer THEN "read" ELSE "wait"]
  /\ lineNumber = 0
  /\ ends = 0
  /\ data = Nothing
  /\ inputCommands = [i \in 0..MAX_COMMANDS-1 |-> Nothing]
  /\ numberCommands = 0
  /\ headQueue = 0
  /\ slot = [c \in Consumer |-> 0]
  /\ current = [c \in Consumer |-> Nothing]
  /\ applied = <<>>
-----------------------------------------------------------------------------
\* Thread t gets from one place to another; exit stops every thread.
Goes(t, from, to) ==
  /\ process = "running"
  /\ pc[t] = from
  /\ pc' = [pc EXCEPT ![t] = to]
  /\ UNCHANGED <<file, process>>

\* mutex_lock and mutex_unlock are empty in the build without locks.
\* (a fault: mutex_lock is empty in every build)
mutex_lock_empty(t) == UNCHANGED commandsLock

mutex_lock(t) ==
  IF Mech = "NOSYNC"
  THEN UNCHANGED commandsLock
  ELSE commandsLock = Nobody /\ commandsLock' = t

mutex_unlock ==
  IF Mech = "NOSYNC"
  THEN UNCHANGED commandsLock
  ELSE commandsLock' = Nobody

Lock(t, to) ==
  /\ Goes(t, "lock", to)
  /\ mutex_lock(t)
  /\ UNCHANGED <<producerVars, consumerVars, ring, sem_prod, sem_cons>>

Unlock(t, to) ==
  /\ Goes(t, "unlock", to)
  /\ mutex_unlock
  /\ UNCHANGED <<producerVars, consumerVars, ring, sem_prod, sem_cons>>
-----------------------------------------------------------------------------
(* processInput *)

Line == file[lineNumber + 1]

ReadCommand ==
  /\ lineNumber < Len(file)
  /\ Line \in Command
  /\ Goes(Producer, "read", "wait")
  /\ lineNumber' = lineNumber + 1
  /\ data' = Line
  /\ UNCHANGED <<ends, consumerVars, ring, sync>>

SkipComment ==
  /\ lineNumber < Len(file)
  /\ Line = Comment
  /\ Goes(Producer, "read", "read")
  /\ lineNumber' = lineNumber + 1
  /\ UNCHANGED <<ends, data, consumerVars, ring, sync>>

\* The process ends with whatever the other threads are doing left undone.
errorParse ==
  /\ process = "running"
  /\ pc[Producer] = "read"
  /\ lineNumber < Len(file)
  /\ Line = Invalid
  /\ process' = "failed"
  /\ lineNumber' = lineNumber + 1
  /\ UNCHANGED <<file, pc, ends, data, consumerVars, ring, sync>>

\* (a fault: no "e" is inserted)
EndOfFileDone ==
  /\ lineNumber = Len(file)
  /\ Goes(Producer, "read", "done")
  /\ UNCHANGED <<producerVars, consumerVars, ring, sync>>

EndOfFile ==
  /\ lineNumber = Len(file)
  /\ Goes(Producer, "read", "end")
  /\ UNCHANGED <<producerVars, consumerVars, ring, sync>>

\* One "e" for each consumer.
InsertEnd ==
  /\ ends < numberThreads
  /\ Goes(Producer, "end", "wait")
  /\ ends' = ends + 1
  /\ data' = End
  /\ UNCHANGED <<lineNumber, consumerVars, ring, sync>>

EndsInserted ==
  /\ ends = numberThreads
  /\ Goes(Producer, "end", "done")
  /\ UNCHANGED <<producerVars, consumerVars, ring, sync>>

(* insertCommand *)

WaitForSlot ==
  /\ Goes(Producer, "wait", "lock")
  /\ sem_prod > 0
  /\ sem_prod' = sem_prod - 1
  /\ UNCHANGED <<producerVars, consumerVars, ring, sem_cons, commandsLock>>

\* (a fault: numberCommands is not incremented)
StoreUncounted ==
  /\ Goes(Producer, "store", "unlock")
  /\ inputCommands' = [inputCommands EXCEPT ![numberCommands % MAX_COMMANDS] = data]
  /\ UNCHANGED <<producerVars, consumerVars, numberCommands, headQueue, sync>>

StoreCommand ==
  /\ Goes(Producer, "store", "unlock")
  /\ inputCommands' = [inputCommands EXCEPT ![numberCommands % MAX_COMMANDS] = data]
  /\ numberCommands' = numberCommands + 1
  /\ UNCHANGED <<producerVars, consumerVars, headQueue, sync>>

PostCommand ==
  /\ Goes(Producer, "post", IF data = End THEN "end" ELSE "read")
  /\ sem_cons' = sem_cons + 1
  /\ UNCHANGED <<producerVars, consumerVars, ring, sem_prod, commandsLock>>

processInput ==
  \/ ReadCommand \/ SkipComment \/ errorParse
  \/ EndOfFile \/ InsertEnd \/ EndsInserted
  \/ WaitForSlot \/ Lock(Producer, "store") \/ StoreCommand
  \/ Unlock(Producer, "post") \/ PostCommand
-----------------------------------------------------------------------------
(* applyCommands *)

WaitForCommand(c) ==
  /\ Goes(c, "wait", "lock")
  /\ sem_cons > 0
  /\ sem_cons' = sem_cons - 1
  /\ UNCHANGED <<producerVars, consumerVars, ring, sem_prod, commandsLock>>

\* removeCommand returns the address of the slot, not what is in it ...
\* (faults: the index is not taken modulo the slots, and the newest command is
\* taken instead of the oldest)
RemoveUnwrapped(c) ==
  /\ Goes(c, "remove", "parse")
  /\ slot' = [slot EXCEPT ![c] = headQueue]
  /\ headQueue' = headQueue + 1
  /\ UNCHANGED <<producerVars, current, applied, inputCommands, numberCommands, sync>>
RemoveNewest(c) ==
  /\ Goes(c, "remove", "parse")
  /\ slot' = [slot EXCEPT ![c] = (numberCommands - 1) % MAX_COMMANDS]
  /\ headQueue' = headQueue + 1
  /\ UNCHANGED <<producerVars, current, applied, inputCommands, numberCommands, sync>>

removeCommand(c) ==
  /\ Goes(c, "remove", "parse")
  /\ slot' = [slot EXCEPT ![c] = headQueue % MAX_COMMANDS]
  /\ headQueue' = headQueue + 1
  /\ UNCHANGED <<producerVars, current, applied, inputCommands, numberCommands, sync>>

\* ... which sscanf reads.
ParseCommand(c) ==
  LET x == inputCommands[slot[c]] IN
  /\ Goes(c, "parse", "unlock")
  /\ current' = [current EXCEPT ![c] = x]
  /\ applied' = IF x = End THEN applied ELSE Append(applied, x)
  /\ UNCHANGED <<producerVars, slot, ring, sync>>

\* A consumer that has taken "e" ends without giving the slot back.
\* (a fault: the post is to the semaphore of the full slots)
GiveSlotAsFull(c) ==
  /\ Goes(c, "post", "apply")
  /\ sem_cons' = sem_cons + 1
  /\ UNCHANGED <<producerVars, consumerVars, ring, sem_prod, commandsLock>>

GiveSlotBack(c) ==
  /\ Goes(c, "post", "apply")
  /\ sem_prod' = sem_prod + 1
  /\ UNCHANGED <<producerVars, consumerVars, ring, sem_cons, commandsLock>>

Apply(c) ==
  /\ Goes(c, "apply", "wait")
  /\ current' = [current EXCEPT ![c] = Nothing]
  /\ UNCHANGED <<producerVars, slot, applied, ring, sync>>

TakeCommand(c) ==
  \/ WaitForCommand(c) \/ Lock(c, "remove") \/ removeCommand(c)
  \/ Unlock(c, IF current[c] = End THEN "done" ELSE "post")
  \/ GiveSlotBack(c)

applyCommands(c) == TakeCommand(c) \/ ParseCommand(c) \/ Apply(c)
-----------------------------------------------------------------------------
\* main joins every thread and exits.
\* (a fault: the consumers are not joined)
JoinProducer ==
  /\ process = "running"
  /\ pc[Producer] = "done"
  /\ process' = "finished"
  /\ UNCHANGED <<file, pc, producerVars, consumerVars, ring, sync>>

JoinAll ==
  /\ process = "running"
  /\ \A t \in Thread : pc[t] = "done"
  /\ process' = "finished"
  /\ UNCHANGED <<file, pc, producerVars, consumerVars, ring, sync>>

Exited == process # "running" /\ UNCHANGED vars

Next ==
  \/ processInput
  \/ \E c \in Consumer : applyCommands(c)
  \/ JoinAll
  \/ Exited

Spec == Init /\ [][Next]_vars

\* The scheduler runs every thread that can run.
FairSpec ==
  /\ Spec
  /\ WF_vars(processInput)
  /\ \A c \in Consumer : WF_vars(applyCommands(c))
  /\ WF_vars(JoinAll)
-----------------------------------------------------------------------------
(* Properties. *)

InProducer(labels) == IF pc[Producer] \in labels THEN 1 ELSE 0
InConsumers(labels) == Cardinality({c \in Consumer : pc[c] \in labels})

\* Every slot is free, being filled, full, or taken and not yet given back (as
\* those of the "e" never are, main.c:165); and the full ones are those that
\* sem_cons has announced, the producer is about to announce, or a consumer has
\* been let in for.
SemaphoresAgree ==
  /\ sem_prod + InProducer({"lock", "store"}) + (numberCommands - headQueue)
       + InConsumers({"parse", "unlock", "post", "done"})
     = MAX_COMMANDS
  /\ sem_cons + InProducer({"unlock", "post"}) + InConsumers({"lock", "remove"})
     = numberCommands - headQueue

\* The mutex: one thread at a time at the indices and at nextINumber.
MutualExclusion ==
  Mech # "NOSYNC" =>
    \A t \in Thread :
      pc[t] \in {"store", "remove", "parse", "unlock"} <=> commandsLock = t

\* The producer never writes a slot that a consumer still has to read, and two
\* consumers never read the same one: in no build, with or without the mutex.
NoSlotRace ==
  \A c \in Consumer : pc[c] = "parse" =>
    /\ pc[Producer] \in {"lock", "store"}
         => numberCommands % MAX_COMMANDS # slot[c]
    /\ \A d \in Consumer : d # c /\ pc[d] = "parse" => slot[d] # slot[c]

\* How many elements of S do not exceed n: the place of n, if it is one of them.
UpTo(S, n) == Cardinality({i \in S : i <= n})

\* The lines of the input file that are commands, and whether x is the k-th.
CommandLines == {i \in DOMAIN file : file[i] \in Command}
IsCommand(k, x) == \E i \in CommandLines : UpTo(CommandLines, i) = k /\ x = file[i]

\* Commands are taken in the order of the file, none twice and none skipped,
\* and all of them have been when main exits.
TakenInOrder ==
  /\ \A k \in DOMAIN applied : IsCommand(k, applied[k])
  /\ process = "finished" => Len(applied) = Cardinality(CommandLines)

\* What a thread waits for: the mutex, a free slot, or a command.
Waits(t) ==
  \/ pc[t] = "lock" /\ Mech # "NOSYNC" /\ commandsLock # Nobody
  \/ t = Producer /\ pc[t] = "wait" /\ sem_prod = 0
  \/ t \in Consumer /\ pc[t] = "wait" /\ sem_cons = 0

\* While the program runs its threads never all wait for one another: until
\* they have all ended there is one that has not and waits for nothing.  That
\* takes a slot for every "e", as the consumers that end keep theirs.
NeverStuck ==
  numberThreads <= MAX_COMMANDS /\ process = "running" =>
    \/ \A t \in Thread : pc[t] = "done"
    \/ \E t \in Thread : pc[t] # "done" /\ ~Waits(t)

\* An upper bound on the steps the program still has to take: 14 for a line or
\* an "e" not yet read (7 of the producer, 7 of a consumer), fewer for those on
\* their way, and the last one of main.
ProducerRank ==
  [wait |-> 14, lock |-> 13, store |-> 12, unlock |-> 11, post |-> 10,
   read |-> 2, end |-> 1, done |-> 0]

ConsumersRemaining ==
  6 * InConsumers({"lock"}) + 5 * InConsumers({"remove"}) + 4 * InConsumers({"parse"})
    + 3 * InConsumers({"unlock"}) + 2 * InConsumers({"post"}) + InConsumers({"apply"})

Remaining ==
  14 * (Len(file) - lineNumber) + 14 * (numberThreads - ends)
    + ProducerRank[pc[Producer]] + 7 * sem_cons + ConsumersRemaining
    + (IF process = "running" THEN 1 ELSE 0)

\* No thread goes round its loop for nothing: every step uses up a line, an "e"
\* or a place on the way of one, so a run is never longer than its input makes it.
EveryStepCounts == [][Remaining' < Remaining]_vars

\* The ring is a bounded queue.  A consumer that has the address of a slot has,
\* in the eyes of the others, taken the command.
queueBar ==
  [i \in 1..numberCommands - headQueue |->
     inputCommands[(headQueue + i - 1) % MAX_COMMANDS]]

currentBar ==
  [c \in Consumer |-> IF pc[c] = "parse" THEN inputCommands[slot[c]] ELSE current[c]]

Queue == INSTANCE BoundedQueue WITH
  Element <- Command \cup {End}, queue <- queueBar, current <- currentBar

\* removeCommand and insertCommand are Take and Put of BoundedQueue.
ImplementsBoundedQueue == Queue!Spec

\* The program ends.
Termination == <>(process # "running")

\* main.c:112 says of the commands "e" that each ends a consumer thread; as
\* their slots are not given back, only MAX_COMMANDS of them can be inserted.
EveryConsumerEnds ==
  \A c \in Consumer : <>(pc[c] = "done" \/ process = "failed")
=============================================================================
