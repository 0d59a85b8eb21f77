------------------------------ MODULE TecnicoFS ------------------------------
(***************************************************************************)
(* The whole of the second program: the consumers of CommandQueue execute  *)
(* the operations of Directory.  A consumer enters an operation while it   *)
(* still holds commandsLock (a create takes its i-number there) and goes   *)
(* on with it once it has given the mutex and the slot back.               *)
(***************************************************************************)
EXTENDS Integers, FiniteSets, Sequences

CONSTANTS
  Producer, Consumer, MAX_COMMANDS, Comment, Invalid, End, Nothing, Nobody,
  File, Name, Bucket, Hash, Mech, MaxINumber

VARIABLES
  file, process, pc, lineNumber, ends, data, inputCommands, numberCommands,
  headQueue, slot, current, sem_prod, sem_cons, commandsLock, applied,
  dir, nextINumber, opc, cmd, iNumber, iNumberNew, readers, writers

\* The place of a thread inside an operation is opc.
D == INSTANCE Directory WITH Thread <- Consumer, pc <- opc

Q == INSTANCE CommandQueue WITH Command <- D!Command

ASSUME PartsAssumption ==
  /\ Q!QueueAssumption
  /\ D!HashAssumption /\ D!MaxAssumption /\ D!MechAssumption /\ D!NoSyncAssumption

\* Every file's creates get a number: the bound of Directory never binds.
ASSUME EnoughINumbers == \A f \in File : Len(f) <= MaxINumber

queueVars ==
  <<file, process, pc, lineNumber, ends, data, inputCommands, numberCommands,
    headQueue, slot, current, sem_prod, sem_cons, commandsLock, applied>>
directoryVars ==
  <<dir, nextINumber, opc, cmd, iNumber, iNumberNew, readers, writers>>
vars == <<queueVars, directoryVars>>

Init == Q!Init /\ D!Init

\* From sscanf to the call, obtainNewInumber included.
FetchCommand(c) ==
  /\ Q!ParseCommand(c)
  /\ IF current'[c] = End
     THEN UNCHANGED directoryVars
     ELSE D!Call(c, current'[c])

\* A step of create, delete, lookup or renameFile; when it returns, the
\* consumer goes back to the top of its loop.
Operate(c) ==
  /\ process = "running"
  /\ pc[c] = "apply"
  /\ D!Step(c)
  /\ IF opc'[c] = "idle" THEN Q!Apply(c) ELSE UNCHANGED queueVars

processInput == Q!processInput /\ UNCHANGED directoryVars

\* (a fault: obtainNewInumber is called once the mutex has been given back)
NumberOutsideLock(c) ==
  \/ (Q!TakeCommand(c) \/ Q!ParseCommand(c)) /\ UNCHANGED directoryVars
  \/ /\ pc[c] = "apply"
     /\ D!Call(c, current[c])
     /\ UNCHANGED queueVars
  \/ Operate(c)

applyCommands(c) ==
  \/ Q!TakeCommand(c) /\ UNCHANGED directoryVars
  \/ FetchCommand(c)
  \/ Operate(c)

JoinAll == Q!JoinAll /\ UNCHANGED directoryVars

Exited == Q!Exited /\ UNCHANGED directoryVars

Next ==
  \/ processInput
  \/ \E c \in Consumer : applyCommands(c)
  \/ JoinAll
  \/ Exited

Spec == Init /\ [][Next]_vars

\* The scheduler runs every thread that can run.
FairSpec ==
  /\ Spec
  /\ WF_vars(processInput)
  /\ \A c \in Consumer : WF_vars(applyCommands(c))
  /\ WF_vars(JoinAll)
-----------------------------------------------------------------------------
(* Properties. *)

OfKind(kind) == {i \in DOMAIN file : file[i] \in D!Command /\ file[i].kind = kind}

\* The names a file created as n may end up with after the renames of the
\* file: the least set with n that the renames do not lead out of.
RenamedFrom(S) == {file[i].name2 : i \in {j \in OfKind("rename") : file[j].name \in S}}

Reach(n) ==
  {m \in Name : \A S \in SUBSET Name : n \in S /\ RenamedFrom(S) \subseteq S => m \in S}

\* However the workers interleave, the k-th create line of the file has the
\* i-number k (obtainNewInumber runs under commandsLock, main.c:138), and an
\* i-number is only ever found under its own name or one it was renamed to.
INumbersFollowFile ==
  \A n \in Name : dir[n] # D!NotFound =>
    \E i \in OfKind("create") :
      /\ Q!UpTo(OfKind("create"), i) = dir[n]
      /\ n \in Reach(file[i].name)

\* When main prints the tree every line has had its effect: a name that is
\* created, and that no line deletes or renames, is there; a name that no line
\* creates or renames to is not.
NothingLost ==
  process = "finished" =>
    \A n \in Name :
      LET made == \/ \E i \in OfKind("create") : file[i].name = n
                  \/ \E i \in OfKind("rename") : file[i].name2 = n
          created == \E i \in OfKind("create") : file[i].name = n
          removed == \E i \in OfKind("delete") \cup OfKind("rename") : file[i].name = n
      IN
      /\ created /\ ~removed => dir[n] # D!NotFound
      /\ ~made => dir[n] = D!NotFound

\* What a thread waits for: a lock or a semaphore of the queue, or the lock of a
\* bucket that another consumer has.
Waits(t) ==
  \/ Q!Waits(t)
  \/ t \in Consumer /\ pc[t] = "apply" /\ D!WaitsFor(t) # {}

\* Nor do the threads ever all wait when the two kinds of locks meet: a consumer
\* that has a bucket holds up others, but neither the mutex nor a semaphore can
\* hold it up before it gives the bucket back.
NeverStuck ==
  Q!numberThreads <= MAX_COMMANDS /\ process = "running" =>
    \/ \A t \in Q!Thread : pc[t] = "done"
    \/ \E t \in Q!Thread : pc[t] # "done" /\ ~Waits(t)

\* What a sequential execution of the first k lines leaves behind.
After[k \in Nat] ==
  IF k = 0
  THEN [dir |-> [n \in Name |-> D!NotFound], next |-> 0]
  ELSE LET s == After[k - 1]
           x == file[k]
       IN
       CASE k \in OfKind("create") ->
              [dir |-> [s.dir EXCEPT ![x.name] = s.next + 1], next |-> s.next + 1]
         [] k \in OfKind("delete") -> [s EXCEPT !.dir[x.name] = D!NotFound]
         [] k \in OfKind("rename") ->
              IF s.dir[x.name] # D!NotFound /\ s.dir[x.name2] = D!NotFound
              THEN [s EXCEPT !.dir[x.name2] = s.dir[x.name], !.dir[x.name] = D!NotFound]
              ELSE s
         [] OTHER -> s

\* With one worker the program is the sequential one: whatever the producer is
\* ahead by, the directory main prints is that of the lines in their order.
OneWorkerIsSequential ==
  Cardinality(Consumer) = 1 /\ process = "finished" =>
    dir = After[Len(file)].dir /\ nextINumber = After[Len(file)].next

\* Two renames that move between the same two buckets in opposite directions
\* can fail each other's try-lock for ever; no other commands can.
Crossing(f) ==
  \E i, j \in DOMAIN f :
    /\ {f[i], f[j]} \subseteq D!Command
    /\ f[i].kind = "rename" /\ f[j].kind = "rename"
    /\ Hash[f[i].name] # Hash[f[i].name2]
    /\ Hash[f[i].name] = Hash[f[j].name2] /\ Hash[f[i].name2] = Hash[f[j].name]

\* Every execution of a file without crossing renames ends.
Termination == ~Crossing(file) => <>(process # "running")
=============================================================================
