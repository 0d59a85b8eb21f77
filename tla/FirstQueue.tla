----------------------------- MODULE FirstQueue -----------------------------
(***************************************************************************)
(* The first program (Project_1): main reads the whole input file into     *)
(* inputCommands and only then starts the workers, which take the commands *)
(* out and apply them to one tree.                                         *)
(*                                                                         *)
(* lock_function gets its lock by value, so it locks a copy and excludes   *)
(* nobody: every access to a shared integer is a step of its own, and two  *)
(* workers may be in the tree together.  What then comes of the tree is    *)
(* undefined, and so is the execution from there on: process "undefined".  *)
(*                                                                         *)
(* One worker stands for the build without locks as well, which calls      *)
(* applyCommands from main.                                                *)
(***************************************************************************)
EXTENDS Integers, FiniteSets, Sequences

CONSTANTS
  MAX_THREADS,   \* how many workers main may start
  MAX_COMMANDS,  \* room in inputCommands
  Name,
  NoName,        \* the name of a line that has none
  Other,         \* a line that is no command: a comment, or one for errorParse
  File           \* the input files considered

Line == [op : {"c", "l", "d"}, name : Name \cup {NoName}]

Worker == 1..MAX_THREADS
Nobody == 0

ASSUME FirstAssumption ==
  /\ MAX_THREADS \in Nat
  /\ MAX_COMMANDS \in Nat
  /\ NoName \notin Name
  /\ Other \notin Line
  /\ File \subseteq Seq(Line \cup {Other})

VARIABLES
  file,            \* the input file
  line,            \* how many of its lines are read
  workers,         \* the threads started
  process,         \* "reading", "running", or how it has ended
  locks,           \* the thread that holds each lock
  inputCommands,   \* the commands inserted
  numberCommands, headQueue,
  dir, nextINumber,
  pc,              \* where each worker is
  read,            \* what it has read of the integer it is changing
  current,         \* the command it applies
  iNumber,         \* its local
  taken            \* history: the slots taken

input == <<file, line, workers, inputCommands>>
counters == <<numberCommands, headQueue>>
fs == <<dir, nextINumber>>
locals == <<pc, read, current, iNumber>>
vars == <<input, process, locks, counters, fs, locals, taken>>

Label ==
  {"while", "if", "load number", "store number", "load head", "store head", "sscanf",
   "load inumber", "store inumber", "enter", "tree", "inumber", "done"}

NoLine == [op |-> "l", name |-> NoName]

TypeOK ==
  /\ file \in File
  /\ line \in 0..Len(file)
  /\ workers \in SUBSET Worker
  /\ process \in {"reading", "running", "failed", "undefined", "finished"}
  /\ locks \in [{"lock_commands", "lock"} -> Worker \cup {Nobody}]
  /\ inputCommands \in Seq(Line) /\ Len(inputCommands) <= MAX_COMMANDS
  /\ numberCommands \in Int /\ numberCommands <= MAX_COMMANDS
  /\ headQueue \in Nat
  /\ dir \in [Name -> Nat]
  /\ nextINumber \in Nat
  /\ pc \in [workers -> Label]
  /\ read \in [workers -> Int]
  /\ current \in [workers -> Line]
  /\ iNumber \in [workers -> Nat]
  /\ taken \subseteq Nat

lock_init == locks = [l \in {"lock_commands", "lock"} |-> Nobody]

\* The lock a function was given stays as it is: what it locks is its copy.
lock_function(l) == locks[l] = Nobody /\ UNCHANGED locks
unlock_function(l) == UNCHANGED locks

\* dir[n] is 0 for a name that is not there, as lookup has it.
new_tecnicofs == dir = [n \in Name |-> 0] /\ nextINumber = 0

Init ==
  /\ file \in File
  /\ line = 0
  /\ \E n \in Worker : workers = 1..n
  /\ process = "reading"
  /\ lock_init
  /\ new_tecnicofs
  /\ inputCommands = <<>>
  /\ numberCommands = 0
  /\ headQueue = 0
  /\ pc = [t \in workers |-> "while"]
  /\ read = [t \in workers |-> 0]
  /\ current = [t \in workers |-> NoLine]
  /\ iNumber = [t \in workers |-> 0]
  /\ taken = {}
-----------------------------------------------------------------------------
\* (a fault: one command more is inserted than there is room for)
RoomForOneMore == MAX_COMMANDS + 1
Room == MAX_COMMANDS

insertCommand(x) ==
  /\ numberCommands # Room
  /\ inputCommands' = Append(inputCommands, x)
  /\ numberCommands' = numberCommands + 1

IsLine(x) == x # Other

ReadLine ==
  /\ line < Len(file)
  /\ line' = line + 1
  /\ UNCHANGED process
  /\ IF IsLine(file[line']) THEN insertCommand(file[line'])
     ELSE UNCHANGED <<inputCommands, numberCommands>>

\* What follows the command that finds no room is not read.  A command that
\* lacks its name is inserted all the same: errorParse returns.
EndInput ==
  /\ line < Len(file) => IsLine(file[line + 1]) /\ numberCommands = Room
  /\ process' = "running"
  /\ UNCHANGED <<line, inputCommands, numberCommands>>

processInput ==
  /\ process = "reading"
  /\ ReadLine \/ EndInput
  /\ UNCHANGED <<file, workers, locks, headQueue, fs, locals, taken>>

Goes(t, from, to) ==
  /\ process = "running"
  /\ t \in workers
  /\ pc[t] = from
  /\ pc' = [pc EXCEPT ![t] = to]
  /\ UNCHANGED input

\* A load or a store of an integer that all workers share.
Load(t, from, to, value) ==
  /\ Goes(t, from, to)
  /\ read' = [read EXCEPT ![t] = value]
  /\ UNCHANGED <<process, locks, counters, fs, current, iNumber, taken>>

Store(t, from, to) ==
  /\ Goes(t, from, to)
  /\ UNCHANGED <<process, read, current>>

(* removeCommand *)

FindCommand(t) ==
  /\ Goes(t, "if", IF numberCommands > 0 THEN "load number" ELSE "while")
  /\ lock_function("lock_commands")
  /\ UNCHANGED <<process, counters, fs, read, current, iNumber, taken>>

LowerNumber(t) ==
  /\ Store(t, "store number", "load head")
  /\ numberCommands' = read[t] - 1
  /\ unlock_function("lock_commands")
  /\ UNCHANGED <<headQueue, fs, iNumber, taken>>

TakeSlot(t) ==
  /\ Store(t, "store head", "sscanf")
  /\ headQueue' = read[t] + 1
  /\ taken' = taken \cup {read[t]}
  /\ UNCHANGED <<locks, numberCommands, fs, iNumber>>

removeCommand(t) ==
  \/ FindCommand(t)
  \/ Load(t, "load number", "store number", numberCommands)
  \/ LowerNumber(t)
  \/ Load(t, "load head", "store head", headQueue)
  \/ TakeSlot(t)

(* The operations. *)

obtainNewInumber(t) ==
  \/ Load(t, "load inumber", "store inumber", nextINumber)
  \/ /\ Store(t, "store inumber", "enter")
     /\ nextINumber' = read[t] + 1
     /\ iNumber' = [iNumber EXCEPT ![t] = read[t] + 1]
     /\ UNCHANGED <<locks, counters, dir, taken>>

\* Another worker reads what this one changes, or changes what it reads, in the
\* tree; or this one deletes while another has still to read an i-number.
Races(t) ==
  \E u \in workers \ {t} :
    \/ pc[u] = "tree" /\ (current[t].op # "l" \/ current[u].op # "l")
    \/ pc[u] = "inumber" /\ current[t].op = "d"

Enter(t) ==
  /\ Goes(t, "enter", "tree")
  /\ lock_function("lock")
  /\ UNCHANGED <<process, counters, fs, read, current, iNumber, taken>>

\* (a fault: a name that is there keeps its i-number)
AfterInsertOnce(t, n) ==
  CASE current[t].op = "c" /\ dir[n] = 0 -> [dir EXCEPT ![n] = iNumber[t]]
    [] current[t].op = "d" -> [dir EXCEPT ![n] = 0]
    [] OTHER -> dir

AfterOperation(t, n) ==
  CASE current[t].op = "c" -> [dir EXCEPT ![n] = iNumber[t]]
    [] current[t].op = "d" -> [dir EXCEPT ![n] = 0]
    [] OTHER -> dir

Leave(t) ==
  LET n == current[t].name IN
  /\ Goes(t, "tree", IF current[t].op = "l" /\ dir[n] # 0 THEN "inumber" ELSE "while")
  /\ dir' = AfterOperation(t, n)
  /\ process' \in {"running"} \cup IF Races(t) THEN {"undefined"} ELSE {}
  /\ unlock_function("lock")
  /\ UNCHANGED <<counters, nextINumber, read, current, iNumber, taken>>

\* lookup reads the node after its unlock; a delete in the tree may have freed it.
ReadINumber(t) ==
  /\ Goes(t, "inumber", "while")
  /\ \/ process' = "running"
     \/ /\ \E u \in workers \ {t} : pc[u] = "tree" /\ current[u].op = "d"
        /\ process' = "undefined"
  /\ UNCHANGED <<locks, counters, fs, read, current, iNumber, taken>>

(* applyCommands *)

\* (a fault: off by one)
WhileNotNegative(t) ==
  /\ Goes(t, "while", IF numberCommands >= 0 THEN "if" ELSE "done")
  /\ UNCHANGED <<process, locks, counters, fs, read, current, iNumber, taken>>

While(t) ==
  /\ Goes(t, "while", IF numberCommands > 0 THEN "if" ELSE "done")
  /\ UNCHANGED <<process, locks, counters, fs, read, current, iNumber, taken>>

\* A slot nobody has written is empty; what lies past the last is not a slot.
IsCommand(slot) == slot <= Len(inputCommands) /\ inputCommands[slot].name # NoName

\* (a fault: no exit)
ParseOn(t) ==
  LET slot == read[t] + 1 IN
  /\ Goes(t, "sscanf", IF ~IsCommand(slot) THEN "while"
                       ELSE IF inputCommands[slot].op = "c" THEN "load inumber"
                       ELSE "enter")
  /\ current' = [current EXCEPT ![t] = IF IsCommand(slot) THEN inputCommands[slot] ELSE @]
  /\ UNCHANGED <<process, locks, counters, fs, read, iNumber, taken>>

Parse(t) ==
  LET slot == read[t] + 1 IN
  /\ Goes(t, "sscanf", IF ~IsCommand(slot) THEN "done"
                       ELSE IF inputCommands[slot].op = "c" THEN "load inumber"
                       ELSE "enter")
  /\ IF IsCommand(slot)
     THEN current' = [current EXCEPT ![t] = inputCommands[slot]] /\ UNCHANGED process
     ELSE /\ process' \in {"failed"} \cup IF slot > MAX_COMMANDS THEN {"undefined"} ELSE {}
          /\ UNCHANGED current
  /\ UNCHANGED <<locks, counters, fs, read, iNumber, taken>>

applyCommands(t) ==
  /\ t \in workers
  /\ \/ While(t) \/ removeCommand(t) \/ Parse(t)
     \/ obtainNewInumber(t) \/ Enter(t) \/ Leave(t) \/ ReadINumber(t)

(* main *)

JoinAll ==
  /\ process = "running"
  /\ \A t \in workers : pc[t] = "done"
  /\ process' = "finished"
  /\ UNCHANGED <<input, locks, counters, fs, locals, taken>>

Exited == process \notin {"reading", "running"} /\ UNCHANGED vars

Next == processInput \/ (\E t \in Worker : applyCommands(t)) \/ JoinAll \/ Exited

Spec == Init /\ [][Next]_vars

FairSpec ==
  /\ Spec
  /\ WF_vars(processInput) /\ WF_vars(JoinAll)
  /\ \A t \in Worker : WF_vars(applyCommands(t))
-----------------------------------------------------------------------------
(* Properties. *)

\* What a sequential execution of the first k commands leaves behind.
After[k \in Nat] ==
  IF k = 0 THEN [dir |-> [n \in Name |-> 0], next |-> 0]
  ELSE LET s == After[k - 1]
           x == inputCommands[k]
       IN
       CASE x.op = "c" -> [dir |-> [s.dir EXCEPT ![x.name] = s.next + 1], next |-> s.next + 1]
         [] x.op = "d" -> [s EXCEPT !.dir[x.name] = 0]
         [] OTHER -> s

\* Once main has read the file, inputCommands holds the lines of it that are
\* commands, in their order and as far as there is room for them.
LinesUpTo(n) == {i \in DOMAIN file : i <= n /\ IsLine(file[i])}

InputIsFile ==
  LET lines == LinesUpTo(Len(file))
      place(i) == Cardinality(LinesUpTo(i))
  IN
  /\ Len(inputCommands) =
       IF Cardinality(lines) < MAX_COMMANDS THEN Cardinality(lines) ELSE MAX_COMMANDS
  /\ \A i \in lines : place(i) <= MAX_COMMANDS => inputCommands[place(i)] = file[i]

\* One worker applies the commands that fit, each once and in their order, up
\* to the first that lacks its name.
OneWorkerIsSequential ==
  Cardinality(workers) = 1 =>
    /\ process # "undefined"
    /\ process = "failed" =>
         headQueue \in DOMAIN inputCommands /\ inputCommands[headQueue].name = NoName
    /\ process = "finished" =>
         /\ InputIsFile
         /\ taken = 0..(Len(inputCommands) - 1)
         /\ dir = After[Len(inputCommands)].dir
         /\ nextINumber = After[Len(inputCommands)].next

\* Without a lock that works a decrement gets lost and a worker takes a slot
\* past the last command; but as it fails on it, each does so at most once.
HeadBounded == headQueue <= Len(inputCommands) + Cardinality(workers)

\* Lost updates make the workers take commands again, though not for ever.
Termination == <>(process \notin {"reading", "running"})

\* threads.c:25 says that lock_function locks, and removeCommand locks before
\* it takes a command: no command is taken twice.
TakenOnce ==
  [][\A t \in workers : pc[t] = "store head" /\ pc'[t] = "sscanf" => read[t] \notin taken]_vars
=============================================================================
