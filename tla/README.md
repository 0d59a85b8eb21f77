# TecnicoFS in TLA+

TecnicoFS is an in-memory file directory built in three steps. `Project_1` runs
the commands of a file on a pool of threads over one search tree. `Project_2`
hashes the names over several trees with a lock each, feeds the threads through a
bounded ring, and adds a rename. `Project_3` turns the directory into a server:
clients send requests over a Unix socket, one thread per client, and files have
an inode with an owner, permissions and a content.

This directory holds the TLA+ modules, the TLC configurations and the TLAPS
proofs about that code. `PROJECT.json` maps every definition to the lines it
models. The three programs are modelled; [Not modelled](#not-modelled) says what is left
out of each, and [the plan](#plan) what could come next.

## Inventory

| Component | State | Operations | Interacts with |
|---|---|---|---|
| Locks, `Project_2/sync.c`, `sync.h` | holders of each bucket lock | `sync_wrlock`, `sync_rdlock`, `sync_unlock`, `syncMech_try_lock`; three builds | called by the directory; `mutex_*` and `sem_*_err` by the queue |
| Tree, `lib/bst.c` | nodes in memory, the root pointer | `insert`, `search`, `remove_item`, `print_tree`, `free_tree` | called under the lock of the bucket |
| Directory, `Project_2/fs.c` | a tree and a lock per bucket, `nextINumber` | `create`, `delete`, `lookup`, `renameFile`, `obtainNewInumber` | called by the consumers |
| Queue and threads, `Project_2/main.c` | ring, two indices, two semaphores, mutex | `processInput`, `insertCommand`, `removeCommand`, `applyCommands`, `runThreads` | shared memory between the producer and the consumers |
| Inode table, `Project_3/.../lib/inodes.c` | 50 inodes under one mutex | `inode_create`, `_delete`, `_get`, `_set` | called by the session threads |
| Server, `Project_3/.../main.c` | open-file table per session, `newsockfd`, `vector_threads`, `flag_end` | `apply_create` ... `apply_read`, `applyComands`, `socket_create`, `end_server` | sockets; directory and inode table |
| Client, `Project_3/.../client/api.c` | one socket | `tfsMount`, `tfsCreate`, ... | one request and one answer at a time |
| First version, `Project_1/main.c`, `threads.c`, `fs.c` | array of commands, two counters, one tree | `insertCommand`, `removeCommand`, `applyCommands` | threads that share all of it |

What is hard in it, and what makes each part correct:

- **Directory.** A thread holds at most two bucket locks and gives all of them
  back between the lookups and the move of a rename. Correct is: no data race on
  a tree, no lock leaked or given back too soon on any of the paths of
  `renameFile`, no deadlock between crossing renames, and operations that look
  instantaneous to the other threads. What a rename decides on is stale when it
  acts: this is not repaired anywhere and shows in a run of its own.
- **Queue.** Each slot is handed over by two semaphores; the mutex guards the
  indices and the order of i-numbers. `removeCommand` returns a pointer into the
  ring. Correct is: FIFO, nothing lost or taken twice, no slot read and written
  at once, every thread ends.
- **The two together.** A consumer enters an operation under the mutex and
  finishes it outside. Correct is: i-numbers in file order, everything done when
  main prints.
- **Tree.** Sequential, but recursive with a node freed in the middle.
- **Server.** A request takes the bucket lock and the lock of the i-node table one
  after the other and nothing over both, so what a step decides on may be stale at the
  next: the name and its i-node are made and freed at different times, and an i-number is
  used again while descriptors still hold it. Correct is: names and i-nodes agree, requests look
  instantaneous, and a write reaches only a file that permits it, which is not so when open files are deleted.
- **Sessions.** Each session thread reads `newsockfd` from the address of the accept
  loop's variable; `vector_threads` has a fixed size; a connection that is closed without
  "e" is read for ever. Correct is: every client is served by one thread, requests are
  answered, and nothing is freed while a session runs.
- **First version.** Its locks are passed by value, so they exclude nobody. Correct
  would be what it is with one thread: the commands in order, each once.

`PROJECT.json` lists each hazard at its line with the property that watches it.

## Modules

| Module | What it is |
|---|---|
| `SyncMech` | the bucket locks: who holds what, in the build chosen by `Mech` ("RWLOCK", "MUTEX", "NOSYNC") |
| `Directory` | `fs.c`: one action per lock or tree operation of each thread |
| `AtomicDirectory` | what the directory promises: each operation an instant |
| `HashOfName` | `lib/hash.c`: the bucket of a name |
| `DirectoryProofs` | proofs for any threads, names, buckets and hash function |
| `CommandQueue` | `main.c`: producer, consumers, ring, semaphores, mutex, exit and join |
| `BoundedQueue` | what the ring promises: a FIFO of at most `MAX_COMMANDS` commands |
| `CommandQueueProofs` | proofs for any number of consumers and slots |
| `TecnicoFS` | `CommandQueue` and `Directory` composed |
| `TecnicoFSProofs` | proofs about the program, for any file, consumers, slots, names and hash |
| `Bst` | `lib/bst.c` on a heap of nodes |
| `BstProofs` | proofs for any names, i-numbers and addresses: trees of any size |
| `TfsApi` | what client and server agree on: requests, answers, the rule of permissions |
| `Inodes` | `lib/inodes.c`: the table of i-nodes, a function a step |
| `Server` | the requests of `Project_3/.../main.c`, one action per lock section of each session thread |
| `FileService` | what the server promises: each request an instant |
| `ServerProofs` | proofs for any sessions, users, names, buckets and sizes of the tables |
| `Sessions` | connections, session threads, SIGINT and `end_server` |
| `SessionsProofs` | proofs for any clients and any room in `vector_threads` |
| `FirstQueue` | `Project_1`: every load and store of a shared counter is a step |
| `FirstQueueProofs` | proofs for any file, any workers and any room in `inputCommands` |
| `Recursion` | induction over the naturals, and functions defined by recursion over them |
| `MC*` | small instances for TLC |

**Directory.** `dir[n]` stands for the i-number under the key `n` in the tree of
the bucket `Hash[n]`; that trees are such maps is what `SearchFindsMap` of `Bst` says. A thread is at
one of the labels of `pc`, and each call of `sync_*`, `insert`, `remove_item` or
`search` is one step. `renameFile` is split as in the code: two lookups, the
decision, one lock or a lock and a try-lock with back-off, delete, create, unlock.
`cmd`, `iNumber` and `iNumberNew` are the arguments and locals of the call and are
cleared when it returns. The abstraction `dirBar`, `statusBar` maps a rename between its
delete and its create to one that has moved: nobody can look in between.

`Hash` gives each name its bucket. `hash` of `HashOfName` says what `hash.c` makes of the first byte of a name, and the instances
for TLC compute their buckets with it: the bytes 97, 99 and 98 put two of three names into one of two buckets.

**CommandQueue.** `removeCommand` leaves the address of a slot in `slot[c]`, and
`ParseCommand` is the `sscanf` that reads it, so that a slot written too early would
show. `StoreCommand` is the `strcpy` with its increment, which the mutex covers.
`Comment` also stands for a line from which nothing can be read. `exit` in `errorParse` sets
`process` to "failed", after which no thread takes a step. `slot` keeps its last value
when a command has been taken, as does `data`. `applied` is a history variable. `Waits(t)` says what a thread
waits for, in words of the state: the mutex, a slot or a command. `NeverStuck` says that not all do; `Remaining` is an upper bound
on the steps still to come.

**TecnicoFS.** Both modules are instantiated over the same consumers. `FetchCommand`
joins the `sscanf` with the call (and `obtainNewInumber`), `Operate` is a step of
`Directory`, and the return takes the consumer back to the top of its loop. Its properties relate the directory to the
lines of the file: `Reach(n)` is the least set of names with `n` that the renames of the file do not lead out of,
`UpTo(S, i)` the number of lines in `S` up to the `i`-th, and `After[k]` what executing the first `k` lines one after the other leaves.

**Bst.** An operator per C function, from heap to heap; its recursion is a function `f` on the pointers of the heap the
call starts from, and `f[q]` is what the call at `q` yields (no call writes to a node before those below it have returned, and `free_tree`
frees nothing that it reads later unless it comes to a node twice, which `FreesEverything` rules out). `free` removes the address, so a
node used after it is freed is an error of evaluation; keys are integers in the place of `strcmp`. `remove_item` frees the node before it
calls `find_min` and `remove_min`, when its parent still points to it: these two recurse over `Below`, the nodes one can come to
from the right subtree, because over the whole heap with its dangling pointer there would be no such function. `free_tree` yields the order
in which it frees the nodes. `malloc` finds an address, since there is one more than keys.

**Server.** `Server` extends `Inodes`, which extends `TfsApi`. A session thread is at the label
of the next lock section it enters: a lookup, a function of the i-node table, the insert
or removal of a name. Those sections are instants because `Directory` checks that they are and because
the functions of `inodes.c` hold their mutex from the first line to the last. `req[s]` is the request being
executed, `iNumber[s]` the local that is carried from one section to the next, `files` the open-file
table, `answer[s]` what the client reads. `inode_get` of an entry that is free leaves the
caller's variables unset: the model takes any i-node for it. `Call` has a guard, `Conduct`,
which is an assumption about clients and not in the code: two requests that change names of one bucket, or
of which one uses a name the other changes, are not under way together, since the insert of
`apply_create` takes no lock and what comes of the tree is then undefined. With `CloseFirst`, a file that some session has
open is not deleted either.

The refinement to `FileService` lets a delete take effect when its i-node is freed (`namesBar`
hides the name that is still there, as `Leaving`), a create when its name is inserted (`inodesBar` hides an i-node
that has no name yet), and a create that has found the table full when it found it so. `FileService` says what the
last case means to a client: the answer is that of a success and there is no file.

**Sessions.** What a session does with a request is in `Server`; here a request is
answered or not. Connections are numbered in the order of `accept`, and `socket[k]` is the number the
thread `k` found in `newsockfd` when it got to read it, so it may be a later one. `vector_threads` holds
thread numbers; an entry past its end is somebody else's memory and may crash the process. `AtEOF` is a thread
whose `read` answers 0, and `Spin` is its loop.

**FirstQueue.** main reads the file line by line (`processInput`) before it starts the workers. `lock_function`
copies its lock: it waits for nobody and excludes nobody, and the model says so (`lock_function`, `locks`). The load and the store of `numberCommands--`, `headQueue++` and `++nextINumber`
are steps of their own. Two workers in the tree of which one changes it (`Races`), a lookup that reads a node a delete may have
freed (`ReadINumber`), or a slot past the array, may make the process "undefined", from where nothing is said. `taken` is a history variable. `InputIsFile` says what
`inputCommands` must be once the file is read: its commands, in order, as far as there is room.

## Runs

| Run | Bounds | Shows |
|---|---|---|
| `directory` | 2 threads, 3 names in 2 buckets, i-numbers up to 2, RWLOCK | `NoDataRace`, `LocksAgree`, `NoDeadlock`, `NoCircularWait`, `ImplementsAtomicDirectory` |
| `directory_rename` | the same | **violated**: `RenameNeverOverwrites` |
| `queue` | all files of up to 4 lines, 2 consumers, 2 slots | `SemaphoresAgree`, `MutualExclusion`, `NoSlotRace`, `TakenInOrder`, `NeverStuck`, `ImplementsBoundedQueue`, `EveryStepCounts`, `Termination` |
| `queue_ends` | 3 consumers, 2 slots | **violated**: `EveryConsumerEnds` |
| `tecnicofs` | 2 consumers, MUTEX, files of a create and up to 2 lines that race with it and each other | `INumbersFollowFile`, `NothingLost`, `NeverStuck`, `Termination` |
| `tecnicofs_nosync` | 1 consumer, NOSYNC, all files of up to 3 creates, deletes and renames | `OneWorkerIsSequential` |
| `bst` | every tree over 5 keys and 2 i-numbers, 6 addresses | `SearchFindsMap`, `NodesAreOwned`, `PrintsInOrder`, `FreesEverything` |
| `server` | 2 users with a session each, 3 names in 2 buckets, 2 i-nodes, a table of 1 descriptor, clients that close first | `NamesHaveInodes`, `ImplementsFileService` |
| `server_writes` | 2 users with a session each, 1 name, 1 i-node, files only the owner may write or everybody, clients that need not close first | **violated**: `WritesArePermitted` |
| `sessions` | 3 clients, room for 2 threads | `SocketsRunAhead`, `NoSessionAtShutdown`, `RequestsAnswered`, `ShutdownEnds` |
| `first` | 1 or 2 workers, all files of a create and up to 2 lines, one file longer than the 3 slots | `OneWorkerIsSequential`, `HeadBounded`, `Termination` |
| `first_locks` | the same | **violated**: `TakenOnce` |

*Why the bounds are enough.* Two threads and two buckets, one of them with two
names, are what crossing renames, a rename in one bucket and a shared bucket need.
The commands of a thread are not bounded, only the creates are (`MaxINumber`); two
i-numbers are enough to tell a file from the one that overwrites it. The ring of two slots wraps
round twice in four lines and two ends, and is full and empty on the way. Five
keys give the tree every shape in which the least node of the right subtree is
the child or deeper, with and without children. Three names and two i-nodes let a create find the table full; the owner and
another user, who is only allowed to read, are enough for the two branches of
`user_allowed`, and one descriptor for a table that is full. (`CreateModes` and `OpenModes` have one
member each, 12 and 3, so INVALID_MODE is not answered in this run; the proofs cover all modes.) Three clients
and two entries let a connection be overwritten once or twice and `vector_threads` overflow. Three commands
and two workers let an update of either counter be lost and a slot be taken twice, or past the end.

*Deadlock.* TLC checks it in every passing run. `NeverStuck` says of the programs of `Project_2` that some thread waits for nothing,
without ENABLED, so that it can be proved. In `queue_ends` it is switched off,
because the block is what its property reports. A process that has exited stutters
(`Exited`).

*The violations.* `RenameNeverOverwrites`: one thread renames a to b and has found
b missing; another creates b; the first moves a over it. The same gap
lets a rename bring back a file that was deleted meanwhile, or give one i-number two names; all three are steps of
`AtomicDirectory`, which says exactly what is promised instead.
`EveryConsumerEnds`: the slot of an "e" is not given back, so the third "e" does not fit
in the ring of two. The real ring has ten slots: from eleven threads on the program hangs.
`WritesArePermitted`: a write may reach a file only if the permission that file gives the user at that moment is WRITE or RW. In the run the owner of a
file that everybody may write deletes it when another user's `apply_write` is between `user_allowed` and `inode_set`, and creates
one that only he may write; it gets the same i-node, and the write. `v2/client-api-test-delete.c` asserts that a file
that is open cannot be deleted, and `apply_delete` does not look. (`ReadsAreDefined` keeps the run to executions in which `user_allowed` finds an
i-node in use, so that the counterexample does not rest on variables that `inode_get` leaves unset.) `TakenOnce`: the comment at `lock_function` says that it locks, and two workers take one
slot twice.

*Fairness.* `FairSpec` gives each thread weak fairness: a thread that can run is
run by the scheduler. No fairness is assumed of locks or semaphores, so a thread may be
overtaken at a lock as often as others come. With a finite file they stop coming, and `Termination`
holds without more; except when two renames cross, which can back off from each other for
ever (`Crossing`, excluded in `Termination` of `TecnicoFS`). In `Sessions`, the threads of the server have weak fairness,
and the one thing asked of clients is that one whose calls are answered unmounts in the end (strong fairness of `tfsUnmount`,
since it is not enabled while a call is under way); nobody has to connect, to ask or to interrupt, and a client may
die. `RequestsAnswered` excepts a client that no thread ever serves, and `ShutdownEnds` a thread that reads a closed
connection: both happen. In `FirstQueue` weak fairness of the workers is enough: each command taken twice costs
a lost update, and of those there cannot be infinitely many.

## Proofs

All theorems hold for every value of the constants allowed by the assumptions:
any finite set of consumers, any ring, any names, buckets and hash function that maps into the buckets, every build
(with one worker in the build without locks). `NeverStuck` has a condition of its own, a slot for each worker, without which it is false.

**DirectoryProofs.** `LocksAgree` is nearly inductive: it ties the holders of each lock to the places of the
threads, and exclusion of two writers follows from the guard of `sync_wrlock`. The
invariant `IInv` adds `CommandsAgree`: each thread has a command of the kind its label
belongs to, and a rename that holds or wants two locks has two buckets (one that wants one lock has one).
Without it a label would not say which bucket a thread has locked.
`NoCircularWait` follows: a lock is held only at labels where a thread waits for none (`HolderRuns`); in the build without locks
none is ever held (`NoLocks`). It is the reason why `NoDeadlock` holds.
`NoDataRace` follows, since a thread that is about to change or walk a tree holds its lock. For
`Refinement`, each step maps to one of `AtomicDirectory` or to a stutter: the lock
held between the delete and the create of a rename is what makes the move one step, and at
most one thread can be moving to a name.

The hash function is the one assumption that the code does not always meet. `HashInRange` says when it does: `hash` returns a number
between 0 and n-1, as its comment promises, for names that start with an ASCII character, and for others only if n happens to divide
256 minus the byte. `HashJustified` is the assumption itself, for ASCII names and every number of buckets.

**CommandQueueProofs.** `IInv` is `TypeOK`, `SemaphoresAgree`, `MutualExclusion` and four conjuncts that make it inductive:
at most one consumer is between `removeCommand` and the unlock (`OneInside`; by the mutex, or
because there is only one consumer); it has the address of the last slot taken (`SlotIsLast`); all that has been stored is a command
(`StoredAreCommands`, so that what `sscanf` reads is one); and it has none in hand before it reads (`HandEmpty`).
The counting lemmas (`CountAfterMove`) follow the cardinality of the consumers at a set of places through a step.
`NoSlotRace` follows by arithmetic: a slot being read counts as taken in the first
equation of `SemaphoresAgree`, so the index to be written is less than a full turn
ahead of it and `DifferentSlots` applies. This does not need the mutex. `Refinement` then maps
`StoreCommand` to `Put` and `removeCommand` to `Take`; reading the slot later is a stutter because nobody can have written it.

`OrderCorrect` is about the file and not only the ring. `OrderInv` adds to `IInv` what every item on its way is: the commands
read so far are the first of the file (`AppliedInOrder`), the items between `headQueue` and `numberCommands` are
the next (`RingInOrder`), the producer is at the line after them (`LinesRead`), and after the last command there is nothing but an "e"
(`EndsReached`). An "e" that came out too early would be a command lost: that it does not is `EndsReached` and `FinishedAll`.
The place of a line among the commands is a cardinality, so that two lines have two places (`PlacesDiffer`) and no
recursion over the file is needed.

`DeadlockFree` is about the "e". Suppose all threads that have not ended wait; then the mutex is free and they wait for semaphores. If the producer is
done, it has stored as many "e" as there are consumers, and with no command left all of these have ended. If it waits for a slot, a consumer is left that waits
too, so the ring is empty and the slots are all kept by consumers that have ended: fewer than there are consumers, so fewer than there are slots.
`EndsInv` gives the two counts this needs: after the commands the producer has stored as many "e" as `ends` says
(`EndsStored`), and each "e" taken was read by a consumer of its own (`EndsRead`). `TooManyWorkers` is the converse: with more workers than slots
main never exits. That is the finding of `queue_ends`, for every file and all numbers.

`RunsAreShort` proves `EveryStepCounts`: `Remaining` is a natural number, `14 * (Len(file) + numberThreads) + 3` at the start, and each step
makes it smaller. Its terms are the places of a line on its way; the delicate steps are the two around `sem_cons`, where a line goes from
the producer to a consumer. Together with `DeadlockFree` this is why `Termination` holds: no run goes on for ever, and none stops before its end
with every thread waiting. The last inference, from there to "in the end main exits", is liveness under weak fairness and stays with TLC.

**TecnicoFSProofs.** The parts are used by their theorems, not proved again: `QP` and `DP` are the instances of
`CommandQueueProofs` and `DirectoryProofs`, whose assumptions follow from `PartsAssumption`. Every execution of the program is one of
the queue (`QueueBehaves`) and one of the directory (`DirectoryBehaves`). The second is not obvious: `D!Call` needs a consumer
whose last operation has returned and a command in its hand. `Together` says so (a consumer is inside an operation exactly while it
has a command from the ring), and what it reads is a command because of `OrderInv`. From them
and the theorems of the parts follows `PartsRefine`: in the program, too, the ring is a bounded queue and every operation of `fs.c` happens at once.
Four properties of the whole follow besides:

- `NoLineLost`: `LinesInv` carries a create from the ring to the tree: what a consumer executes is a line of the
  file (`HandsAreLines`); a create that has been taken and that no line undoes is in the directory or in a consumer's hands
  (`KeepsCreated`); a rename, which is the only one to overwrite a name, stores an i-number there is (`HasNumber`).
- `NumbersFollowFile`: `NumbersInv` adds that `nextINumber` counts the create lines taken so far (`NumbersCounted`: this is what the
  mutex around `obtainNewInumber` is for) and that every i-number, in the directory or in the hands of a consumer in the middle
  of a create or a rename, came from a create line of a name that renames of the file lead from to where it is (`EntriesHaveOrigin`,
  `HandsHaveOrigin`). The second covers the stale i-number that a rename carries across the gap between its lookups and its move.
- `OneWorkerSequential`: `Sequential` says how far the one worker is: between two operations the directory is `After[i]` for a line `i`
  up to which all commands have been taken; inside one it is `After[i - 1]`, or that without the old name between the delete and the create
  of a rename (`InLine`, one conjunct for each group of labels).
- `DeadlockFree`: a thread that waits for nothing in the queue may still wait for a bucket. By `NoCircularWait` whoever has the bucket is inside an
  operation and waits for none; by `Together` it is past the `sscanf` of its command and not yet back at `sem_wait`, a stretch in which it
  gives the mutex and the slot back and waits for neither (`HolderGoesOn`).

**ServerProofs.** `NamesHaveInodes` speaks of names, i-nodes and requests in the middle of
their work, and none of its sections alone keeps it. `IInv` adds: a session has a request exactly when it is busy (`Idle`);
the requests under way do not clash (`Apart`, which is what `Conduct` gives at every `Call` and what nothing breaks
afterwards); what a session has looked up is still so (`StillSo`: the name of a create is still missing, the i-number carried by a delete
or a rename is still that of its name); and an i-node that has been created and not yet inserted has no
name (`Unnamed`). `Apart` is what makes `StillSo` inductive: whoever
changes a name is the only one that uses it. The proof of `TypeCorrect` needs no conduct of the clients, and covers
the full table, for which `inode_create` returns -1.

`Refinement`, in the second half of the module, assumes `CloseFirst` besides. `RInv` adds to `IInv` what
each session has found out and acts on in a later lock section (`Sound`): the file it is about to delete is open nowhere
(`Unopened`), the i-node it deletes or renames belongs to its user (`Owned`), the new name of a rename is free (`NewIsFree`), the
descriptor it reads or writes through permits it (`Permitted`), and an i-node it has created is as created (`Fresh`). These
hold across the gap between two sections because of two facts about all sessions: a name that one request changes is
in no other request (`Secluded`), and the i-node of every descriptor has a name that is going to stay (`OpenAreNamed`), so it
can be neither freed nor used again. Without `CloseFirst` the second is false, as `server_writes` shows. The
refinement then has one lemma per section: the section in which the request takes effect is the step of `FileService`, the
others are stutters, and the lemmas differ in which of the sections before may already answer with an error.

Permissions are proved without `CloseFirst`. `OwnerRule` says what `user_allowed` lets through, for every permission and mode: what the mode of the descriptor includes
and the file permits, and one thing more. The owner's permission is held against the mode and not against what is asked (`main.c:101`), so an owner with READ only writes, and one with
WRITE only reads, through a descriptor opened RW. This is against what the permissions mean, happens without any concurrency, and is in `FileService` as it is in the code.
`NewFilesOnly` bounds what `server_writes` shows. Call a session that is past `user_allowed` and about to write to a file that does not permit it, `OwnerRule` apart, one
that `Trespasses`. No session is let through into that state (`LetThrough`), and none gets into it later but by the `inode_create` of the very file: so a write that is not permitted reaches
only a file made in between, never one that was there when the writer was let through.

**BstProofs.** What a search tree is cannot be said by recursion here, so it is said by induction: `Tree(h, p, S)`, that `p` is the root
of a search tree whose nodes are those of `S`, holds of the least set of pairs `<<p, S>>` that has the empty tree and is closed under putting a
node above two trees apart from each other, with smaller keys on the left and larger on the right (`Joins`). From the definition follow
`TreeInduction`, in which the formula is a set of pairs as in `Recursion`; `TreeFrame`, that a heap which is the same on `S`
has the tree too; and `TreeRecursion`, that on a tree there is a function with a given value at NULL and at each node a given step from the
values at its children. The last is what lets the equation of each `LET f[q] == ...` be used, in one `...Unfolds` lemma for each C function. By
`TreeInduction`, then:

- `InsertStores` and `RemoveRemoves`: the result is again a search tree, of the nodes there were and at most one new, or of those
  whose key is another; what is outside the tree is as it was, and every other node keeps its key and i-number. `MinIsRemoved`
  says the same of `find_min` and `remove_min`, and `BelowIsTree` that what one comes to from the root of a tree are its nodes.
- `SearchFinds`, `TreeOwned`, `PrintLists`, `FreeLists`: what `search`, the pointers, `print_tree` and `free_tree` are on a tree.

The inductive invariant `IInv` is that the whole heap is a tree (`Tree(heap, root, DOMAIN heap)`) and that its nodes are those of the history
`map` (`Stored`), from which the four properties follow. That no node is lost or shared is not an extra conjunct: a node out of the tree, or
one in both subtrees of another, would contradict `Tree`. `Room`, that `malloc` finds an address, follows from the keys of a tree
being different.

**SessionsProofs.** `SocketsRunAhead` needs `Connections`: `newsockfd` is the number of connections accepted, and each
thread has one, so what a thread finds when it starts is its own or a later one. `NoSessionAtShutdown`
needs `Joins`: an entry of `vector_threads` holds the thread of its place, entries are joined in order, and what has been joined
has ended.

**FirstQueueProofs.** `HeadBounded` speaks of the end of the program; while it runs, `headQueue` may pass the last command only by the
workers that have taken a slot past it and have not looked at it yet (`Past`), and so may what a worker has read of `headQueue` and
is about to write (`WithinReach`). A worker in `Past` ends the process when it parses its slot, so the bound is never used up
twice.

`OneWorkerSequential`: alone, a worker needs no locks. `FileRead` says how far main is with the file, so that at its end
`InputIsFile` holds; `Alone` gives at each label what has become of the two counters, of `taken` and of the directory: a load is still current
when its store comes, `numberCommands` is one ahead of `headQueue` in between, and the directory is `After[headQueue]`, or
`After[headQueue - 1]` until the operation is done.

**Recursion.** `After` is a function defined by recursion, `CHOOSE` the one that satisfies its equation; to use the equation one has to
show that there is such a function, by induction. The induction theorems of the library take the formula as an operator,
which the provers here cannot instantiate. `InductionOverNat` takes the set of the numbers for which it holds instead; it follows from the
well-foundedness of `<` (`NatLessThanWellFounded`, `WFMin`), and `FunctionByRecursion` from it. `AfterUnfolds` in the two proof modules
is an instance.

Only model-checked: `NoDeadlock`, which speaks of ENABLED (its reason, `NoCircularWait`, is proved, and so is `NeverStuck` of the program), and `Termination`, `RequestsAnswered` and `ShutdownEnds`, which are liveness under
fairness. The properties of the four violated runs are false and have no theorem.

## Not modelled

Printing and the wording of messages, timers, argument parsing, the sleep before
the start; failures of `pthread_create`, `malloc`, `fopen` and of
pthread calls, all of which end the process at once or leave the program
as it was; lines longer than the buffer; the counters' overflow (2^31 commands). Names whose bucket is out of range (see
`HashInRange`): what an index below the start of the arrays reaches is up to the compiler (listed as a hazard). The socket examples, test programs and scripts are not part of the system.

Of the server: what happens when two requests clash (see `Conduct`), because the unlocked insert makes
it undefined (without `Conduct`, `NamesHaveInodes` fails in two creates of one name, one of whose i-nodes is left without a name); the descriptor 5, which `apply_close`, `apply_write` and `apply_read` let through to what lies behind a
table of 5; the parsing of requests (a `%s` into one `char`, the terminating zero one past
a buffer that is full); the content that `tfsRead` parses out of the answer; reads of less than
the file. They are listed as hazards. `Conduct` (and `CloseFirst`, where a property needs it) is a discipline
of the clients which nothing in the server enforces. In `Sessions` what a request does is left out, and its answer
is taken to come in the end. The handler of SIGINT runs to its end there, although it calls
`fprintf`, `pthread_join` and `exit`, which are not async-signal-safe and may wait for a lock that the thread it interrupts holds. Of `sync.h`: the preference of the default read-write lock for readers.

Of the first program: more than `MAX_THREADS` workers, for which `tid` has no room and `apply_command_main` does not look.
What happens after two workers have met in the tree, or a lookup has read a node that a delete
has freed, is undefined: `process` is then "undefined" and the model stops.

## Plan

Done: every module of the table above, and a theorem for every invariant and refinement of the passing runs but `NoDeadlock`.

1. Server without `Conduct`: the insert of `apply_create` in two steps, with the outcomes a
   broken tree can have; that two creates of one name both succeed would then show.
2. The read-write lock's preference for readers, as a choice of `SyncMech`, to see which files it can delay and for how long.
3. A measure like `Remaining` for `FirstQueue`, where a command taken twice makes the run longer.
