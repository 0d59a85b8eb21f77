------------------------------ MODULE SyncMech ------------------------------
(***************************************************************************)
(* The locks of TecnicoFS (sync.h and sync.c).  One source is built three  *)
(* times: with -DRWLOCK a lock is a pthread_rwlock_t, with -DMUTEX it is a *)
(* pthread_mutex_t for readers and writers alike, and with neither every   *)
(* operation is do_nothing, which returns 0 (success) at once.             *)
(*                                                                         *)
(* A call that pthreads answers with an error ends the process (the exits  *)
(* of sync.c); none of the calls modelled here can get one, so the wrapper *)
(* of an operation is the operation.                                       *)
(***************************************************************************)
EXTENDS Naturals, FiniteSets

CONSTANTS
  Thread,  \* the threads that use the locks
  Bucket,  \* one lock per entry of the hash table
  Mech     \* the build: "RWLOCK", "MUTEX" or "NOSYNC"

ASSUME MechAssumption == Mech \in {"RWLOCK", "MUTEX", "NOSYNC"}

\* The build without locks is run with one worker only (runTests.sh:31).
ASSUME NoSyncAssumption ==
  Mech = "NOSYNC" => \A t, u \in Thread : t = u

VARIABLES
  readers,  \* readers[b]: the threads that hold b for reading
  writers   \* writers[b]: the threads that hold b exclusively

lockVars == <<readers, writers>>

SyncTypeOK ==
  /\ readers \in [Bucket -> SUBSET Thread]
  /\ writers \in [Bucket -> SUBSET Thread]

sync_init ==
  /\ readers = [b \in Bucket |-> {}]
  /\ writers = [b \in Bucket |-> {}]

Held(b) == readers[b] # {} \/ writers[b] # {}

\* do_nothing: no lock is taken or given back.
do_nothing == Mech = "NOSYNC" /\ UNCHANGED lockVars

\* Blocks while any thread holds the lock.
sync_wrlock(b, t) ==
  \/ do_nothing
  \/ /\ Mech # "NOSYNC"
     /\ ~Held(b)
     /\ writers' = [writers EXCEPT ![b] = {t}]
     /\ UNCHANGED readers

\* A read lock is granted whenever no thread writes (the default attribute of
\* pthread_rwlock_init prefers readers); a mutex knows no readers.
sync_rdlock(b, t) ==
  \/ Mech # "RWLOCK" /\ sync_wrlock(b, t)
  \/ /\ Mech = "RWLOCK"
     /\ writers[b] = {}
     /\ readers' = [readers EXCEPT ![b] = @ \cup {t}]
     /\ UNCHANGED writers

sync_unlock(b, t) ==
  \/ do_nothing
  \/ /\ Mech # "NOSYNC"
     /\ readers' = [readers EXCEPT ![b] = @ \ {t}]
     /\ writers' = [writers EXCEPT ![b] = @ \ {t}]

\* The try-lock that would block answers EBUSY instead and takes nothing.
TryLockFails(b) ==
  /\ Mech # "NOSYNC"
  /\ Held(b)
  /\ UNCHANGED lockVars
=============================================================================
