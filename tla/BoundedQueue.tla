---------------------------- MODULE BoundedQueue ----------------------------
(***************************************************************************)
(* What the command buffer of TecnicoFS promises to its producer and its   *)
(* consumers: a first-in-first-out queue of at most MAX_COMMANDS commands. *)
(***************************************************************************)
EXTENDS Naturals, Sequences

CONSTANTS Consumer, MAX_COMMANDS, Element, Nothing

VARIABLES
  queue,   \* the commands in the buffer, oldest first
  current  \* the command each consumer has taken out

Init ==
  /\ queue = <<>>
  /\ current = [c \in Consumer |-> Nothing]

Put ==
  /\ Len(queue) < MAX_COMMANDS
  /\ \E x \in Element : queue' = Append(queue, x)
  /\ UNCHANGED current

Take(c) ==
  /\ queue # <<>>
  /\ current[c] = Nothing
  /\ queue' = Tail(queue)
  /\ current' = [current EXCEPT ![c] = Head(queue)]

Forget(c) ==
  /\ current' = [current EXCEPT ![c] = Nothing]
  /\ UNCHANGED queue

Next == Put \/ \E c \in Consumer : Take(c) \/ Forget(c)

Spec == Init /\ [][Next]_<<queue, current>>
=============================================================================
