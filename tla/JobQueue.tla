------------------------------- MODULE JobQueue -------------------------------
(***************************************************************************)
(* What the thread pool promises to the network code, without its mutex,   *)
(* its condition variable and its counters: messages are handed to the     *)
(* workers in the order of their arrival, each to one worker, none after   *)
(* the pool was told to stop, and a message is released once, by the       *)
(* worker that has it or, when the pool is destroyed, by the pool.         *)
(***************************************************************************)
EXTENDS Naturals, Sequences, Functions

CONSTANT Workers

VARIABLES
  pending,   \* messages nobody has taken: a sequence of arrival numbers
  hand,      \* hand[w]: the message worker w has, or 0
  released,  \* messages that were handled and freed
  arrived,   \* how many messages have arrived
  stopped,   \* no message is handed out any more
  over       \* the pool is gone, or the process has died

vars == <<pending, hand, released, arrived, stopped, over>>

Init ==
  /\ pending = <<>>
  /\ hand = [w \in Workers |-> 0]
  /\ released = {}
  /\ arrived = 0
  /\ stopped = FALSE
  /\ over = FALSE

Arrive ==
  /\ ~stopped
  /\ arrived' = arrived + 1
  /\ pending' = Append(pending, arrived + 1)
  /\ UNCHANGED <<hand, released, stopped, over>>

Take(w) ==
  /\ ~stopped
  /\ pending # <<>> /\ hand[w] = 0
  /\ hand' = [hand EXCEPT ![w] = Head(pending)]
  /\ pending' = Tail(pending)
  /\ UNCHANGED <<released, arrived, stopped, over>>

Release(w) ==
  /\ hand[w] # 0
  /\ released' = released \cup {hand[w]}
  /\ hand' = [hand EXCEPT ![w] = 0]
  /\ UNCHANGED <<pending, arrived, stopped, over>>

Stop ==
  /\ stopped' = TRUE
  /\ UNCHANGED <<pending, hand, released, arrived, over>>

\* The pool is destroyed with what nobody took, when no worker has a message; or
\* the process dies.
End ==
  /\ over' = TRUE
  /\ \/ /\ stopped /\ \A w \in Workers : hand[w] = 0
        /\ pending' = <<>>
        /\ released' = released \cup Range(pending)
     \/ UNCHANGED <<pending, released>>
  /\ UNCHANGED <<hand, arrived, stopped>>

Next ==
  /\ ~over
  /\ \/ Arrive
     \/ \E w \in Workers : Take(w) \/ Release(w)
     \/ Stop
     \/ End

Spec == Init /\ [][Next]_vars
=============================================================================
