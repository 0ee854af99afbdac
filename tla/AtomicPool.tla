----------------------------- MODULE AtomicPool -----------------------------
(***************************************************************************)
(* What the connection pool promises to the network code, without its two  *)
(* threads, its mutexes and its counters: each operation happens at once.  *)
(*                                                                         *)
(* A connection is made only when none is free, the one freed last is used *)
(* first, one that waits is freed only after WaitTime, in any order, and   *)
(* each time a connection changes hands its number is incremented once.    *)
(***************************************************************************)
EXTENDS Naturals, Sequences, SequencesExt

CONSTANTS Conns, First, WaitTime, Modulus

VARIABLES
  known,      \* the connections that have been made
  free,       \* those that may be used
  recycling,  \* those that wait
  waited,     \* how long, up to WaitTime, since they were put there
  number      \* iCurrsequence

vars == <<known, free, recycling, waited, number>>

Init ==
  /\ known = {First} /\ free = <<>> /\ recycling = <<>>
  /\ waited = [c \in Conns |-> 0]
  /\ number = [c \in Conns |-> IF c = First THEN 1 ELSE 0]

Count(c) == number' = [number EXCEPT ![c] = (@ + 1) % Modulus]

\* A connection for a new client.
Reuse ==
  /\ free # <<>>
  /\ free' = Tail(free)
  /\ Count(Head(free))
  /\ UNCHANGED <<known, recycling, waited>>

Make(c) ==
  /\ free = <<>> /\ c \notin known
  /\ known' = known \cup {c}
  /\ Count(c)
  /\ UNCHANGED <<free, recycling, waited>>

\* A connection that was not put to use.
Close(c) ==
  /\ c \in known
  /\ free' = <<c>> \o free
  /\ Count(c)
  /\ UNCHANGED <<known, recycling, waited>>

\* A connection whose client has gone.
Recycle(c) ==
  /\ c \in known
  /\ recycling' = <<c>> \o recycling
  /\ waited' = [waited EXCEPT ![c] = 0]
  /\ Count(c)
  /\ UNCHANGED <<known, free>>

Tick ==
  /\ waited' = [c \in Conns |->
       IF c \in ToSet(recycling) /\ waited[c] < WaitTime THEN waited[c] + 1 ELSE waited[c]]
  /\ UNCHANGED <<known, free, recycling, number>>

Free(i) ==
  /\ waited[recycling[i]] >= WaitTime
  /\ recycling' = RemoveAt(recycling, i)
  /\ free' = <<recycling[i]>> \o free
  /\ Count(recycling[i])
  /\ UNCHANGED <<known, waited>>

Next ==
  \/ Reuse
  \/ \E c \in Conns : Make(c) \/ Close(c) \/ Recycle(c)
  \/ \E i \in DOMAIN recycling : Free(i)
  \/ Tick

Spec == Init /\ [][Next]_vars
=============================================================================
