---------------------------- MODULE AtLeastOnce ----------------------------
(***************************************************************************)
(* What pull mode promises about mail, stated without polling, pages,      *)
(* caches, time-outs or restarts: a delivery leaves the relay's queue only *)
(* after an agent endpoint has taken it.  The word is at-LEAST-once: the   *)
(* promise says nothing of a second copy, and `PullLoop` shows why.        *)
(***************************************************************************)
CONSTANT Deliveries        \* the deliveries the relay holds for this bridge

VARIABLES queue,           \* the deliveries the relay still holds
          received         \* the deliveries some agent endpoint has taken

avars == <<queue, received>>

AInit == /\ queue = Deliveries
         /\ received = {}

\* An agent endpoint takes (a copy of) delivery d.
Receive(d) == /\ received' = received \union {d}
              /\ UNCHANGED queue

\* The relay drops deliveries, each of which an agent has taken.
Settle(D) == /\ D \subseteq received
             /\ queue' = queue \ D
             /\ UNCHANGED received

ANext == \/ \E d \in Deliveries : Receive(d)
         \/ \E D \in SUBSET Deliveries : Settle(D)

ASpec == AInit /\ [][ANext]_avars
=============================================================================
