--------------------------- MODULE PullLoopProofs ---------------------------
(***************************************************************************)
(* Pull mode for any number of systems, deliveries and faults: what is     *)
(* ACKed was taken, every extra copy has a fault to its name, the loop     *)
(* implements AtLeastOnce, and its back-off never shrinks.  All of it      *)
(* rests on the inductive invariant PullInv, proved one action at a time.  *)
(***************************************************************************)
EXTENDS PullLoop, TLAPS

Assumptions == /\ Owner \in [Deliveries -> Systems]
               /\ Email \in [Deliveries -> Emails]
               /\ Limit \in Nat \ {0}
               /\ PollInterval \in Nat
               /\ MaxBackoff \in Nat
               /\ MaxExponent \in Nat

(* What PullLoop assumes of its constants, in one place. *)
LEMMA AssumptionsHold == Assumptions
  BY OwnerAssumption, EmailAssumption, NumberAssumption DEF Assumptions

USE DEF loopVars, relayVars, agentVars, faultVars, outside

(* A loop starts with nothing in hand and the relay with everything pending. *)
LEMMA InitInv == Init => PullInv
  <1> SUFFICES ASSUME Init PROVE PullInv
    OBVIOUS
  <1>0. MaxExponent \in Nat /\ 0 \in 0..MaxExponent
    BY AssumptionsHold DEF Assumptions
  <1>1. TypeOK
    BY <1>0 DEF Init, TypeOK, Phases, Sleeps
  <1>2. OwnWork /\ AckableWasTaken /\ AckedWasTaken
    BY DEF Init, OwnWork, AckableWasTaken, AckedWasTaken
  <1>3. Ledger
    BY AssumptionsHold DEF Init, Ledger, InFlight, Remembered, Assumptions
  <1> QED
    BY <1>1, <1>2, <1>3 DEF PullInv

(* A step that leaves the counters, the posts and the caches alone disturbs
   neither the ledger nor what was taken. *)
LEMMA LedgerFrame ==
  ASSUME PullInv,
         UNCHANGED <<posting, seen, latePosts, copies, timeouts, expiries, restarts>>
  PROVE  Ledger'
  BY DEF PullInv, Ledger, InFlight, Remembered


(* The alternatives of a step, for the case splits below. *)
LEMMA NextCases ==
  ASSUME Next
  PROVE  \/ \E s \in Systems :
              \/ Stop(s) \/ BeginCycle(s)
              \/ FetchPage(s) \/ FetchNothing(s) \/ FetchFailed(s)
              \/ FinishPage(s) \/ AckOk(s) \/ AckFailed(s) \/ AckTimeout(s)
              \/ Wake(s)
         \/ \E s \in Systems, d \in Deliveries :
              \/ SkipSeen(s, d) \/ StartPost(s, d) \/ MissRoute(s, d)
              \/ MatchPattern(s, d) \/ SkipUnrouted(s, d)
              \/ PostOk(s, d) \/ PostFailed(s, d) \/ PostTimeout(s, d)
              \/ Expire(s, d)
         \/ \E d \in Deliveries : LatePostTaken(d) \/ LateAckApplied(d)
         \/ \E E \in SUBSET Emails : RoutesChange(E) \/ Restart(E)
         \/ RequestShutdown
  BY DEF Next, Loop, Environment, Fetch, Ack, Handle, Answer

(* No step leaves the types. *)
LEMMA TypeStep == ASSUME TypeOK, [Next]_vars PROVE TypeOK'
  <1> USE DEF TypeOK, Phases, Sleeps, Goto
  <1>a. /\ MaxExponent \in Nat /\ 0 \in 0..MaxExponent
        /\ Email \in [Deliveries -> Emails]
    BY AssumptionsHold DEF Assumptions
  <1>1. ASSUME NEW s \in Systems, Stop(s) PROVE TypeOK'
    BY <1>1 DEF Stop
  <1>2. ASSUME NEW s \in Systems, BeginCycle(s) PROVE TypeOK'
    BY <1>2 DEF BeginCycle
  <1>3. ASSUME NEW s \in Systems, FetchPage(s) PROVE TypeOK'
    BY <1>a, <1>3 DEF FetchPage, Fetched, Offered
  <1>4. ASSUME NEW s \in Systems, FetchNothing(s) PROVE TypeOK'
    BY <1>a, <1>4 DEF FetchNothing, Fetched
  <1>5. ASSUME NEW s \in Systems, FetchFailed(s) PROVE TypeOK'
    BY <1>a, <1>5 DEF FetchFailed, FetchError
  <1>6. ASSUME NEW s \in Systems, NEW d \in Deliveries, SkipSeen(s, d) PROVE TypeOK'
    BY <1>6 DEF SkipSeen, Look
  <1>7. ASSUME NEW s \in Systems, NEW d \in Deliveries, SkipUnrouted(s, d) PROVE TypeOK'
    BY <1>7 DEF SkipUnrouted, EndScan
  <1>8. ASSUME NEW s \in Systems, NEW d \in Deliveries, StartPost(s, d) PROVE TypeOK'
    BY <1>a, <1>8 DEF StartPost, SendPost, Look
  <1>9. ASSUME NEW s \in Systems, NEW d \in Deliveries, PostOk(s, d) PROVE TypeOK'
    BY <1>9 DEF PostOk, EndPost
  <1>10. ASSUME NEW s \in Systems, NEW d \in Deliveries, PostFailed(s, d) PROVE TypeOK'
    BY <1>10 DEF PostFailed, EndPost
  <1>11. ASSUME NEW s \in Systems, NEW d \in Deliveries, PostTimeout(s, d) PROVE TypeOK'
    BY <1>11 DEF PostTimeout, EndPost
  <1>12. ASSUME NEW s \in Systems, FinishPage(s) PROVE TypeOK'
    BY <1>12 DEF FinishPage
  <1>13. ASSUME NEW s \in Systems, AckOk(s) PROVE TypeOK'
    BY <1>13 DEF AckOk, EndCycle
  <1>14. ASSUME NEW s \in Systems, AckFailed(s) PROVE TypeOK'
    BY <1>14 DEF AckFailed, EndCycle
  <1>15. ASSUME NEW s \in Systems, AckTimeout(s) PROVE TypeOK'
    BY <1>15 DEF AckTimeout, EndCycle
  <1>16. ASSUME NEW s \in Systems, Wake(s) PROVE TypeOK'
    BY <1>16 DEF Wake, WakeTo
  <1>17. ASSUME NEW s \in Systems, NEW d \in Deliveries, Expire(s, d) PROVE TypeOK'
    BY <1>17 DEF Expire
  <1>18. ASSUME NEW d \in Deliveries, LatePostTaken(d) PROVE TypeOK'
    BY <1>18 DEF LatePostTaken
  <1>19. ASSUME NEW d \in Deliveries, LateAckApplied(d) PROVE TypeOK'
    BY <1>19 DEF LateAckApplied
  <1>20. ASSUME NEW E \in SUBSET Emails, RoutesChange(E) PROVE TypeOK'
    BY <1>20 DEF RoutesChange
  <1>21. ASSUME NEW s \in Systems, NEW d \in Deliveries,
                MissRoute(s, d) \/ MatchPattern(s, d)
         PROVE  TypeOK'
    BY <1>a, <1>21 DEF MissRoute, MatchPattern, Look, EndScan, SendPost
  <1>22. CASE RequestShutdown
    BY <1>22 DEF RequestShutdown
  <1>23. ASSUME NEW E \in SUBSET Emails, Restart(E) PROVE TypeOK'
    <2>1. latePosts' \in [Deliveries -> Nat]
      BY <1>23 DEF Restart
    <2>2. lateAcks' \subseteq Deliveries
      BY <1>23 DEF Restart
    <2>3. /\ phase' \in [Systems -> Phases] /\ failures' \in [Systems -> 0..MaxExponent]
          /\ sleep' \in [Systems -> Sleeps]
      BY <1>a, <1>23 DEF Restart
    <2>4. /\ page' \in [Systems -> SUBSET Deliveries]
          /\ scan' \in [Systems -> SUBSET Deliveries]
          /\ posting' \in [Systems -> SUBSET Deliveries]
          /\ ackIds' \in [Systems -> SUBSET Deliveries]
          /\ seen' \in [Systems -> SUBSET Deliveries]
      BY <1>23 DEF Restart
    <2>5. /\ exact' \subseteq Emails /\ shutdown' \in BOOLEAN
          /\ pending' \subseteq Deliveries
      BY <1>23 DEF Restart
    <2>6. /\ copies' \in [Deliveries -> Nat] /\ timeouts' \in [Deliveries -> Nat]
          /\ expiries' \in [Deliveries -> Nat]
      BY <1>23 DEF Restart
    <2>7. restarts' \in Nat
      BY <1>23 DEF Restart
    <2> QED
      BY <2>1, <2>2, <2>3, <2>4, <2>5, <2>6, <2>7
  <1>24. CASE UNCHANGED vars
    BY <1>24 DEF vars
  <1> QED
    BY NextCases, <1>1, <1>2, <1>3, <1>4, <1>5, <1>6, <1>7, <1>8, <1>9, <1>10, <1>11, <1>12, <1>13, <1>14, <1>15, <1>16, <1>17, <1>18, <1>19, <1>20, <1>21, <1>22, <1>23, <1>24

(* A step after which no loop has taken up other work keeps OwnWork. *)
LEMMA OwnWorkFrame ==
  ASSUME PullInv, UNCHANGED posting,
         \A s \in Systems : /\ page'[s] \subseteq page[s]
                            /\ scan'[s] \subseteq scan[s]
                            /\ ackIds'[s] \subseteq ackIds[s]
                            /\ seen'[s] \subseteq seen[s]
                            /\ phase'[s] # "post" => phase[s] # "post"
                            /\ phase'[s] # "scan" => phase[s] # "scan" \/ scan'[s] = {}
  PROVE  OwnWork'
  BY DEF PullInv, OwnWork

(* A step that hands out no new id to ACK, and neither forgets a copy nor
   lets the relay drop anything, keeps both claims about what was taken. *)
LEMMA TakenFrame ==
  ASSUME PullInv, UNCHANGED <<copies, lateAcks, pending>>,
         \A s \in Systems : /\ ackIds'[s] \subseteq ackIds[s]
                            /\ seen'[s] \subseteq seen[s]
  PROVE  AckableWasTaken' /\ AckedWasTaken'
  BY DEF PullInv, AckableWasTaken, AckedWasTaken

(* The steps that only move a loop along. *)
LEMMA ControlInv ==
  ASSUME PullInv, NEW s \in Systems,
         \/ Stop(s) \/ BeginCycle(s) \/ FetchNothing(s) \/ FetchFailed(s)
         \/ FinishPage(s) \/ Wake(s)
  PROVE  OwnWork' /\ Ledger' /\ AckableWasTaken' /\ AckedWasTaken'
  <1> USE DEF Stop, BeginCycle, FetchNothing, Fetched, FetchFailed, FetchError,
              FinishPage, Wake, WakeTo, Goto
  <1>1. /\ \A t \in Systems : /\ page'[t] \subseteq page[t]
                              /\ phase'[t] # "post" => phase[t] # "post"
                              /\ phase'[t] # "scan" => phase[t] # "scan"
        /\ UNCHANGED <<scan, posting, ackIds, seen, copies, lateAcks, pending,
                       latePosts, timeouts, expiries, restarts>>
    BY DEF PullInv, TypeOK
  <1> QED
    BY <1>1, OwnWorkFrame, TakenFrame, LedgerFrame

(* A fetched page holds deliveries of the loop's own system only. *)
LEMMA FetchPageInv ==
  ASSUME PullInv, NEW s \in Systems, FetchPage(s)
  PROVE  OwnWork' /\ Ledger' /\ AckableWasTaken' /\ AckedWasTaken'
  <1> PICK D \in SUBSET Offered(s) : Fetched(s, D)
    BY DEF FetchPage
  <1>1. \A d \in D : Owner[d] = s
    BY DEF Offered
  <1>2. OwnWork'
    BY <1>1 DEF Fetched, Goto, PullInv, TypeOK, OwnWork
  <1>3. Ledger' /\ AckableWasTaken' /\ AckedWasTaken'
    BY LedgerFrame, TakenFrame DEF Fetched
  <1> QED
    BY <1>2, <1>3

(* A delivery that is POSTed is not in the cache: it is in flight and
   remembered from now on, and the ledger gains on both sides. *)
LEMMA PostedLedger ==
  ASSUME PullInv, NEW s \in Systems, NEW d \in Deliveries,
         Owner[d] = s, posting[s] = {}, d \notin seen[s],
         posting' = [posting EXCEPT ![s] = {d}],
         UNCHANGED <<seen, copies, latePosts, timeouts, expiries, restarts>>
  PROVE  Ledger'
  <1>1. ASSUME NEW c \in Deliveries
        PROVE  InFlight(c)' - InFlight(c) = Remembered(c)' - Remembered(c)
    <2>1. Owner[c] \in Systems
      BY AssumptionsHold DEF Assumptions
    <2>2. CASE c = d
      BY <2>2 DEF InFlight, Remembered, PullInv, TypeOK
    <2>3. CASE c # d
      BY <2>1, <2>3 DEF InFlight, Remembered, PullInv, TypeOK
    <2> QED
      BY <2>2, <2>3
  <1> QED
    BY <1>1 DEF PullInv, TypeOK, Ledger, InFlight, Remembered

(* Looking at a delivery: a cached one was taken, so it may be ACKed; the
   others are not in the cache, now or when their lookup ends. *)
LEMMA HandleInv ==
  ASSUME PullInv, NEW s \in Systems, NEW d \in Deliveries,
         \/ SkipSeen(s, d) \/ StartPost(s, d) \/ MissRoute(s, d)
         \/ MatchPattern(s, d) \/ SkipUnrouted(s, d)
  PROVE  OwnWork' /\ Ledger' /\ AckableWasTaken' /\ AckedWasTaken'
  <1> USE DEF Look, EndScan, Goto
  <1>0. Owner[d] = s /\ posting[s] = {}
    BY DEF SkipSeen, StartPost, MissRoute, MatchPattern, SkipUnrouted, PullInv, OwnWork
  <1>1. CASE SkipSeen(s, d)
    <2>1. OwnWork'
      BY <1>0, <1>1 DEF SkipSeen, PullInv, TypeOK, OwnWork
    <2>2. AckableWasTaken' /\ AckedWasTaken'
      BY <1>1 DEF SkipSeen, PullInv, TypeOK, AckableWasTaken, AckedWasTaken
    <2> QED
      BY <1>1, <2>1, <2>2, LedgerFrame DEF SkipSeen
  <1>2. CASE SkipUnrouted(s, d)
    <2>1. \A t \in Systems : scan'[t] \subseteq scan[t]
      BY <1>2 DEF SkipUnrouted, PullInv, TypeOK
    <2>2. \A t \in Systems : /\ phase'[t] # "post" => phase[t] # "post"
                            /\ phase'[t] # "scan" => phase[t] # "scan" \/ scan'[t] = {}
      BY <1>2 DEF SkipUnrouted, PullInv, TypeOK
    <2> QED
      BY <1>2, <2>1, <2>2, OwnWorkFrame, TakenFrame, LedgerFrame DEF SkipUnrouted
  <1>3. CASE MissRoute(s, d)
    <2>1. OwnWork'
      BY <1>0, <1>3 DEF MissRoute, PullInv, TypeOK, OwnWork
    <2> QED
      BY <1>3, <2>1, TakenFrame, LedgerFrame DEF MissRoute
  <1>4. CASE StartPost(s, d) \/ MatchPattern(s, d)
    <2> USE DEF StartPost, MatchPattern, SendPost
    <2>1. OwnWork'
      BY <1>0, <1>4 DEF PullInv, TypeOK, OwnWork
    <2>2. AckableWasTaken' /\ AckedWasTaken'
      BY <1>4, TakenFrame
    <2>3. d \notin seen[s]
      BY <1>4, <1>0 DEF PullInv, OwnWork
    <2>4. Ledger'
      BY <1>0, <1>4, <2>3, PostedLedger
    <2> QED
      BY <2>1, <2>2, <2>4
  <1> QED
    BY <1>1, <1>2, <1>3, <1>4

(* The end of a POST.  A copy taken in time moves from "in flight" to "taken"
   and stays remembered; a time-out moves it to the late posts and is counted. *)
LEMMA AnswerInv ==
  ASSUME PullInv, NEW s \in Systems, NEW d \in Deliveries,
         PostOk(s, d) \/ PostFailed(s, d) \/ PostTimeout(s, d)
  PROVE  OwnWork' /\ Ledger' /\ AckableWasTaken' /\ AckedWasTaken'
  <1> USE DEF EndPost, Goto
  <1>0. /\ Owner[d] = s
        /\ posting' = [posting EXCEPT ![s] = {}] /\ d \in posting[s]
        /\ UNCHANGED <<page, scan, expiries, restarts, pending, lateAcks>>
    BY DEF PostOk, PostFailed, PostTimeout, PullInv, OwnWork
  <1>1. OwnWork'
    BY <1>0 DEF PostOk, PostFailed, PostTimeout, PullInv, TypeOK, OwnWork
  <1>2. AckableWasTaken' /\ AckedWasTaken'
    <2>1. CASE PostOk(s, d)
      <3>1. \A c \in Deliveries : copies'[c] >= copies[c] /\ copies'[d] >= 1
        BY <2>1 DEF PostOk, PullInv, TypeOK
      <3>2. /\ \A c \in Deliveries : copies[c] \in Nat /\ copies'[c] \in Nat
            /\ \A t \in Systems : /\ ackIds'[t] \subseteq ackIds[t] \union {d}
                                  /\ seen'[t] \subseteq seen[t] \union {d}
        BY <2>1 DEF PostOk, PullInv, TypeOK
      <3> QED
        BY <1>0, <3>1, <3>2 DEF PullInv, AckableWasTaken, AckedWasTaken
    <2>2. CASE PostFailed(s, d) \/ PostTimeout(s, d)
      BY <2>2, TakenFrame DEF PostFailed, PostTimeout
    <2> QED
      BY <2>1, <2>2
  <1>3. Ledger'
    <2> SUFFICES ASSUME NEW c \in Deliveries
                 PROVE  copies'[c] + latePosts'[c] + InFlight(c)'
                          <= Remembered(c)' + restarts' + expiries'[c] + timeouts'[c]
      BY DEF Ledger
    <2>1. /\ Owner[c] \in Systems
          /\ copies[c] + latePosts[c] + InFlight(c)
               <= Remembered(c) + restarts + expiries[c] + timeouts[c]
          /\ copies[c] \in Nat /\ latePosts[c] \in Nat /\ timeouts[c] \in Nat
          /\ restarts \in Nat /\ expiries[c] \in Nat
      BY AssumptionsHold DEF Assumptions, PullInv, TypeOK, Ledger
    <2>2. CASE PostOk(s, d)
      <3>1. /\ copies'[c] = IF c = d THEN copies[c] + 1 ELSE copies[c]
            /\ UNCHANGED <<latePosts, timeouts>>
            /\ seen' = [seen EXCEPT ![s] = @ \union {d}]
        BY <2>2 DEF PostOk, PullInv, TypeOK
      <3> QED
        BY <1>0, <2>1, <3>1 DEF InFlight, Remembered, PullInv, TypeOK
    <2>3. CASE PostFailed(s, d)
      <3>1. UNCHANGED <<copies, latePosts, timeouts, seen>>
        BY <2>3 DEF PostFailed
      <3> QED
        BY <1>0, <2>1, <3>1 DEF InFlight, Remembered, PullInv, TypeOK
    <2>4. CASE PostTimeout(s, d)
      <3>1. /\ latePosts'[c] = IF c = d THEN latePosts[c] + 1 ELSE latePosts[c]
            /\ timeouts'[c] = IF c = d THEN timeouts[c] + 1 ELSE timeouts[c]
            /\ UNCHANGED <<copies, seen>>
        BY <2>4 DEF PostTimeout, PullInv, TypeOK
      <3> QED
        BY <1>0, <2>1, <3>1 DEF InFlight, Remembered, PullInv, TypeOK
    <2> QED
      BY <2>2, <2>3, <2>4
  <1> QED
    BY <1>1, <1>2, <1>3

(* The end of an ACK: only ids that were taken leave the queue or stay on the
   wire. *)
LEMMA AckInv ==
  ASSUME PullInv, NEW s \in Systems,
         AckOk(s) \/ AckFailed(s) \/ AckTimeout(s)
  PROVE  OwnWork' /\ Ledger' /\ AckableWasTaken' /\ AckedWasTaken'
  <1> USE DEF AckOk, AckFailed, AckTimeout, EndCycle, Goto
  <1>1. /\ \A t \in Systems : /\ ackIds'[t] \subseteq ackIds[t]
                              /\ phase'[t] # "post" => phase[t] # "post"
                              /\ phase'[t] # "scan" => phase[t] # "scan"
        /\ lateAcks' \subseteq lateAcks \union ackIds[s]
        /\ pending \ ackIds[s] \subseteq pending'
        /\ UNCHANGED <<page, scan, posting, seen, copies, latePosts, timeouts, expiries,
                       restarts>>
    BY DEF PullInv, TypeOK
  <1>2. OwnWork' /\ Ledger'
    BY <1>1, OwnWorkFrame, LedgerFrame
  <1>3. AckableWasTaken' /\ AckedWasTaken'
    BY <1>1 DEF PullInv, AckableWasTaken, AckedWasTaken
  <1> QED
    BY <1>2, <1>3

(* The cache entry of d expires: d is no longer remembered, and the expiry
   counted. *)
LEMMA ExpireInv ==
  ASSUME PullInv, NEW s \in Systems, NEW d \in Deliveries, Expire(s, d)
  PROVE  OwnWork' /\ Ledger' /\ AckableWasTaken' /\ AckedWasTaken'
  <1>1. /\ \A t \in Systems : seen'[t] \subseteq seen[t]
        /\ UNCHANGED <<phase, page, scan, posting, ackIds, copies, latePosts, timeouts,
                       restarts, pending, lateAcks>>
        /\ d \in seen[s] /\ Owner[d] = s
        /\ seen' = [seen EXCEPT ![s] = @ \ {d}]
    BY DEF Expire, PullInv, TypeOK, OwnWork
  <1>2. OwnWork' /\ AckableWasTaken' /\ AckedWasTaken'
    BY <1>1, OwnWorkFrame, TakenFrame
  <1>3. Ledger'
    <2> SUFFICES ASSUME NEW c \in Deliveries
                 PROVE  copies'[c] + latePosts'[c] + InFlight(c)'
                          <= Remembered(c)' + restarts' + expiries'[c] + timeouts'[c]
      BY DEF Ledger
    <2>1. /\ Owner[c] \in Systems
          /\ copies[c] + latePosts[c] + InFlight(c)
               <= Remembered(c) + restarts + expiries[c] + timeouts[c]
          /\ copies[c] \in Nat /\ latePosts[c] \in Nat /\ timeouts[c] \in Nat
          /\ restarts \in Nat /\ expiries[c] \in Nat
      BY AssumptionsHold DEF Assumptions, PullInv, TypeOK, Ledger
    <2>2. expiries'[c] = IF c = d THEN expiries[c] + 1 ELSE expiries[c]
      BY DEF Expire, PullInv, TypeOK
    <2> QED
      BY <1>1, <2>1, <2>2 DEF InFlight, Remembered, PullInv, TypeOK
  <1> QED
    BY <1>2, <1>3

(* A late POST becomes a copy, a late ACK drops an id: both were paid for when
   the request was sent. *)
LEMMA LateInv ==
  ASSUME PullInv, NEW d \in Deliveries, LatePostTaken(d) \/ LateAckApplied(d)
  PROVE  OwnWork' /\ Ledger' /\ AckableWasTaken' /\ AckedWasTaken'
  <1>1. CASE LatePostTaken(d)
    <2>1. /\ \A c \in Deliveries :
               /\ copies'[c] + latePosts'[c] = copies[c] + latePosts[c]
               /\ copies'[c] >= copies[c]
               /\ copies[c] \in Nat /\ copies'[c] \in Nat
               /\ latePosts[c] \in Nat /\ latePosts'[c] \in Nat
          /\ UNCHANGED <<phase, page, scan, posting, ackIds, seen, pending, lateAcks,
                         timeouts, expiries, restarts>>
      BY <1>1 DEF LatePostTaken, PullInv, TypeOK
    <2>2. OwnWork' /\ AckableWasTaken' /\ AckedWasTaken'
      BY <2>1 DEF PullInv, OwnWork, AckableWasTaken, AckedWasTaken
    <2>3. Ledger'
      BY <2>1 DEF PullInv, TypeOK, Ledger, InFlight, Remembered
    <2> QED
      BY <2>2, <2>3
  <1>2. CASE LateAckApplied(d)
    <2>1. UNCHANGED <<phase, page, scan, posting, ackIds, seen, copies, latePosts,
                      timeouts, expiries, restarts>>
      BY <1>2 DEF LateAckApplied
    <2>2. OwnWork' /\ Ledger'
      BY <2>1, OwnWorkFrame, LedgerFrame
    <2>3. AckableWasTaken' /\ AckedWasTaken'
      BY <1>2 DEF LateAckApplied, PullInv, AckableWasTaken, AckedWasTaken
    <2> QED
      BY <2>2, <2>3
  <1> QED
    BY <1>1, <1>2

(* The process is replaced: what was in flight is now late, what was remembered
   is forgotten, and the restart is counted. *)
LEMMA RestartInv ==
  ASSUME PullInv, NEW E \in SUBSET Emails, Restart(E)
  PROVE  OwnWork' /\ Ledger' /\ AckableWasTaken' /\ AckedWasTaken'
  <1>1. \A s \in Systems : /\ page'[s] = {} /\ scan'[s] = {} /\ posting'[s] = {}
                           /\ ackIds'[s] = {} /\ seen'[s] = {}
                           /\ phase'[s] = "top"
    BY DEF Restart
  <1>2. OwnWork'
    BY <1>1 DEF OwnWork
  <1>3. AckableWasTaken' /\ AckedWasTaken'
    <2>1. /\ UNCHANGED <<copies, pending>>
          /\ \A d \in lateAcks' : d \in lateAcks \/ \E s \in Systems : d \in ackIds[s]
      BY DEF Restart
    <2> QED
      BY <1>1, <2>1 DEF PullInv, AckableWasTaken, AckedWasTaken
  <1>4. Ledger'
    <2> SUFFICES ASSUME NEW c \in Deliveries
                 PROVE  copies'[c] + latePosts'[c] + InFlight(c)'
                          <= Remembered(c)' + restarts' + expiries'[c] + timeouts'[c]
      BY DEF Ledger
    <2>1. /\ Owner[c] \in Systems
          /\ copies[c] + latePosts[c] + InFlight(c)
               <= Remembered(c) + restarts + expiries[c] + timeouts[c]
          /\ copies[c] \in Nat /\ latePosts[c] \in Nat /\ timeouts[c] \in Nat
          /\ restarts \in Nat /\ expiries[c] \in Nat
      BY AssumptionsHold DEF Assumptions, PullInv, TypeOK, Ledger
    <2>2. /\ latePosts'[c] = latePosts[c] + InFlight(c)
          /\ UNCHANGED <<copies, timeouts, expiries>> /\ restarts' = restarts + 1
      BY <2>1 DEF Restart, InFlight
    <2>3. InFlight(c)' = 0 /\ Remembered(c)' = 0 /\ Remembered(c) <= 1
      BY <1>1, <2>1 DEF InFlight, Remembered
    <2>4. InFlight(c) \in {0, 1} /\ Remembered(c) \in {0, 1}
      BY DEF InFlight, Remembered
    <2> QED
      BY <2>1, <2>2, <2>3, <2>4
  <1> QED
    BY <1>2, <1>3, <1>4

(* Every step of pull mode keeps the invariant. *)
LEMMA StepInv == ASSUME PullInv, [Next]_vars PROVE PullInv'
  <1>1. TypeOK'
    BY TypeStep DEF PullInv
  <1>2. CASE UNCHANGED vars
    BY <1>2, <1>1, LedgerFrame, TakenFrame, OwnWorkFrame DEF vars, PullInv
  <1>3. ASSUME NEW E \in SUBSET Emails, RoutesChange(E) PROVE PullInv'
    BY <1>3, <1>1, LedgerFrame, TakenFrame, OwnWorkFrame
       DEF RoutesChange, PullInv
  <1>4. CASE RequestShutdown
    BY <1>4, <1>1, LedgerFrame, TakenFrame, OwnWorkFrame DEF RequestShutdown, PullInv
  <1>5. CASE Next
    <2>1. CASE OwnWork' /\ Ledger' /\ AckableWasTaken' /\ AckedWasTaken'
      BY <1>1, <2>1 DEF PullInv
    <2> QED
      BY <1>3, <1>4, <1>5, <2>1, NextCases, ControlInv, FetchPageInv, HandleInv,
         AnswerInv, AckInv, ExpireInv, LateInv, RestartInv
  <1> QED
    BY <1>2, <1>5

-----------------------------------------------------------------------------
(* PullInv is an invariant of pull mode: types, who works on what, the ledger
   of copies and the two claims about what was taken (pull.rs:51-176). *)
THEOREM PullInvariant == Spec => []PullInv
  BY InitInv, StepInv, PTL DEF Spec

(* No message is lost: whatever the relay has dropped, an agent has taken. *)
THEOREM NothingLost == Spec => []AckedWasTaken
  <1>1. PullInv => AckedWasTaken
    BY DEF PullInv
  <1> QED
    BY <1>1, PullInvariant, PTL

(* Every copy beyond the first has a restart, an expired cache entry or a
   time-out behind it: without faults, one copy. *)
THEOREM ExtraCopiesHaveCauses == Spec => []CopiesNeedFaults
  <1>1. ASSUME PullInv PROVE CopiesNeedFaults
    <2> SUFFICES ASSUME NEW d \in Deliveries
                 PROVE  copies[d] <= 1 + restarts + expiries[d] + timeouts[d]
      BY DEF CopiesNeedFaults
    <2>1. /\ copies[d] + latePosts[d] + InFlight(d)
               <= Remembered(d) + restarts + expiries[d] + timeouts[d]
          /\ copies[d] \in Nat /\ latePosts[d] \in Nat /\ timeouts[d] \in Nat
          /\ restarts \in Nat /\ expiries[d] \in Nat
      BY <1>1 DEF PullInv, TypeOK, Ledger
    <2>2. InFlight(d) \in {0, 1} /\ Remembered(d) \in {0, 1}
      BY DEF InFlight, Remembered
    <2> QED
      BY <2>1, <2>2
  <1> QED
    BY <1>1, PullInvariant, PTL

-----------------------------------------------------------------------------
(* A step of pull mode is, for the relay and the agents, a taking, a settling
   of taken deliveries, or nothing. *)
LEMMA StepRefines ==
  ASSUME PullInv, [Next]_vars PROVE [Promise!ANext]_(Promise!avars)
  <1> DEFINE Taken == {d \in Deliveries : copies[d] > 0}
  <1>1. ASSUME UNCHANGED <<pending, copies>> PROVE UNCHANGED Promise!avars
    BY <1>1 DEF Promise!avars
  <1>2. ASSUME NEW D \in SUBSET Deliveries, UNCHANGED copies,
               \A d \in D : copies[d] >= 1, pending' = pending \ D
        PROVE  Promise!ANext
    <2>1. Taken' = Taken /\ D \subseteq Taken
      BY <1>2 DEF PullInv, TypeOK
    <2> QED
      BY <1>2, <2>1 DEF Promise!ANext, Promise!Settle
  <1>3. ASSUME NEW d \in Deliveries, UNCHANGED pending,
               copies' = [copies EXCEPT ![d] = @ + 1]
        PROVE  Promise!ANext
    <2>1. \A c \in Deliveries : c \in Taken' <=> c \in Taken \/ c = d
      BY <1>3 DEF PullInv, TypeOK
    <2>2. Taken' = Taken \union {d}
      BY <2>1
    <2> QED
      BY <1>3, <2>2 DEF Promise!ANext, Promise!Receive
  <1>4. ASSUME NEW s \in Systems, NEW d \in Deliveries,
               \/ SkipSeen(s, d) \/ StartPost(s, d) \/ MissRoute(s, d)
               \/ MatchPattern(s, d) \/ SkipUnrouted(s, d)
               \/ PostFailed(s, d) \/ PostTimeout(s, d) \/ Expire(s, d)
        PROVE  UNCHANGED Promise!avars
    BY <1>1, <1>4 DEF SkipSeen, StartPost, MissRoute, MatchPattern, SkipUnrouted,
                      SendPost, Look, EndScan, PostFailed, PostTimeout, EndPost, Expire
  <1>5. ASSUME NEW s \in Systems,
               \/ Stop(s) \/ BeginCycle(s) \/ FetchPage(s) \/ FetchNothing(s)
               \/ FetchFailed(s) \/ FinishPage(s) \/ AckFailed(s)
               \/ AckTimeout(s) \/ Wake(s)
        PROVE  UNCHANGED Promise!avars
    BY <1>1, <1>5 DEF Stop, BeginCycle, FetchPage, FetchNothing, Fetched,
                      FetchFailed, FetchError, FinishPage, AckFailed, AckTimeout,
                      EndCycle, Wake, WakeTo
  <1>6. ASSUME NEW s \in Systems, NEW d \in Deliveries, PostOk(s, d)
        PROVE  Promise!ANext
    BY <1>3, <1>6 DEF PostOk, EndPost
  <1>7. ASSUME NEW s \in Systems, AckOk(s) PROVE Promise!ANext
    <2>1. /\ ackIds[s] \in SUBSET Deliveries /\ UNCHANGED copies
          /\ \A d \in ackIds[s] : copies[d] >= 1
          /\ pending' = pending \ ackIds[s]
      BY <1>7 DEF AckOk, EndCycle, PullInv, TypeOK, AckableWasTaken
    <2> QED
      BY <2>1, <1>2
  <1>8. ASSUME NEW d \in Deliveries, LatePostTaken(d) PROVE Promise!ANext
    BY <1>3, <1>8 DEF LatePostTaken
  <1>9. ASSUME NEW d \in Deliveries, LateAckApplied(d) PROVE Promise!ANext
    <2>1. /\ {d} \in SUBSET Deliveries /\ UNCHANGED copies
          /\ \A c \in {d} : copies[c] >= 1
          /\ pending' = pending \ {d}
      BY <1>9 DEF LateAckApplied, PullInv, AckableWasTaken
    <2> QED
      BY <2>1, <1>2
  <1>10. ASSUME \/ \E E \in SUBSET Emails : RoutesChange(E) \/ Restart(E)
                \/ RequestShutdown \/ UNCHANGED vars
         PROVE  UNCHANGED Promise!avars
    BY <1>1, <1>10 DEF RoutesChange, RequestShutdown, Restart, vars
  <1> QED
    BY NextCases, <1>4, <1>5, <1>6, <1>7, <1>8, <1>9, <1>10

(* Pull mode implements AtLeastOnce (pull.rs:51-176 keeps README.md:35's
   "zero message loss"). *)
THEOREM KeepsPromise == Spec => PromiseSpec
  <1>1. Init => Promise!AInit
    BY DEF Init, Promise!AInit
  <1> QED
    BY <1>1, StepRefines, PullInvariant, PTL DEF Spec, PromiseSpec, Promise!ASpec

-----------------------------------------------------------------------------
(* The back-off.  The provers know powers of two by their values alone, so it *)
(* is followed up to the cap the code has, 6.                                 *)

(* One more failure, up to the cap. *)
Another(f) == IF f < MaxExponent THEN f + 1 ELSE MaxExponent

(* p is 2^n, for the exponents of the code. *)
IsPower(n, p) == \/ n = 0 /\ p = 1
                 \/ n = 1 /\ p = 2
                 \/ n = 2 /\ p = 4
                 \/ n = 3 /\ p = 8
                 \/ n = 4 /\ p = 16
                 \/ n = 5 /\ p = 32
                 \/ n = 6 /\ p = 64

LEMMA PowersOfTwo == ASSUME NEW n \in 0..6 PROVE IsPower(n, 2^n)
  <1>1. n = 0 \/ n = 1 \/ n = 2 \/ n = 3 \/ n = 4 \/ n = 5 \/ n = 6
    OBVIOUS
  <1>2. n = 0 => 2^n = 1
    <2>1. 2^0 = 1
      OBVIOUS
    <2> QED
      BY <2>1
  <1>3. n = 1 => 2^n = 2
    <2>1. 2^1 = 2
      OBVIOUS
    <2> QED
      BY <2>1
  <1>4. n = 2 => 2^n = 4
    <2>1. 2^2 = 4
      OBVIOUS
    <2> QED
      BY <2>1
  <1>5. n = 3 => 2^n = 8
    <2>1. 2^3 = 8
      OBVIOUS
    <2> QED
      BY <2>1
  <1>6. n = 4 => 2^n = 16
    <2>1. 2^4 = 16
      OBVIOUS
    <2> QED
      BY <2>1
  <1>7. n = 5 => 2^n = 32
    <2>1. 2^5 = 32
      OBVIOUS
    <2> QED
      BY <2>1
  <1>8. n = 6 => 2^n = 64
    <2>1. 2^6 = 64
      OBVIOUS
    <2> QED
      BY <2>1
  <1> QED
    BY <1>1, <1>2, <1>3, <1>4, <1>5, <1>6, <1>7, <1>8 DEF IsPower

(* A further failure never shortens the back-off, and no back-off is shorter
   than a normal poll. *)
LEMMA BackoffGrows ==
  ASSUME MaxExponent <= 6, PollInterval <= MaxBackoff, NEW f \in 0..MaxExponent
  PROVE  /\ Backoff(f) \in Nat
         /\ PollInterval <= Backoff(f)
         /\ Backoff(f) <= Backoff(Another(f))
  <1>1. /\ PollInterval \in Nat /\ MaxBackoff \in Nat
        /\ f \in 0..6 /\ Another(f) \in {f, f + 1} /\ Another(f) \in 0..6
    BY AssumptionsHold DEF Assumptions, Another
  <1>2. 2^f <= 2^Another(f) /\ 2^f \in 1..64 /\ 2^Another(f) \in 1..64
    <2> DEFINE n == Another(f)
    <2> HIDE DEF n
    <2>1. IsPower(f, 2^f) /\ IsPower(n, 2^n)
      BY <1>1, PowersOfTwo DEF n
    <2>2. n \in {f, f + 1}
      BY <1>1 DEF n
    <2>3. 2^f <= 2^n /\ 2^f \in 1..64 /\ 2^n \in 1..64
      BY <2>1, <2>2 DEF IsPower
    <2> QED
      BY <2>3 DEF n
  <1>3. \A m \in 1..64, n \in 1..64 :
           m <= n => PollInterval * m \in Nat /\ PollInterval <= PollInterval * m
                     /\ PollInterval * m <= PollInterval * n
    BY <1>1
  <1>4. /\ PollInterval * 2^f \in Nat /\ PollInterval * 2^Another(f) \in Nat
        /\ PollInterval <= PollInterval * 2^f
        /\ PollInterval * 2^f <= PollInterval * 2^Another(f)
    BY <1>2, <1>3
  <1> QED
    BY <1>1, <1>4 DEF Backoff

(* The time a loop last slept is a normal poll's or that of its failures. *)
SleepsAsFailed == \A s \in Systems : sleep[s] \in {0, PollInterval, Backoff(failures[s])}

LEMMA SleepInit == Init => SleepsAsFailed
  BY DEF Init, SleepsAsFailed

LEMMA SleepStep == ASSUME PullInv, SleepsAsFailed, [Next]_vars PROVE SleepsAsFailed'
  <1>0. /\ failures \in [Systems -> 0..MaxExponent] /\ sleep \in [Systems -> Sleeps]
    BY DEF PullInv, TypeOK
  <1>1. ASSUME UNCHANGED <<sleep, failures>> PROVE SleepsAsFailed'
    BY <1>1 DEF SleepsAsFailed
  <1>2. ASSUME NEW s \in Systems, NEW v \in {0, PollInterval},
               sleep' = [sleep EXCEPT ![s] = v],
               \A t \in Systems : t # s => failures'[t] = failures[t]
        PROVE  SleepsAsFailed'
    BY <1>0, <1>2 DEF SleepsAsFailed
  <1>3. ASSUME NEW s \in Systems,
               FetchPage(s) \/ FetchNothing(s) \/ FinishPage(s)
               \/ AckOk(s) \/ AckFailed(s) \/ AckTimeout(s)
        PROVE  SleepsAsFailed'
    <2>1. \A t \in Systems : t # s => failures'[t] = failures[t]
      BY <1>0, <1>3 DEF FetchPage, FetchNothing, Fetched, FinishPage, AckOk, AckFailed,
                        AckTimeout, EndCycle
    <2>2. \/ UNCHANGED <<sleep, failures>>
          \/ \E v \in {0, PollInterval} : sleep' = [sleep EXCEPT ![s] = v]
      BY <1>3 DEF FetchPage, FetchNothing, Fetched, FinishPage, AckOk, AckFailed,
                  AckTimeout, EndCycle
    <2> QED
      BY <1>1, <1>2, <2>1, <2>2
  <1>4. ASSUME NEW s \in Systems, FetchFailed(s) PROVE SleepsAsFailed'
    <2>1. PICK n : /\ failures' = [failures EXCEPT ![s] = n]
                   /\ sleep' = [sleep EXCEPT ![s] = Backoff(n)]
      BY <1>4 DEF FetchFailed, FetchError
    <2> QED
      BY <1>0, <2>1 DEF SleepsAsFailed
  <1>5. ASSUME NEW s \in Systems, Stop(s) \/ BeginCycle(s) \/ Wake(s)
        PROVE  UNCHANGED <<sleep, failures>>
    BY <1>5 DEF Stop, BeginCycle, Wake, WakeTo
  <1>6. ASSUME NEW s \in Systems, NEW d \in Deliveries,
               \/ SkipSeen(s, d) \/ StartPost(s, d) \/ MissRoute(s, d)
               \/ MatchPattern(s, d) \/ SkipUnrouted(s, d)
               \/ PostOk(s, d) \/ PostFailed(s, d) \/ PostTimeout(s, d) \/ Expire(s, d)
        PROVE  UNCHANGED <<sleep, failures>>
    BY <1>6 DEF SkipSeen, StartPost, MissRoute, MatchPattern, SkipUnrouted, Look, EndScan,
                PostOk, PostFailed, PostTimeout, EndPost, Expire
  <1>7. ASSUME \/ \E d \in Deliveries : LatePostTaken(d) \/ LateAckApplied(d)
               \/ \E E \in SUBSET Emails : RoutesChange(E)
               \/ RequestShutdown \/ UNCHANGED vars
        PROVE  UNCHANGED <<sleep, failures>>
    BY <1>7 DEF LatePostTaken, LateAckApplied, RoutesChange, RequestShutdown, vars
  <1>8. ASSUME NEW E \in SUBSET Emails, Restart(E) PROVE SleepsAsFailed'
    BY <1>8 DEF Restart, SleepsAsFailed
  <1> QED
    BY NextCases, <1>1, <1>3, <1>4, <1>5, <1>6, <1>7, <1>8

(* While fetches keep failing the loop never waits less than before, with a cap no
   higher than the code's and a poll no rarer than MAX_BACKOFF (pull.rs:161-172). *)
THEOREM LongerAndLonger ==
  ASSUME MaxExponent <= 6, PollInterval <= MaxBackoff
  PROVE  Spec => BackoffNeverShrinks
  <1>1. ASSUME PullInv, SleepsAsFailed, [Next]_vars,
               NEW s \in Systems, phase[s] = "fetch", phase'[s] = "sleep"
        PROVE  sleep'[s] >= sleep[s]
    <2>1. FetchFailed(s)
      <3>1. phase \in [Systems -> Phases]
        BY <1>1 DEF PullInv, TypeOK
      <3>3. ASSUME NEW t \in Systems,
                   \/ Stop(t) \/ BeginCycle(t) \/ FetchPage(t) \/ FetchNothing(t)
                   \/ FinishPage(t) \/ AckOk(t) \/ AckFailed(t) \/ AckTimeout(t) \/ Wake(t)
            PROVE  FALSE
        BY <1>1, <3>1, <3>3
           DEF Stop, BeginCycle, FetchPage, FetchNothing, Fetched, FinishPage, AckOk,
               AckFailed, AckTimeout, EndCycle, Wake, WakeTo, Goto
      <3>4. ASSUME NEW t \in Systems, NEW d \in Deliveries,
                   \/ SkipSeen(t, d) \/ StartPost(t, d) \/ MissRoute(t, d)
                   \/ MatchPattern(t, d) \/ SkipUnrouted(t, d)
                   \/ PostOk(t, d) \/ PostFailed(t, d) \/ PostTimeout(t, d) \/ Expire(t, d)
            PROVE  FALSE
        BY <1>1, <3>1, <3>4
           DEF SkipSeen, StartPost, MissRoute, MatchPattern, SkipUnrouted, SendPost, Look,
               EndScan, PostOk, PostFailed, PostTimeout, EndPost, Expire, Goto
      <3>5. ASSUME \/ \E d \in Deliveries : LatePostTaken(d) \/ LateAckApplied(d)
                   \/ \E E \in SUBSET Emails : RoutesChange(E) \/ Restart(E)
                   \/ RequestShutdown \/ UNCHANGED vars
            PROVE  FALSE
        BY <1>1, <3>5 DEF LatePostTaken, LateAckApplied, RoutesChange, RequestShutdown,
                          Restart, vars
      <3>6. ASSUME NEW t \in Systems, FetchFailed(t) PROVE t = s
        BY <1>1, <3>1, <3>6 DEF FetchFailed, FetchError, Goto
      <3> QED
        BY <1>1, <3>3, <3>4, <3>5, <3>6, NextCases
    <2>2. /\ failures[s] \in 0..MaxExponent /\ sleep \in [Systems -> Sleeps]
          /\ sleep' = [sleep EXCEPT ![s] = Backoff(Another(failures[s]))]
      BY <1>1, <2>1 DEF FetchFailed, FetchError, Another, PullInv, TypeOK
    <2>3. sleep[s] \in {0, PollInterval, Backoff(failures[s])}
      BY <1>1 DEF SleepsAsFailed
    <2> QED
      <3>1. Another(failures[s]) \in 0..MaxExponent
        BY <2>2, AssumptionsHold DEF Another, Assumptions
      <3> QED
        BY <2>2, <2>3, <3>1, BackoffGrows, AssumptionsHold DEF Assumptions
  <1>2. PullInv /\ SleepsAsFailed /\ [Next]_vars =>
          [\A s \in Systems : phase[s] = "fetch" /\ phase'[s] = "sleep"
                                => sleep'[s] >= sleep[s]]_vars
    BY <1>1
  <1>3. Spec => []SleepsAsFailed
    BY SleepInit, SleepStep, PullInvariant, PTL DEF Spec
  <1> QED
    BY <1>2, <1>3, PullInvariant, PTL DEF Spec, BackoffNeverShrinks
=============================================================================
