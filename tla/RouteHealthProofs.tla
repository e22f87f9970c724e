------------------------- MODULE RouteHealthProofs -------------------------
(***************************************************************************)
(* The route health checker removes nothing in haste: for any table, any   *)
(* endpoints and any threshold, a target is dead only after so many probes *)
(* in a row have failed.  HealthInv is inductive; the interesting part is  *)
(* that a target of `dead` cannot be probed again before it is forgotten,  *)
(* so that no success can slip in between the verdict and the removal.     *)
(***************************************************************************)
EXTENDS RouteHealth, TLAPS

\* Nothing has failed when the checker starts.
LEMMA HealthInit == Init => HealthInv
<1> SUFFICES ASSUME Init PROVE HealthInv
  OBVIOUS
<1>0. Threshold \in Nat /\ Fatal \in Nat /\ Fatal >= 1
  BY NumberAssumption DEF Fatal
<1>1. TypeOK
  <2>1. failures \in [Targets -> 0..Fatal] /\ misses \in [Targets -> 0..Threshold]
    BY <1>0 DEF Init
  <2> QED  BY <2>1 DEF Init, TypeOK
<1>2. CountsAreMisses /\ FatalIsDead /\ DeadOfThisRound /\ DeathNeedsMisses
  BY <1>0 DEF Init, CountsAreMisses, FatalIsDead, DeadOfThisRound, DeathNeedsMisses
<1> QED  BY <1>1, <1>2 DEF HealthInv

\* The steps that leave counts, verdicts and the round's list alone.
LEMMA HealthFrame ==
    ASSUME HealthInv, TypeOK',
           UNCHANGED <<failures, misses, dead, todo>>,
           phase' \in {"top", "tick"} => dead = {}
    PROVE  HealthInv'
BY DEF HealthInv, CountsAreMisses, FatalIsDead, DeadOfThisRound, DeathNeedsMisses

\* A probe that succeeds or fails keeps the books straight.
LEMMA ProbeInv ==
    ASSUME HealthInv, NEW t \in Targets, ProbeOk(t) \/ ProbeFailed(t)
    PROVE  HealthInv'
<1>0. Threshold \in Nat /\ Fatal \in Nat /\ Fatal >= Threshold /\ Fatal >= 1
  BY NumberAssumption DEF Fatal
<1>1. CASE ProbeOk(t)
  <2>1. TypeOK'
    BY <1>0, <1>1 DEF ProbeOk, Reached, Probed, world, HealthInv, TypeOK
  <2>2. CountsAreMisses' /\ FatalIsDead' /\ DeadOfThisRound' /\ DeathNeedsMisses'
    BY <1>0, <1>1 DEF ProbeOk, Reached, Probed, HealthInv, TypeOK, CountsAreMisses,
                      FatalIsDead, DeadOfThisRound, DeathNeedsMisses
  <2> QED  BY <2>1, <2>2 DEF HealthInv
<1>2. CASE ProbeFailed(t)
  <2>1. failures[t] < Fatal
    BY <1>0, <1>2 DEF ProbeFailed, Probed, HealthInv, TypeOK, FatalIsDead, DeadOfThisRound
  <2>2. failures' = [failures EXCEPT ![t] = failures[t] + 1]
    BY <1>2 DEF ProbeFailed, Probed
  <2>3. failures' \in [Targets -> 0..Fatal]
    BY <1>0, <2>1, <2>2 DEF HealthInv, TypeOK
  <2>4. misses' \in [Targets -> 0..Threshold]
    BY <1>0, <1>2 DEF ProbeFailed, HealthInv, TypeOK
  <2>5. TypeOK'
    BY <1>2, <2>3, <2>4 DEF ProbeFailed, Probed, world, HealthInv, TypeOK
  <2>6. CountsAreMisses'
    BY <1>0, <1>2, <2>2 DEF ProbeFailed, HealthInv, TypeOK, CountsAreMisses
  <2>7. FatalIsDead'
    BY <1>0, <1>2, <2>2 DEF ProbeFailed, HealthInv, TypeOK, FatalIsDead
  <2>8. DeadOfThisRound'
    BY <1>2 DEF ProbeFailed, Probed, HealthInv, TypeOK, DeadOfThisRound
  <2>9. DeathNeedsMisses'
    BY <1>0, <1>2, <2>2 DEF ProbeFailed, HealthInv, TypeOK, CountsAreMisses, DeathNeedsMisses
  <2> QED  BY <2>5, <2>6, <2>7, <2>8, <2>9 DEF HealthInv
<1> QED  BY <1>1, <1>2

\* Forgetting a dead target whose routes are gone.
LEMMA ForgetInv ==
    ASSUME HealthInv, NEW t \in Targets, Forget(t)
    PROVE  HealthInv'
<1>1. TypeOK'
  BY NumberAssumption DEF Forget, Buried, world, HealthInv, TypeOK, Fatal
<1>2. CountsAreMisses' /\ FatalIsDead' /\ DeadOfThisRound' /\ DeathNeedsMisses'
  BY NumberAssumption DEF Forget, Buried, HealthInv, TypeOK, Fatal, CountsAreMisses,
     FatalIsDead, DeadOfThisRound, DeathNeedsMisses
<1> QED  BY <1>1, <1>2 DEF HealthInv

\* Every step keeps the invariant.
LEMMA HealthStep == HealthInv /\ [Next]_vars => HealthInv'
<1> SUFFICES ASSUME HealthInv, [Next]_vars PROVE HealthInv'
  OBVIOUS
<1> USE DEF HealthInv
<1>1. CASE Stop \/ AwaitTick \/ NothingToCheck \/ EndProbing \/ EndRound
  <2>1. TypeOK'
    BY <1>1 DEF Stop, AwaitTick, GoOn, NothingToCheck, EndProbing, EndRound, checker, world, TypeOK
  <2>2. UNCHANGED <<failures, misses, dead, todo>>
    BY <1>1 DEF Stop, AwaitTick, GoOn, NothingToCheck, EndProbing, EndRound, checker
  <2>3. phase' \in {"top", "tick"} => dead = {}
    BY <1>1 DEF Stop, AwaitTick, GoOn, NothingToCheck, EndProbing, EndRound, checker,
                DeadOfThisRound
  <2> QED  BY <2>1, <2>2, <2>3, HealthFrame
<1>2. CASE BeginRound
  <2>1. TypeOK'
    BY <1>2 DEF BeginRound, world, TypeOK
  <2>2. CountsAreMisses' /\ FatalIsDead' /\ DeadOfThisRound' /\ DeathNeedsMisses'
    BY <1>2 DEF BeginRound, CountsAreMisses, FatalIsDead, DeadOfThisRound, DeathNeedsMisses
  <2> QED  BY <2>1, <2>2
<1>3. CASE \E t \in Targets : ProbeOk(t) \/ ProbeFailed(t)
  BY <1>3, ProbeInv
<1>4. CASE \E t \in Targets : Forget(t)
  BY <1>4, ForgetInv
<1>5. CASE \E t \in Targets, e \in Emails : Remove(t, e)
  <2>1. TypeOK'
    BY <1>5 DEF Remove, Take, world, TypeOK, Maybe
  <2>2. UNCHANGED <<failures, misses, dead, todo, phase>>
    BY <1>5 DEF Remove, Take
  <2> QED  BY <2>1, <2>2, HealthFrame DEF DeadOfThisRound
<1>6. CASE \/ \E r \in [Emails -> Maybe] : ChangeTable(r)
           \/ \E t \in Targets : Flip(t)
           \/ RequestShutdown
  <2>1. TypeOK'
    <3>1. CASE \E r \in [Emails -> Maybe] : ChangeTable(r)
      BY <3>1 DEF ChangeTable, checker, world, TypeOK
    <3>2. CASE \E t \in Targets : Flip(t)
      BY <3>2 DEF Flip, checker, TypeOK
    <3>3. CASE RequestShutdown
      BY <3>3 DEF RequestShutdown, checker, TypeOK
    <3> QED  BY <1>6, <3>1, <3>2, <3>3
  <2>2. UNCHANGED <<failures, misses, dead, todo, phase>>
    BY <1>6 DEF ChangeTable, Flip, RequestShutdown, checker
  <2> QED  BY <2>1, <2>2, HealthFrame DEF DeadOfThisRound
<1>7. ASSUME NEW r \in [Emails -> Maybe], Restart(r) PROVE HealthInv'
  <2>0. Threshold \in Nat /\ Fatal \in Nat /\ Fatal >= 1
    BY NumberAssumption DEF Fatal
  <2>1. TypeOK'
    <3>1. failures' \in [Targets -> 0..Fatal] /\ groups' \in [Targets -> SUBSET Emails]
      BY <1>7, <2>0 DEF Restart
    <3>2. /\ routes' \in [Emails -> Maybe]
          /\ up' \in [Targets -> BOOLEAN] /\ misses' \in [Targets -> 0..Threshold]
      BY <1>7, Zenon DEF Restart, TypeOK
    <3> QED  BY <1>7, <3>1, <3>2 DEF Restart, TypeOK
  <2>2. CountsAreMisses' /\ FatalIsDead' /\ DeadOfThisRound' /\ DeathNeedsMisses'
    BY <1>7, <2>0 DEF Restart, TypeOK, CountsAreMisses, FatalIsDead, DeadOfThisRound,
                      DeathNeedsMisses
  <2> QED  BY <2>1, <2>2
<1>8. CASE UNCHANGED vars
  <2>1. TypeOK'
    BY <1>8 DEF vars, checker, world, TypeOK
  <2>2. UNCHANGED <<failures, misses, dead, todo, phase>>
    BY <1>8 DEF vars, checker
  <2> QED  BY <2>1, <2>2, HealthFrame DEF DeadOfThisRound
<1> QED  BY <1>1, <1>2, <1>3, <1>4, <1>5, <1>6, <1>7, <1>8 DEF Next, Checker

\* The books are straight in every state of every behaviour, fair or not.
THEOREM HealthInvariant == Spec => []HealthInv
<1> QED  BY HealthInit, HealthStep, PTL DEF Spec

\* The type invariant of the checker's state (health.rs:25-39).
THEOREM HealthTypes == Spec => []TypeOK
<1>1. HealthInv => TypeOK
  BY DEF HealthInv
<1> QED  BY <1>1, HealthInvariant, PTL

\* health.rs:86-98: no target is declared dead, and no route removed on its
\* account, before fail_threshold probes in a row have failed.
THEOREM NothingDiesInHaste == Spec => []DeathNeedsMisses
<1>1. HealthInv => DeathNeedsMisses
  BY DEF HealthInv
<1> QED  BY <1>1, HealthInvariant, PTL
=============================================================================
