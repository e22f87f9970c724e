---------------------------- MODULE RouteHealth ----------------------------
(***************************************************************************)
(* The route health checker (src/src/health.rs).  A round takes a snapshot *)
(* of the route table, groups it by endpoint, probes the endpoints one     *)
(* after the other (each probe an await of up to connect_timeout_sec), and *)
(* then removes the routes of the snapshot whose endpoint has failed too   *)
(* often.  The admin API and the watcher may change the table at any point *)
(* of the round.  A change of the table is one step here; what it consists *)
(* of is the matter of RouteTable, and PullBridge puts the two together.   *)
(***************************************************************************)
EXTENDS Naturals

CONSTANTS
    Emails,       \* recipient addresses
    Targets,      \* endpoints, as route_target_key gives them: "host:port"
    Bracketed,    \* those of the form "[v6]:port"
    NoTarget,     \* no route
    Threshold     \* fail_threshold

ASSUME TargetAssumption == NoTarget \notin Targets /\ Bracketed \subseteq Targets
ASSUME NumberAssumption == Threshold \in Nat

VARIABLES
    routes,     \* the route table: routes[e] is a target or NoTarget
    failures,   \* failures[t]: the entry of the map, 0 if there is none
    phase,      \* "top" of the loop, "tick", "probe" or "remove"
    groups,     \* target_groups: the addresses of each target at the snapshot
    todo,       \* targets of the round not probed yet
    dead,       \* dead_targets not removed yet
    up,         \* up[t]: something accepts connections at t
    shutdown,   \* the shutdown flag
    stopped,    \* the task has returned
    misses      \* history: probes of t that failed since one last succeeded,
                \* counted up to Threshold

checker == <<phase, groups, todo, dead>>
world   == <<up, shutdown>>
vars == <<routes, failures, checker, world, stopped, misses>>

Maybe == Targets \union {NoTarget}

\* The count at which a failed probe declares its target dead; it takes one
\* failed probe even if fail_threshold is 0.
Fatal == IF Threshold = 0 THEN 1 ELSE Threshold

TypeOK ==
    /\ routes \in [Emails -> Maybe]
    /\ failures \in [Targets -> 0..Fatal]
    /\ phase \in {"top", "tick", "probe", "remove"}
    /\ groups \in [Targets -> SUBSET Emails]
    /\ todo \subseteq Targets /\ dead \subseteq Targets
    /\ up \in [Targets -> BOOLEAN]
    /\ shutdown \in BOOLEAN /\ stopped \in BOOLEAN
    /\ misses \in [Targets -> 0..Threshold]

Init ==
    /\ routes \in [Emails -> Maybe]
    /\ failures = [t \in Targets |-> 0]
    /\ phase = "top"
    /\ groups = [t \in Targets |-> {}]
    /\ todo = {} /\ dead = {}
    /\ up \in [Targets -> BOOLEAN]
    /\ shutdown = FALSE /\ stopped = FALSE
    /\ misses = [t \in Targets |-> 0]

\* The flag is read at the top of the loop; then the loop awaits the next tick.
Stop ==
    /\ phase = "top" /\ ~stopped
    /\ shutdown
    /\ stopped' = TRUE
    /\ UNCHANGED <<routes, failures, checker, world, misses>>

GoOn ==
    /\ phase = "top" /\ ~stopped
    /\ phase' = "tick"
    /\ UNCHANGED <<routes, failures, groups, todo, dead, world, stopped, misses>>

\* A bug: the flag is not read.
AwaitTickBlind == GoOn

AwaitTick == ~shutdown /\ GoOn

\* The round takes its snapshot, grouped by target.  A key that does not split
\* at its first ':' into a host and a port is passed over.
Probeable(t) == t \notin Bracketed

BeginRound ==
    /\ phase = "tick"
    /\ \E e \in Emails : routes[e] # NoTarget
    /\ groups' = [t \in Targets |-> {e \in Emails : routes[e] = t}]
    /\ todo' = {t \in Targets : Probeable(t) /\ \E e \in Emails : routes[e] = t}
    /\ phase' = "probe"
    /\ UNCHANGED <<routes, failures, dead, world, stopped, misses>>

\* An empty table ends the round at once.
NothingToCheck ==
    /\ phase = "tick"
    /\ \A e \in Emails : routes[e] = NoTarget
    /\ phase' = "top"
    /\ UNCHANGED <<routes, failures, groups, todo, dead, world, stopped, misses>>

\* A probe of t ends: count is its new entry of the map.
Probed(t, count) ==
    /\ phase = "probe"
    /\ t \in todo
    /\ todo' = todo \ {t}
    /\ failures' = [failures EXCEPT ![t] = count]
    /\ UNCHANGED <<routes, phase, groups, world, stopped>>

Reached(t, count) ==
    /\ up[t]
    /\ Probed(t, count)
    /\ misses' = [misses EXCEPT ![t] = 0]
    /\ UNCHANGED dead

\* A bug: a success does not reset the count.
ProbeOkKept(t) == Reached(t, failures[t])

ProbeOk(t) == Reached(t, 0)

\* Refused, unreachable or timed out (which may happen to a live endpoint).
ProbeFailed(t) ==
    /\ Probed(t, failures[t] + 1)
    /\ dead' = IF failures'[t] >= Threshold THEN dead \union {t} ELSE dead
    /\ misses' = [misses EXCEPT ![t] = IF @ < Threshold THEN @ + 1 ELSE @]

EndProbing ==
    /\ phase = "probe"
    /\ todo = {}
    /\ phase' = "remove"
    /\ UNCHANGED <<routes, failures, groups, todo, dead, world, stopped, misses>>

\* The checker takes the next address of a dead target from its snapshot.
Take(t, e) ==
    /\ phase = "remove"
    /\ t \in dead
    /\ e \in groups[t]
    /\ groups' = [groups EXCEPT ![t] = @ \ {e}]
    /\ UNCHANGED <<failures, phase, todo, dead, world, stopped, misses>>

\* It calls remove_route for it, wherever it points by now.
Remove(t, e) == Take(t, e) /\ routes' = [routes EXCEPT ![e] = NoTarget]

Buried(t, count) ==
    /\ phase = "remove"
    /\ t \in dead
    /\ dead' = dead \ {t}
    /\ failures' = [failures EXCEPT ![t] = count]
    /\ UNCHANGED <<routes, phase, groups, todo, world, stopped, misses>>

\* Two bugs: the count outlives the removal; the routes do.
ForgetKept(t) == groups[t] = {} /\ Buried(t, failures[t])
ForgetEarly(t) == Buried(t, 0)

\* The last route of a dead target is gone: so is its entry of the map.
Forget(t) == groups[t] = {} /\ Buried(t, 0)

EndRound ==
    /\ phase = "remove"
    /\ dead = {}
    /\ phase' = "top"
    /\ groups' = [t \in Targets |-> {}]
    /\ UNCHANGED <<routes, failures, todo, dead, world, stopped, misses>>

\* The admin API or a cached lookup changes one entry of the table, a reload
\* any number: it is r now.
ChangeTable(r) == routes' = r /\ UNCHANGED <<failures, checker, world, stopped, misses>>

\* An endpoint goes down or comes up.
Flip(t) ==
    /\ up' = [up EXCEPT ![t] = ~@]
    /\ UNCHANGED <<routes, failures, checker, shutdown, stopped, misses>>

RequestShutdown ==
    /\ ~shutdown
    /\ shutdown' = TRUE
    /\ UNCHANGED <<routes, failures, checker, up, stopped, misses>>

\* The process is started again, with the table r.
Restart(r) ==
    /\ routes' = r
    /\ failures' = [t \in Targets |-> 0]
    /\ phase' = "top"
    /\ groups' = [t \in Targets |-> {}]
    /\ todo' = {} /\ dead' = {}
    /\ shutdown' = FALSE /\ stopped' = FALSE
    /\ UNCHANGED <<up, misses>>

Checker == \/ Stop \/ AwaitTick \/ BeginRound \/ NothingToCheck \/ EndProbing \/ EndRound
           \/ \E t \in Targets : ProbeOk(t) \/ ProbeFailed(t) \/ Forget(t)
           \/ \E t \in Targets, e \in Emails : Remove(t, e)

Next == \/ Checker
        \/ \E r \in [Emails -> Maybe] : ChangeTable(r) \/ Restart(r)
        \/ \E t \in Targets : Flip(t)
        \/ RequestShutdown

Spec == Init /\ [][Next]_vars

\* The interval keeps ticking and every probe ends.
FairSpec == Spec /\ WF_vars(Checker)

-----------------------------------------------------------------------------
(* Properties. *)

\* A target is declared dead only after Threshold probes in a row have failed,
\* over as many rounds (health.rs:5, :86-98).
DeathNeedsMisses == \A t \in dead : misses[t] >= Threshold

\* The inductive invariant: the map counts no probe that did not fail, a target
\* at the fatal count is among the dead, and the dead are those of this round.
CountsAreMisses ==
    \A t \in Targets : misses[t] < Threshold => failures[t] <= misses[t]
FatalIsDead == \A t \in Targets : failures[t] >= Fatal => t \in dead
DeadOfThisRound == /\ dead \cap todo = {}
                   /\ phase \in {"top", "tick"} => dead = {}
HealthInv == /\ TypeOK /\ CountsAreMisses /\ FatalIsDead /\ DeadOfThisRound
             /\ DeathNeedsMisses

\* health.rs:5-6: what is removed are the "routes pointing to" a dead target.
RemovesOnlyDead ==
    [][\A e \in Emails :
         (\E t \in Targets : Remove(t, e)) => routes[e] \in dead \union {NoTarget}]_vars

\* An endpoint that is down for good, and gets no new route, has none in the end,
\* unless the bridge is told to stop or restarted (health.rs:3-11).  Bracketed
\* ones are never probed.
GetsRoute(t) == \E e \in Emails : routes[e] # t /\ routes'[e] = t
Cleaned(t) ==
    /\ <>[](~up[t] /\ ~shutdown)
    /\ <>[][~GetsRoute(t) /\ \A r \in [Emails -> Maybe] : ~Restart(r)]_vars
    => <>[](\A e \in Emails : routes[e] # t)
DeadGetsCleaned == \A t \in Targets \ Bracketed : Cleaned(t)

\* The checker ends after a shutdown, whatever it is in the middle of.
ShutdownEndsChecker == shutdown ~> (stopped \/ ~shutdown)
=============================================================================
