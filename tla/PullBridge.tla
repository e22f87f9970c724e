----------------------------- MODULE PullBridge -----------------------------
(***************************************************************************)
(* Pull mode as one system: the pull loops, the route health checker and   *)
(* the API share the real route table, its lock and its file.              *)
(*                                                                         *)
(* PullLoop sees of the table only which addresses are in the map, and lets *)
(* them change in any way; RouteHealth sees host:port keys, and a removal  *)
(* as one step.  Here a lookup is the three critical sections it is, a     *)
(* removal goes through remove_route and the file, and the checker does    *)
(* nothing else until that has returned.  The steps the table is part of   *)
(* are stated here; that they are steps of PullLoop and of RouteHealth is  *)
(* what is to be shown.                                                    *)
(***************************************************************************)
EXTENDS Endpoints, FiniteSetsExt

CONSTANTS
    Emails, Regexes, Matches, Asks, Callers, Absent, StartFiles, MaxEvents,
                                                        \* as in RouteTable
    Systems, Deliveries, Owner, Email, Domain, Limit, PollInterval, MaxBackoff,
    MaxExponent, MaxTimeouts, MaxExpiries, MaxRestarts, \* as in PullLoop
    Targets, Threshold,                                 \* as in RouteHealth
    HealthCaller,   \* the health checker, as a caller of remove_route
    MaxTroubles     \* bound: API calls, failed writes, restarts, POSTs that time
                    \* out and cache entries that expire, together

ASSUME TroubleAssumption == MaxTroubles \in Nat /\ HealthCaller \notin Callers

\* Deliveries are for addresses of the table.
ASSUME AddressAssumption == Email \in [Deliveries -> Emails]

\* The checker's targets are those of the routes there may be: of what the API is
\* asked for, of what the file begins with, and of the copies lookups make.
Targeted(r) == {TargetKey(r), TargetKey(CopyOf(r))} \subseteq Targets
ASSUME AskAssumption ==
    \A a \in Asks : /\ a.email \in Emails
                    /\ a.text \in Texts /\ a.text.host # NoHost /\ a.given \in Ports
                    /\ Targeted(Registered(a.text, a.given))
ASSUME FileAssumption ==
    \A f \in StartFiles \ {Absent} : \A k \in Emails \union Regexes :
        f[k] # NoTarget => /\ f[k] \in Texts
                           /\ Load(f[k]) # NoTarget => Targeted(Load(f[k]))

VARIABLES
    \* the table (RouteTable)
    routes, patterns, file, writing, watched, events, watcher, loaded, caller, subject,
    look, ops, edits, failed, cached, crashes, asked, edited,
    \* the loops, the relay and the agents (PullLoop)
    phase, page, scan, posting, ackIds, seen, failures, sleep, pending, lateAcks,
    latePosts, copies, timeouts, expiries, restarts,
    \* the checker (RouteHealth): round is its phase, misfires its failures
    round, misfires, groups, todo, dead, stopped, misses,
    calls       \* API calls, for the bound

\* Every pull loop has one lookup at a time.  The history of what was asked for is
\* not kept, and nobody edits the file.
Table == INSTANCE RouteTable
             WITH Lookups <- Systems, Callers <- Callers \union {HealthCaller},
                  Unasked <- NoTarget, MaxOps <- 0, EditFiles <- {}, MaxEdits <- 0,
                  MaxFaults <- MaxTroubles

\* What the loops see of the table.  Here nobody asks for a shutdown
\* (a bare FALSE is no substitute TLC takes).
InMap == {e \in Emails : routes[e] # NoTarget}
Pull == INSTANCE PullLoop
            WITH exact <- InMap, PatternEmails <- UNION {Matches[r] : r \in Regexes},
                 shutdown <- ~TRUE

\* What the checker sees of it.  A probe of an endpoint that is up may fail too.
Keyed == [e \in Emails |-> IF routes[e] = NoTarget THEN NoTarget
                                                   ELSE TargetKey(routes[e])]
Health == INSTANCE RouteHealth
              WITH routes <- Keyed, phase <- round, failures <- misfires,
                   up <- [t \in Targets |-> TRUE], shutdown <- ~TRUE,
                   Bracketed <- {t \in Targets : ~Probeable(t)}

tableVars  == <<routes, patterns, file, writing, watched, events, watcher, loaded, caller,
                subject, look, ops, edits, failed, cached, crashes, asked, edited>>
loopVars   == <<phase, page, scan, posting, ackIds, seen, failures, sleep>>
pullVars   == <<loopVars, pending, lateAcks, latePosts, copies, timeouts, expiries,
                restarts>>
healthVars == <<round, misfires, groups, todo, dead, stopped, misses>>
vars == <<tableVars, pullVars, healthVars, calls>>

Init == Table!Init /\ Pull!Init /\ Health!Init /\ calls = 0

\* The expiries and time-outs of all deliveries together.
Delays == LET Of(d) == expiries[d] + timeouts[d] IN MapThenSumSet(Of, Deliveries)

Bounded == calls' + failed' + restarts' + Delays' <= MaxTroubles

-----------------------------------------------------------------------------
(* The steps of a pull loop. *)

\* Those that leave the table alone; a lookup that hits is one of them.
LoopAlone(s) ==
    /\ UNCHANGED <<tableVars, healthVars, calls>>
    /\ \/ Pull!BeginCycle(s) \/ Pull!Fetch(s)
       \/ \E d \in Deliveries :
             Pull!SkipSeen(s, d) \/ Pull!StartPost(s, d) \/ Pull!Answer(s, d)
       \/ Pull!FinishPage(s) \/ Pull!Ack(s) \/ Pull!Wake(s)
    /\ Bounded

\* The map is read, and the read lock dropped.
Miss(s, d) ==
    /\ Table!LookupMiss(s, Email[d])
    /\ Pull!MissRoute(s, d)
    /\ UNCHANGED <<healthVars, calls>>

\* The patterns are read.  Without a match the lookup returns nothing.
NoMatch(s, d) ==
    /\ Table!LookupMatch(s)
    /\ look'[s] = Table!Idle
    /\ Pull!EndScan(s, d)
    /\ Pull!Goto(s, "forward")
    /\ UNCHANGED <<posting, ackIds, healthVars, calls>>

Matched(s) ==
    /\ Table!LookupMatch(s)
    /\ look'[s] # Table!Idle
    /\ UNCHANGED <<pullVars, healthVars, calls>>

\* With one, the map is written, and the POST goes where the pattern says.
CacheMatch(s, d) ==
    /\ Table!LookupCache(s)
    /\ Pull!EndScan(s, d)
    /\ posting' = [posting EXCEPT ![s] = {d}]
    /\ Pull!Goto(s, "post")
    /\ UNCHANGED <<ackIds, healthVars, calls>>

LoopTask(s) == \/ LoopAlone(s) \/ Matched(s)
               \/ \E d \in Deliveries : Miss(s, d) \/ NoMatch(s, d) \/ CacheMatch(s, d)

-----------------------------------------------------------------------------
(* The steps of the health checker. *)

Returned == caller[HealthCaller] = "idle"

CheckerAlone ==
    /\ Returned
    /\ UNCHANGED <<tableVars, pullVars, calls>>
    /\ \/ Health!AwaitTick \/ Health!BeginRound
       \/ Health!NothingToCheck \/ Health!EndProbing \/ Health!EndRound
       \/ \E t \in Targets :
             Health!ProbeOk(t) \/ Health!ProbeFailed(t) \/ Health!Forget(t)

\* remove_route begins with the map, for the next address of a dead target.
BeginRemoval(t, e) ==
    /\ Table!RemoveRoute(HealthCaller, e)
    /\ Health!Take(t, e)
    /\ UNCHANGED <<pullVars, calls>>

\* A step of the table that is nobody else's.
TableStep(A) == A /\ UNCHANGED <<pullVars, healthVars, calls>> /\ Bounded

CheckerTask == \/ CheckerAlone
               \/ \E t \in Targets, e \in Emails : BeginRemoval(t, e)
               \/ TableStep(Table!CallerStep(HealthCaller))

-----------------------------------------------------------------------------
(* Everybody else. *)

ApiCall == /\ \E c \in Callers : \/ \E e \in Emails : Table!RemoveRoute(c, e)
                                \/ \E a \in Asks : Table!UpdateRoute(c, a)
           /\ calls' = calls + 1
           /\ UNCHANGED <<pullVars, healthVars>>
           /\ Bounded

Outside == /\ UNCHANGED <<tableVars, healthVars, calls>>
           /\ \/ \E s \in Systems, d \in Deliveries : Pull!Expire(s, d)
              \/ \E d \in Deliveries : Pull!LatePostTaken(d) \/ Pull!LateAckApplied(d)
           /\ Bounded

\* The process ends and is started again: table, loops and checker with it.
Restart == /\ Table!Crash
           /\ Pull!Restart(InMap')
           /\ Health!Restart(Keyed')
           /\ UNCHANGED calls
           /\ Bounded

Next == \/ \E s \in Systems : LoopTask(s)
        \/ CheckerTask
        \/ ApiCall
        \/ \E c \in Callers : TableStep(Table!CallerStep(c))
        \/ TableStep(Table!WatcherStep)
        \/ Outside
        \/ Restart

Spec == Init /\ [][Next]_vars

-----------------------------------------------------------------------------
(* Properties. *)

\* With the real table the loops are still those of PullLoop (pull.rs:84-115,
\* router.rs:224-248): whatever a lookup meets between its critical sections, its
\* outcome is one of the three PullLoop knows.
ImplementsPullLoop == Pull!Spec

\* With the real table the checker is still that of RouteHealth (health.rs:108-117,
\* router.rs:267-272): a removal takes one address out of the map at a stroke,
\* whoever else is writing map and file.
ImplementsRouteHealth == Health!Spec
=============================================================================
