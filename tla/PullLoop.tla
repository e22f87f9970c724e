------------------------------ MODULE PullLoop ------------------------------
(***************************************************************************)
(* Pull mode (src/src/pull.rs): one `start_pull_loop` task per configured  *)
(* system fetches a page of pending deliveries from its relay, POSTs each  *)
(* to the agent endpoint the route table names, and ACKs the page in one   *)
(* request.  A per-loop cache of forwarded ids (`seen`, kept two hours)    *)
(* turns a delivery that comes back after a failed ACK into a bare re-ACK. *)
(*                                                                         *)
(* Every await of the loop, and every lock a lookup takes, ends a step here, *)
(* so the other loops, the route table, the shutdown flag, a late request  *)
(* and a restart of the process may come in between.  Of the route table   *)
(* only the addresses in its map matter; PullBridge puts the real table in *)
(* their place.  The relay and the agents are external:                    *)
(* they do what HTTP lets them do, including acting on a request whose     *)
(* sender has already given up on it.                                      *)
(***************************************************************************)
EXTENDS Naturals, FiniteSets

CONSTANTS
    Systems,        \* the [[pull.systems]] entries: one loop each
    Deliveries,     \* delivery ids the relays hold
    Owner,          \* Owner[d]: the system whose relay account holds d
    Emails,         \* recipient addresses
    Email,          \* Email[d]: the address d is for
    Domain,         \* Domain[e]: the part of e after the last '@'
    PatternEmails,  \* addresses some regex of the routes file may match
    Limit,          \* "limit" of a fetch (50 in the code)
    PollInterval,   \* poll_interval_sec
    MaxBackoff,     \* MAX_BACKOFF (300 in the code)
    MaxExponent,    \* cap of the back-off exponent (6 in the code)
    MaxTimeouts,    \* bound: POSTs of delivery d whose reply never comes
    MaxExpiries,    \* bound: times the cache entry of d expires
    MaxRestarts     \* bound: restarts of the process

ASSUME OwnerAssumption == Owner \in [Deliveries -> Systems]
ASSUME EmailAssumption == Email \in [Deliveries -> Emails]
ASSUME PatternAssumption == PatternEmails \subseteq Emails
ASSUME NumberAssumption == /\ Limit \in Nat \ {0}
                           /\ PollInterval \in Nat
                           /\ MaxBackoff \in Nat
                           /\ MaxExponent \in Nat
                           /\ MaxTimeouts \in [Deliveries -> Nat]
                           /\ MaxExpiries \in [Deliveries -> Nat]
                           /\ MaxRestarts \in Nat

VARIABLES
    phase,      \* where loop s is in its cycle
    page,       \* fetched deliveries loop s has not looked at yet
    scan,       \* the delivery whose address loop s did not find in the map,
                \* as a set of at most one
    posting,    \* the delivery loop s is POSTing, likewise
    ackIds,     \* ack_ids of the cycle
    seen,       \* the live entries of the dedup cache
    failures,   \* consecutive_failures, of which only min(_, MaxExponent) is ever used
    sleep,      \* sleep_secs, kept until the next fetch has succeeded
    exact,      \* the addresses in the in-memory route map
    shutdown,   \* the shutdown flag
    pending,    \* relay: deliveries not acknowledged yet
    lateAcks,   \* ids of timed-out ACK requests the relay may yet act on
    latePosts,  \* latePosts[d]: timed-out POSTs an agent may yet act on
    copies,     \* history: copies of d its agent has taken
    timeouts,   \* history: POSTs of d that timed out
    expiries,   \* history: times d's cache entry expired
    restarts    \* history: restarts of the process

loopVars  == <<phase, page, scan, posting, ackIds, seen, failures, sleep>>
relayVars == <<pending, lateAcks>>
agentVars == <<latePosts, copies>>
faultVars == <<timeouts, expiries, restarts>>
outside   == <<exact, shutdown, relayVars, agentVars, faultVars>>
vars == <<loopVars, outside>>

\* poll_interval * 2^f, at most MAX_BACKOFF.
Backoff(f) == IF PollInterval * 2^f < MaxBackoff THEN PollInterval * 2^f
                                                 ELSE MaxBackoff

\* What sleep_secs can be; 0 as long as there is none.
Sleeps == {0, PollInterval} \union {Backoff(f) : f \in 0..MaxExponent}

Phases == {"top", "fetch", "forward", "scan", "post", "ack", "sleep", "stopped"}

TypeOK ==
    /\ phase \in [Systems -> Phases]
    /\ page \in [Systems -> SUBSET Deliveries]
    /\ scan \in [Systems -> SUBSET Deliveries]
    /\ posting \in [Systems -> SUBSET Deliveries]
    /\ ackIds \in [Systems -> SUBSET Deliveries]
    /\ seen \in [Systems -> SUBSET Deliveries]
    /\ failures \in [Systems -> 0..MaxExponent]
    /\ sleep \in [Systems -> Sleeps]
    /\ exact \subseteq Emails
    /\ shutdown \in BOOLEAN
    /\ pending \subseteq Deliveries
    /\ lateAcks \subseteq Deliveries
    /\ latePosts \in [Deliveries -> Nat]
    /\ copies \in [Deliveries -> Nat]
    /\ timeouts \in [Deliveries -> Nat]
    /\ expiries \in [Deliveries -> Nat]
    /\ restarts \in Nat

Init ==
    /\ phase = [s \in Systems |-> "top"]
    /\ page = [s \in Systems |-> {}]
    /\ scan = [s \in Systems |-> {}]
    /\ posting = [s \in Systems |-> {}]
    /\ ackIds = [s \in Systems |-> {}]
    /\ seen = [s \in Systems |-> {}]
    /\ failures = [s \in Systems |-> 0]
    /\ sleep = [s \in Systems |-> 0]
    /\ exact \in SUBSET Emails
    /\ shutdown = FALSE
    /\ pending = Deliveries
    /\ lateAcks = {}
    /\ latePosts = [d \in Deliveries |-> 0]
    /\ copies = [d \in Deliveries |-> 0]
    /\ timeouts = [d \in Deliveries |-> 0]
    /\ expiries = [d \in Deliveries |-> 0]
    /\ restarts = 0

-----------------------------------------------------------------------------
(* The loop's steps. *)

Goto(s, p) == phase' = [phase EXCEPT ![s] = p]

\* The flag is read at the top of a cycle and nowhere else.
Stop(s) ==
    /\ phase[s] = "top"
    /\ shutdown
    /\ Goto(s, "stopped")
    /\ UNCHANGED <<page, scan, posting, ackIds, seen, failures, sleep, outside>>

BeginCycle(s) ==
    /\ phase[s] = "top"
    /\ ~shutdown
    /\ Goto(s, "fetch")
    /\ UNCHANGED <<page, scan, posting, ackIds, seen, failures, sleep, outside>>

\* The deliveries the relay would offer: s's own, filtered by the domains of
\* the addresses in the route map (patterns do not contribute a domain).
Offered(s) == {d \in pending : /\ Owner[d] = s
                               /\ \E e \in exact : Domain[e] = Domain[Email[d]]}

\* D is one page of the offered deliveries.
IsPage(D, offered) ==
    Cardinality(D) = IF Cardinality(offered) < Limit THEN Cardinality(offered)
                                                     ELSE Limit

\* The common part of the two fetches that return Ok.
Fetched(s, D) ==
    /\ phase[s] = "fetch"
    /\ page' = [page EXCEPT ![s] = D]
    /\ failures' = [failures EXCEPT ![s] = 0]
    /\ sleep' = [sleep EXCEPT ![s] = 0]
    /\ Goto(s, "forward")
    /\ UNCHANGED <<scan, posting, ackIds, seen, outside>>

FetchPage(s) ==
    /\ exact # {}
    /\ \E D \in SUBSET Offered(s) : IsPage(D, Offered(s)) /\ Fetched(s, D)

\* Ok with no batches: no address in the map (the relay is not contacted), or
\* a reply whose "batches" does not parse.
FetchNothing(s) == Fetched(s, {})

\* A fetch that failed: n is the new exponent.
FetchError(s, n) ==
    /\ phase[s] = "fetch"
    /\ exact # {}
    /\ failures' = [failures EXCEPT ![s] = n]
    /\ sleep' = [sleep EXCEPT ![s] = Backoff(n)]
    /\ Goto(s, "sleep")
    /\ UNCHANGED <<page, scan, posting, ackIds, seen, outside>>

\* Two bugs: the exponent has no cap; it wraps round at the cap.
FetchFailedUncapped(s) == FetchError(s, failures[s] + 1)
FetchFailedWrapping(s) == FetchError(s, (failures[s] + 1) % (MaxExponent + 1))

FetchFailed(s) == FetchError(s, IF failures[s] < MaxExponent
                                THEN failures[s] + 1 ELSE MaxExponent)

\* The loop looks at d, a delivery of its page.
Look(s, d) ==
    /\ phase[s] = "forward"
    /\ d \in page[s]
    /\ page' = [page EXCEPT ![s] = @ \ {d}]
    /\ UNCHANGED <<seen, failures, sleep, shutdown, relayVars, agentVars, faultVars>>

\* The cache knows d: ACK it, do not forward it.
SkipSeen(s, d) ==
    /\ Look(s, d)
    /\ d \in seen[s]
    /\ ackIds' = [ackIds EXCEPT ![s] = @ \union {d}]
    /\ UNCHANGED <<phase, scan, posting, exact>>

\* The POST of d begins, with exact being e.
SendPost(s, d, e) ==
    /\ exact' = e
    /\ posting' = [posting EXCEPT ![s] = {d}]
    /\ Goto(s, "post")
    /\ UNCHANGED ackIds

\* A bug: the cache is not consulted.
StartPostUncached(s, d) ==
    /\ Look(s, d)
    /\ Email[d] \in exact
    /\ SendPost(s, d, exact)
    /\ UNCHANGED scan

\* `lookup` finds the address in the map.
StartPost(s, d) ==
    /\ Look(s, d)
    /\ d \notin seen[s]
    /\ Email[d] \in exact
    /\ SendPost(s, d, exact)
    /\ UNCHANGED scan

\* It does not, and goes on to the patterns; the map may change meanwhile.
MissRoute(s, d) ==
    /\ Look(s, d)
    /\ d \notin seen[s]
    /\ Email[d] \notin exact
    /\ scan' = [scan EXCEPT ![s] = {d}]
    /\ Goto(s, "scan")
    /\ UNCHANGED <<posting, ackIds, exact>>

EndScan(s, d) ==
    /\ phase[s] = "scan"
    /\ d \in scan[s]
    /\ scan' = [scan EXCEPT ![s] = {}]
    /\ UNCHANGED <<page, seen, failures, sleep, shutdown, relayVars, agentVars,
                   faultVars>>

\* A pattern matches; the match is cached in the map.
MatchPattern(s, d) ==
    /\ EndScan(s, d)
    /\ Email[d] \in PatternEmails
    /\ SendPost(s, d, exact \union {Email[d]})

\* A bug: what cannot be routed is ACKed, so that it does not come back.
SkipUnroutedAcked(s, d) ==
    /\ EndScan(s, d)
    /\ ackIds' = [ackIds EXCEPT ![s] = @ \union {d}]
    /\ Goto(s, "forward")
    /\ UNCHANGED <<posting, exact>>

\* No pattern does (they may have been dropped): neither forwarded nor ACKed,
\* the relay offers it again.
SkipUnrouted(s, d) ==
    /\ EndScan(s, d)
    /\ Goto(s, "forward")
    /\ UNCHANGED <<posting, ackIds, exact>>

\* The POST of d is over, one way or another.
EndPost(s, d) ==
    /\ phase[s] = "post"
    /\ d \in posting[s]
    /\ posting' = [posting EXCEPT ![s] = {}]
    /\ Goto(s, "forward")
    /\ UNCHANGED <<page, scan, failures, sleep, exact, shutdown, relayVars,
                   expiries, restarts>>

\* The agent took the delivery and its 2xx arrived.
PostOk(s, d) ==
    /\ EndPost(s, d)
    /\ copies' = [copies EXCEPT ![d] = @ + 1]
    /\ seen' = [seen EXCEPT ![s] = @ \union {d}]
    /\ ackIds' = [ackIds EXCEPT ![s] = @ \union {d}]
    /\ UNCHANGED <<latePosts, timeouts>>

\* A bug: whatever the answer was, the id goes on the ACK list.
PostFailedAcked(s, d) ==
    /\ EndPost(s, d)
    /\ ackIds' = [ackIds EXCEPT ![s] = @ \union {d}]
    /\ UNCHANGED <<seen, agentVars, timeouts>>

\* A non-2xx answer, or no connection: the agent took nothing.
PostFailed(s, d) ==
    /\ EndPost(s, d)
    /\ UNCHANGED <<ackIds, seen, agentVars, timeouts>>

\* The client gives up (30 s, or a connection cut before the status line): the
\* agent may have taken the delivery, may take it later, or never.
PostTimeout(s, d) ==
    /\ EndPost(s, d)
    /\ timeouts[d] < MaxTimeouts[d]
    /\ timeouts' = [timeouts EXCEPT ![d] = @ + 1]
    /\ latePosts' = [latePosts EXCEPT ![d] = @ + 1]
    /\ UNCHANGED <<ackIds, seen, copies>>

\* The page is done.  Nothing to ACK: the cycle ends without a request.
FinishPage(s) ==
    /\ phase[s] = "forward"
    /\ page[s] = {}
    /\ \/ /\ ackIds[s] # {}
          /\ Goto(s, "ack")
          /\ UNCHANGED sleep
       \/ /\ ackIds[s] = {}
          /\ Goto(s, "sleep")
          /\ sleep' = [sleep EXCEPT ![s] = PollInterval]
    /\ UNCHANGED <<page, scan, posting, ackIds, seen, failures, outside>>

\* Leaving the ACK: `ack_ids` goes out of scope, the cycle ends.
EndCycle(s) ==
    /\ phase[s] = "ack"
    /\ ackIds' = [ackIds EXCEPT ![s] = {}]
    /\ sleep' = [sleep EXCEPT ![s] = PollInterval]
    /\ Goto(s, "sleep")
    /\ UNCHANGED <<page, scan, posting, seen, failures, exact, shutdown, agentVars,
                   faultVars>>

AckOk(s) ==
    /\ EndCycle(s)
    /\ pending' = pending \ ackIds[s]
    /\ UNCHANGED lateAcks

\* A bug: the loop gives up when an ACK fails.
AckFailedFatal(s) ==
    /\ phase[s] = "ack"
    /\ Goto(s, "stopped")
    /\ UNCHANGED <<page, scan, posting, ackIds, seen, failures, sleep, outside>>

\* An error status or no connection: the relay still holds the ids.
AckFailed(s) ==
    /\ EndCycle(s)
    /\ UNCHANGED relayVars

\* No (parsable) answer in time: the relay acts on the request, or does not.
AckTimeout(s) ==
    /\ EndCycle(s)
    /\ lateAcks' = lateAcks \union ackIds[s]
    /\ UNCHANGED pending

\* sleep_secs have passed.
WakeTo(s, p) ==
    /\ phase[s] = "sleep"
    /\ Goto(s, p)
    /\ UNCHANGED <<page, scan, posting, ackIds, seen, failures, sleep, outside>>

\* A bug: after the sleep the loop goes straight to the next fetch.
WakeToFetch(s) == WakeTo(s, "fetch")

Wake(s) == WakeTo(s, "top")

-----------------------------------------------------------------------------
(* Everything else that happens. *)

\* Two hours pass since d was forwarded.  Every read of the cache treats an
\* entry past its TTL as absent, so the entry is gone from here on.
Expire(s, d) ==
    /\ d \in seen[s]
    /\ expiries[d] < MaxExpiries[d]
    /\ seen' = [seen EXCEPT ![s] = @ \ {d}]
    /\ expiries' = [expiries EXCEPT ![d] = @ + 1]
    /\ UNCHANGED <<phase, page, scan, posting, ackIds, failures, sleep, exact,
                   shutdown, relayVars, agentVars, timeouts, restarts>>

\* An agent acts on a POST whose sender no longer waits.
LatePostTaken(d) ==
    /\ latePosts[d] > 0
    /\ latePosts' = [latePosts EXCEPT ![d] = @ - 1]
    /\ copies' = [copies EXCEPT ![d] = @ + 1]
    /\ UNCHANGED <<loopVars, exact, shutdown, relayVars, faultVars>>

\* The relay acts on an id of an ACK request whose sender no longer waits.
LateAckApplied(d) ==
    /\ d \in lateAcks
    /\ lateAcks' = lateAcks \ {d}
    /\ pending' = pending \ {d}
    /\ UNCHANGED <<loopVars, exact, shutdown, agentVars, faultVars>>

\* The addresses in the route map become E: one comes or goes by the admin API
\* or the health checker, any number by a reload.
RoutesChange(E) ==
    /\ exact' = E
    /\ UNCHANGED <<loopVars, shutdown, relayVars, agentVars, faultVars>>

\* SIGINT or SIGTERM sets the flag the loops poll.
RequestShutdown ==
    /\ ~shutdown
    /\ shutdown' = TRUE
    /\ UNCHANGED <<loopVars, exact, relayVars, agentVars, faultVars>>

\* The process ends (a crash at any point, or a finished shutdown) and is
\* started again, with the routes of its file.  All loop state is gone; requests
\* on the wire are not.
Restart(E) ==
    /\ restarts < MaxRestarts
    /\ exact' = E
    /\ restarts' = restarts + 1
    /\ phase' = [s \in Systems |-> "top"]
    /\ page' = [s \in Systems |-> {}]
    /\ scan' = [s \in Systems |-> {}]
    /\ posting' = [s \in Systems |-> {}]
    /\ ackIds' = [s \in Systems |-> {}]
    /\ seen' = [s \in Systems |-> {}]
    /\ failures' = [s \in Systems |-> 0]
    /\ sleep' = [s \in Systems |-> 0]
    /\ shutdown' = FALSE
    /\ latePosts' = [d \in Deliveries |->
                        IF d \in posting[Owner[d]] THEN latePosts[d] + 1
                                                   ELSE latePosts[d]]
    /\ lateAcks' = lateAcks \union
                      UNION {ackIds[s] : s \in {t \in Systems : phase[t] = "ack"}}
    /\ UNCHANGED <<pending, copies, timeouts, expiries>>

Handle(s, d) == \/ SkipSeen(s, d) \/ StartPost(s, d)
                \/ MissRoute(s, d) \/ MatchPattern(s, d) \/ SkipUnrouted(s, d)
Answer(s, d) == PostOk(s, d) \/ PostFailed(s, d) \/ PostTimeout(s, d)
Fetch(s) == FetchPage(s) \/ FetchNothing(s) \/ FetchFailed(s)
Ack(s) == AckOk(s) \/ AckFailed(s) \/ AckTimeout(s)

Loop(s) == \/ Stop(s) \/ BeginCycle(s) \/ Fetch(s)
           \/ \E d \in Deliveries : Handle(s, d) \/ Answer(s, d)
           \/ FinishPage(s) \/ Ack(s) \/ Wake(s)

Environment == \/ \E s \in Systems, d \in Deliveries : Expire(s, d)
               \/ \E d \in Deliveries : LatePostTaken(d) \/ LateAckApplied(d)
               \/ \E E \in SUBSET Emails : RoutesChange(E) \/ Restart(E)
               \/ RequestShutdown

Next == (\E s \in Systems : Loop(s)) \/ Environment

Spec == Init /\ [][Next]_vars

\* Fairness.  The runtime keeps running every loop task: each await ends, the
\* requests by their own 30 s time-out at the latest, the sleep by the timer.
\* That is all shutting down needs.
RunLoops == \A s \in Systems : WF_vars(Loop(s))

\* For mail to get through, relay and agents must also not fail every time:
\* nothing in the code sees to that, so it is a hypothesis of the property that
\* needs it and not a part of the specification.
Reachable == \A s \in Systems :
                /\ SF_vars(FetchPage(s))
                /\ SF_vars(AckOk(s))
                /\ \A d \in Deliveries : SF_vars(PostOk(s, d))

LoopSpec == Spec /\ RunLoops

-----------------------------------------------------------------------------
(* Properties. *)

\* No message is lost (README.md:35, :115): a delivery the relay has dropped
\* was taken by an agent first.  At stake is the ACK list of pull.rs:68-156:
\* which outcomes put an id on it, and what a late ACK request may still carry.
AckedWasTaken == \A d \in Deliveries : d \notin pending => copies[d] >= 1

\* A second copy needs a fault: each copy beyond the first is paid for by a
\* restart (the cache is memory only), by a cache entry that expired before its
\* ACK succeeded, or by a POST whose outcome the bridge never learnt.
CopiesNeedFaults ==
    \A d \in Deliveries : copies[d] <= 1 + restarts + expiries[d] + timeouts[d]

\* The ledger behind CopiesNeedFaults: what the agent took or may yet take of d
\* against the faults, with one copy free while the loop remembers d.
InFlight(d) == IF d \in posting[Owner[d]] THEN 1 ELSE 0
Remembered(d) ==
    IF d \in posting[Owner[d]] \union seen[Owner[d]] THEN 1 ELSE 0
Ledger ==
    \A d \in Deliveries :
        copies[d] + latePosts[d] + InFlight(d)
            <= Remembered(d) + restarts + expiries[d] + timeouts[d]

\* Each loop handles its own deliveries, looks one up or POSTs it in one phase
\* only, and what it looks up is not in its cache.
OwnWork ==
    \A s \in Systems :
        /\ \A d \in page[s] \union scan[s] \union posting[s] \union ackIds[s]
                    \union seen[s] : Owner[d] = s
        /\ phase[s] # "post" => posting[s] = {}
        /\ phase[s] # "scan" => scan[s] = {}
        /\ scan[s] \intersect seen[s] = {}

\* Whatever is cached, about to be ACKed or named by a late ACK was taken.
AckableWasTaken ==
    \A d \in Deliveries :
        \/ copies[d] >= 1
        \/ /\ d \notin lateAcks
           /\ \A s \in Systems : d \notin ackIds[s] \union seen[s]

\* The inductive invariant of the proofs.
PullInv == TypeOK /\ OwnWork /\ Ledger /\ AckableWasTaken /\ AckedWasTaken

\* While fetches keep failing the loop never waits less than it did before
\* (pull.rs:162-164); needs poll_interval_sec <= MAX_BACKOFF.
BackoffNeverShrinks ==
    [][\A s \in Systems : phase[s] = "fetch" /\ phase'[s] = "sleep"
                            => sleep'[s] >= sleep[s]]_vars

\* The loop keeps the promise of AtLeastOnce.
Promise == INSTANCE AtLeastOnce
               WITH queue <- pending,
                    received <- {d \in Deliveries : copies[d] > 0}
PromiseSpec == Promise!ASpec

\* A delivery whose address stays in the route map is delivered and ACKed,
\* whatever failed on the way, unless the bridge is told to stop (pull.rs:142-156:
\* a failed ACK is taken up again by a later cycle).
RoutedGetsSettled ==
    Reachable =>
        \A d \in Deliveries :
            <>[](Email[d] \in exact /\ ~shutdown) => <>(d \notin pending)

\* A requested shutdown ends every loop, from wherever it was (main.rs awaits
\* them all before the process exits).
ShutdownEndsLoops ==
    \A s \in Systems : shutdown ~> (phase[s] = "stopped" \/ ~shutdown)
=============================================================================
