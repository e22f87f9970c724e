-------------------------- MODULE PullBridgeProofs --------------------------
(***************************************************************************)
(* With the real route table the pull loops are still those of PullLoop,   *)
(* and the checker is that of RouteHealth, for any number of loops,        *)
(* callers, addresses, patterns and endpoints.                             *)
(*                                                                         *)
(* For the loops every step but one is a step of PullLoop, or a stutter, as *)
(* it stands.  The one is the last of a lookup's three critical sections:  *)
(* that what it puts into the map is a match for the address the loop still *)
(* waits for takes the history of the lookup, which LookupsServeLoops      *)
(* keeps.  For the checker the table must never hold a route it has no     *)
(* entry for, wherever the route has been: in the file, in a pattern or in *)
(* the hands of a lookup.  That is RoutesFit.                              *)
(***************************************************************************)
EXTENDS PullBridge, EndpointsProofs

Function(f, S) == f = [x \in S |-> f[x]]

Matchable == UNION {Matches[r] : r \in Regexes}

\* A lookup under way is for the one delivery its loop waits for, and a match it
\* has found is a route some pattern has for the address.
Serves(s, d) ==
    /\ scan[s] = {d}
    /\ \/ look[s] = [at |-> "missed", email |-> Email[d]]
       \/ /\ Email[d] \in Matchable
          /\ \E m : /\ m # NoTarget
                    /\ look[s] = [at |-> "matched", email |-> Email[d], match |-> m]

LookupsServeLoops ==
    /\ Function(routes, Emails) /\ Function(look, Systems) /\ Function(scan, Systems)
    /\ \A s \in Systems : look[s] = Table!Idle \/ \E d \in Deliveries : Serves(s, d)

\* No lookup moves, and no loop waits for another delivery than it did.
LEMMA LookupsKept ==
    ASSUME LookupsServeLoops, UNCHANGED <<look, scan>>, Function(routes', Emails)
    PROVE  LookupsServeLoops'
BY DEF LookupsServeLoops, Serves, Function, Matchable

\* What a lookup that serves d has in its hands.
LEMMA Served ==
    ASSUME NEW s \in Systems, NEW d \in Deliveries, Serves(s, d)
    PROVE  /\ look[s].email = Email[d]
           /\ look[s].at = "matched" => Email[d] \in Matchable /\ look[s].match # NoTarget
<1>1. CASE look[s] = [at |-> "missed", email |-> Email[d]]
  <2>1. look[s].email = Email[d] /\ look[s].at = "missed"
    BY <1>1
  <2> QED  BY <2>1
<1>2. ASSUME NEW m, look[s] = [at |-> "matched", email |-> Email[d], match |-> m],
             m # NoTarget, Email[d] \in Matchable
      PROVE  look[s].email = Email[d] /\ Email[d] \in Matchable /\ look[s].match # NoTarget
  <2>1. look[s].email = Email[d] /\ look[s].match = m
    BY <1>2
  <2> QED  BY <1>2, <2>1
<1> QED  BY <1>1, <1>2 DEF Serves

\* So is a loop that keeps its lookup and its delivery.
LEMMA LoopKept ==
    ASSUME LookupsServeLoops, NEW x \in Systems, look'[x] = look[x], scan'[x] = scan[x]
    PROVE  look'[x] = Table!Idle \/ \E y \in Deliveries : Serves(x, y)'
<1>1. CASE look[x] = Table!Idle
  BY <1>1
<1>2. ASSUME NEW y \in Deliveries, Serves(x, y) PROVE Serves(x, y)'
  BY <1>2 DEF Serves, Matchable
<1> QED  BY <1>1, <1>2 DEF LookupsServeLoops

LEMMA LookupsInit == Init => LookupsServeLoops
BY DEF Init, Table!Init, Pull!Init, LookupsServeLoops, Function, Table!ExactPart

\* The steps of a loop that are no lookup's.
LEMMA LoopAloneLookups ==
    ASSUME LookupsServeLoops, NEW s \in Systems, LoopAlone(s)
    PROVE  LookupsServeLoops'
<1>1. UNCHANGED <<look, routes>>
  BY DEF LoopAlone, tableVars
<1>2. UNCHANGED scan
  BY DEF LoopAlone, Pull!BeginCycle, Pull!Fetch, Pull!FetchPage, Pull!FetchNothing,
         Pull!FetchFailed, Pull!Fetched, Pull!FetchError, Pull!SkipSeen, Pull!StartPost,
         Pull!Answer, Pull!PostOk, Pull!PostFailed, Pull!PostTimeout, Pull!EndPost,
         Pull!FinishPage, Pull!Ack, Pull!AckOk, Pull!AckFailed, Pull!AckTimeout,
         Pull!EndCycle, Pull!Wake, Pull!WakeTo
<1> QED  BY <1>1, <1>2, LookupsKept DEF LookupsServeLoops, Function

\* The steps of callers and watcher.
LEMMA TableLookups ==
    ASSUME LookupsServeLoops, UNCHANGED scan,
           \/ \E c : Table!CallerStep(c)
           \/ \E c, e, t, n : Table!ChangeMap(c, e, t, n)
           \/ Table!WatcherStep
    PROVE  LookupsServeLoops'
<1>1. UNCHANGED look
  BY DEF Table!CallerStep, Table!RaiseFlag, Table!Truncate, Table!Fill, Table!WriteFails,
         Table!Finish, Table!EndCall, Table!ChangeMap, Table!WatcherStep,
         Table!TakeEvent, Table!ClearFlag, Table!ReadFile, Table!Install, Table!Replace
<1>2. Function(routes', Emails)
  BY DEF Table!CallerStep, Table!RaiseFlag, Table!Truncate, Table!Fill, Table!WriteFails,
         Table!Finish, Table!EndCall, Table!ChangeMap, Table!WatcherStep,
         Table!TakeEvent, Table!ClearFlag, Table!ReadFile, Table!Install, Table!Replace,
         Table!ExactPart, Table!tableVars, LookupsServeLoops, Function
<1> QED  BY <1>1, <1>2, LookupsKept

-----------------------------------------------------------------------------
(* The three critical sections of a lookup, each with what it is to the loop. *)

LEMMA MissLookups ==
    ASSUME LookupsServeLoops, NEW s \in Systems, NEW d \in Deliveries, Miss(s, d)
    PROVE  LookupsServeLoops'
<1>1. /\ look' = [look EXCEPT ![s] = [at |-> "missed", email |-> Email[d]]]
      /\ UNCHANGED routes
  BY DEF Miss, Table!LookupMiss, Table!tableVars
<1>2. scan' = [scan EXCEPT ![s] = {d}]
  BY DEF Miss, Pull!MissRoute
<1>3. Serves(s, d)'
  BY <1>1, <1>2 DEF Serves, LookupsServeLoops, Function
<1>4. \A x \in Systems \ {s} : look'[x] = look[x] /\ scan'[x] = scan[x]
  BY <1>1, <1>2 DEF LookupsServeLoops, Function
<1>5. \A x \in Systems : look'[x] = Table!Idle \/ \E y \in Deliveries : Serves(x, y)'
  BY <1>3, <1>4, LoopKept
<1>6. Function(routes', Emails) /\ Function(look', Systems) /\ Function(scan', Systems)
  BY <1>1, <1>2 DEF LookupsServeLoops, Function
<1> QED  BY <1>5, <1>6 DEF LookupsServeLoops, Serves, Function

\* A lookup that ends leaves nothing to serve.
LEMMA EndLookups ==
    ASSUME LookupsServeLoops, NEW s \in Systems, NEW d \in Deliveries,
           NoMatch(s, d) \/ CacheMatch(s, d)
    PROVE  LookupsServeLoops'
<1>1. /\ \E v : look' = [look EXCEPT ![s] = v]
      /\ look'[s] = Table!Idle
      /\ Function(routes', Emails)
  BY DEF NoMatch, CacheMatch, Table!LookupMatch, Table!Match, Table!LookupCache,
         Table!EndLookup, Table!tableVars, LookupsServeLoops, Function
<1>2. scan' = [scan EXCEPT ![s] = {}]
  BY DEF NoMatch, CacheMatch, Pull!EndScan
<1>3. \A x \in Systems \ {s} : look'[x] = look[x] /\ scan'[x] = scan[x]
  BY <1>1, <1>2 DEF LookupsServeLoops, Function
<1>4. \A x \in Systems : look'[x] = Table!Idle \/ \E y \in Deliveries : Serves(x, y)'
  BY <1>1, <1>3, LoopKept
<1>5. Function(look', Systems) /\ Function(scan', Systems)
  BY <1>1, <1>2 DEF LookupsServeLoops, Function
<1> QED  BY <1>1, <1>4, <1>5 DEF LookupsServeLoops, Serves, Function

\* A match is of a pattern that has a route and matches the address looked up.
LEMMA MatchedLookups ==
    ASSUME LookupsServeLoops, NEW s \in Systems, Matched(s)
    PROVE  LookupsServeLoops'
<1>1. /\ look[s].at = "missed"
      /\ look'[s] # Table!Idle
      /\ UNCHANGED <<routes, scan>>
  BY DEF Matched, Table!LookupMatch, Table!Match, Table!tableVars, pullVars, loopVars
<1>2. PICK r \in Table!Hits(look[s].email) :
         look' = [look EXCEPT ![s] = [at |-> "matched", email |-> look[s].email,
                                      match |-> patterns[r]]]
  BY <1>1 DEF Matched, Table!LookupMatch, Table!Match, LookupsServeLoops, Function
<1>3. PICK d \in Deliveries : Serves(s, d)
  BY <1>1 DEF LookupsServeLoops, Table!Idle
<1>4. look[s].email = Email[d]
  BY <1>3, Served
<1>5. r \in Regexes /\ patterns[r] # NoTarget /\ Email[d] \in Matches[r]
  BY <1>2, <1>4 DEF Table!Hits
<1>6. Serves(s, d)'
  BY <1>1, <1>2, <1>3, <1>4, <1>5 DEF Serves, Matchable, LookupsServeLoops, Function
<1>7. \A x \in Systems \ {s} : look'[x] = look[x] /\ scan'[x] = scan[x]
  BY <1>1, <1>2 DEF LookupsServeLoops, Function
<1>8. \A x \in Systems : look'[x] = Table!Idle \/ \E y \in Deliveries : Serves(x, y)'
  BY <1>6, <1>7, LoopKept
<1>9. Function(routes', Emails) /\ Function(look', Systems) /\ Function(scan', Systems)
  BY <1>1, <1>2 DEF LookupsServeLoops, Function
<1> QED  BY <1>8, <1>9 DEF LookupsServeLoops, Serves, Function

LEMMA RestartLookups ==
    ASSUME LookupsServeLoops, Restart
    PROVE  LookupsServeLoops'
BY DEF Restart, Table!Crash, Pull!Restart, LookupsServeLoops, Function, Table!ExactPart

LEMMA LookupsStep == LookupsServeLoops /\ [Next]_vars => LookupsServeLoops'
<1> SUFFICES ASSUME LookupsServeLoops, [Next]_vars PROVE LookupsServeLoops'
  OBVIOUS
<1>1. ASSUME NEW s \in Systems, LoopTask(s) PROVE LookupsServeLoops'
  BY <1>1, LoopAloneLookups, MatchedLookups, MissLookups, EndLookups DEF LoopTask
<1>2. CASE CheckerTask
  <2>1. CASE CheckerAlone
    BY <2>1, LookupsKept DEF CheckerAlone, tableVars, pullVars, loopVars, LookupsServeLoops,
       Function
  <2>2. ASSUME NEW t \in Targets, NEW e \in Emails, BeginRemoval(t, e)
        PROVE  LookupsServeLoops'
    BY <2>2, TableLookups DEF BeginRemoval, Table!RemoveRoute, pullVars, loopVars
  <2>3. CASE TableStep(Table!CallerStep(HealthCaller))
    BY <2>3, TableLookups DEF TableStep, pullVars, loopVars
  <2> QED  BY <1>2, <2>1, <2>2, <2>3 DEF CheckerTask
<1>3. CASE ApiCall
  BY <1>3, TableLookups DEF ApiCall, Table!RemoveRoute, Table!UpdateRoute, pullVars, loopVars
<1>4. ASSUME NEW c \in Callers, TableStep(Table!CallerStep(c)) PROVE LookupsServeLoops'
  BY <1>4, TableLookups DEF TableStep, pullVars, loopVars
<1>5. CASE TableStep(Table!WatcherStep)
  BY <1>5, TableLookups DEF TableStep, pullVars, loopVars
<1>6. CASE Outside
  <2>1. UNCHANGED <<look, routes, scan>>
    BY <1>6 DEF Outside, tableVars, Pull!Expire, Pull!LatePostTaken, Pull!LateAckApplied,
       Pull!loopVars
  <2> QED  BY <2>1, LookupsKept DEF LookupsServeLoops, Function
<1>7. CASE Restart
  BY <1>7, RestartLookups
<1>8. CASE UNCHANGED vars
  BY <1>8, LookupsKept DEF vars, tableVars, pullVars, loopVars, LookupsServeLoops, Function
<1> QED  BY <1>1, <1>2, <1>3, <1>4, <1>5, <1>6, <1>7, <1>8 DEF Next

-----------------------------------------------------------------------------
(* Every step is one of PullLoop, or leaves all it sees as it is. *)

\* The map changes under a loop, in whatever way.
LEMMA MapChange ==
    ASSUME UNCHANGED pullVars
    PROVE  [Pull!Next]_Pull!vars
<1>1. InMap' \in SUBSET Emails
  BY DEF InMap
<1>2. Pull!RoutesChange(InMap')
  BY DEF Pull!RoutesChange, Pull!loopVars, Pull!relayVars, Pull!agentVars, Pull!faultVars,
     pullVars, loopVars
<1> QED  BY <1>1, <1>2 DEF Pull!Next, Pull!Environment

\* With a match the POST begins, and the address is in the map.
LEMMA CacheIsMatch ==
    ASSUME LookupsServeLoops, NEW s \in Systems, NEW d \in Deliveries, CacheMatch(s, d)
    PROVE  Pull!MatchPattern(s, d)
<1>1. look[s].at = "matched" /\ d \in scan[s]
  BY DEF CacheMatch, Table!LookupCache, Table!EndLookup, Pull!EndScan
<1>2. PICK x \in Deliveries : Serves(s, x)
  BY <1>1 DEF LookupsServeLoops, Table!Idle
<1>3. x = d
  BY <1>1, <1>2 DEF Serves
<1>4. /\ Email[d] \in Matchable
      /\ look[s].email = Email[d] /\ look[s].match # NoTarget
  BY <1>1, <1>2, <1>3, Served
<1>5. routes' = [routes EXCEPT ![Email[d]] = look[s].match]
  BY <1>4 DEF CacheMatch, Table!LookupCache, Table!EndLookup
<1>6. Email[d] \in Emails
  BY AddressAssumption
<1>7. InMap' = InMap \union {Email[d]}
  BY <1>4, <1>5, <1>6 DEF InMap, LookupsServeLoops, Function
<1>8. Pull!SendPost(s, d, InMap \union {Email[d]})
  BY <1>7 DEF CacheMatch, Pull!SendPost
<1> QED  BY <1>4, <1>8 DEF CacheMatch, Pull!MatchPattern, Matchable

LEMMA LoopTaskIsPull ==
    ASSUME LookupsServeLoops, NEW s \in Systems, LoopTask(s)
    PROVE  [Pull!Next]_Pull!vars
<1>1. CASE LoopAlone(s)
  <2>1. Pull!Loop(s)
    BY <1>1 DEF LoopAlone, Pull!Loop, Pull!Handle
  <2> QED  BY <2>1 DEF Pull!Next
<1>2. CASE Matched(s)
  BY <1>2, MapChange DEF Matched
<1>3. ASSUME NEW d \in Deliveries, Miss(s, d) PROVE Pull!Handle(s, d)
  BY <1>3 DEF Miss, Pull!Handle
<1>4. ASSUME NEW d \in Deliveries, NoMatch(s, d) PROVE Pull!Handle(s, d)
  <2>1. UNCHANGED InMap
    BY <1>4 DEF NoMatch, Table!LookupMatch, Table!Match, Table!tableVars, InMap
  <2> QED  BY <1>4, <2>1 DEF NoMatch, Pull!SkipUnrouted, Pull!Handle
<1>5. ASSUME NEW d \in Deliveries, CacheMatch(s, d) PROVE Pull!Handle(s, d)
  BY <1>5, CacheIsMatch DEF Pull!Handle
<1>6. (\E d \in Deliveries : Pull!Handle(s, d)) => Pull!Next
  BY DEF Pull!Next, Pull!Loop
<1> QED  BY <1>1, <1>2, <1>3, <1>4, <1>5, <1>6 DEF LoopTask

LEMMA StepIsPull == LookupsServeLoops /\ [Next]_vars => [Pull!Next]_Pull!vars
<1> SUFFICES ASSUME LookupsServeLoops, [Next]_vars PROVE [Pull!Next]_Pull!vars
  OBVIOUS
<1>1. ASSUME NEW s \in Systems, LoopTask(s) PROVE [Pull!Next]_Pull!vars
  BY <1>1, LoopTaskIsPull
<1>2. CASE CheckerTask
  BY <1>2, MapChange DEF CheckerTask, CheckerAlone, BeginRemoval, TableStep
<1>3. CASE ApiCall
  BY <1>3, MapChange DEF ApiCall
<1>4. ASSUME NEW c \in Callers, TableStep(Table!CallerStep(c)) PROVE [Pull!Next]_Pull!vars
  BY <1>4, MapChange DEF TableStep
<1>5. CASE TableStep(Table!WatcherStep)
  BY <1>5, MapChange DEF TableStep
<1>6. CASE Outside
  BY <1>6 DEF Outside, Pull!Next, Pull!Environment
<1>7. CASE Restart
  <2>1. InMap' \in SUBSET Emails
    BY DEF InMap
  <2> QED  BY <1>7, <2>1 DEF Restart, Pull!Next, Pull!Environment
<1>8. CASE UNCHANGED vars
  BY <1>8, MapChange DEF vars
<1> QED  BY <1>1, <1>2, <1>3, <1>4, <1>5, <1>6, <1>7, <1>8 DEF Next

\* A lookup under way is for the delivery its loop waits for, and what it found is
\* a route of a pattern that matches the address (router.rs:224-248), whatever
\* the table has become since.
THEOREM LookupsInvariant == Spec => []LookupsServeLoops
BY LookupsInit, LookupsStep, PTL DEF Spec

\* With the real route table the pull loops are those of PullLoop
\* (pull.rs:84-115, router.rs:224-248): what PullLoop proves of no message lost
\* and no copy without a fault holds of the composed system.
THEOREM LoopsKeepPromises == Spec => ImplementsPullLoop
<1>1. Init => Pull!Init
  BY DEF Init
<1> QED  BY <1>1, StepIsPull, LookupsInvariant, PTL DEF Spec, ImplementsPullLoop, Pull!Spec

-----------------------------------------------------------------------------
(* The checker sees of a route its key, and its targets are a set given at the
   start: that no step of the table makes a key outside it is what RoutesFit
   keeps, for the routes wherever they are. *)

\* The table's reading and writing of endpoints is that of Endpoints.
LEMMA SameEndpoints ==
    /\ \A t : Table!Load(t) = Load(t)
    /\ \A r : Table!CopyOf(r) = CopyOf(r)
    /\ \A r : Table!Written(r) = Written(r)
    /\ \A t, p : Table!Registered(t, p) = Registered(t, p)
<1>1. /\ \A t : Table!FromUrl(t) = FromUrl(t) /\ Table!IsUrl(t) = IsUrl(t)
      /\ \A h, p : Table!New(h, p) = New(h, p)
  BY DEF Table!FromUrl, FromUrl, Table!IsUrl, IsUrl, Table!New, New, Table!Url, Url,
         Table!DefaultPath, DefaultPath
<1>2. \A t : Table!ParseAddr(t) = ParseAddr(t)
  BY <1>1 DEF Table!ParseAddr, ParseAddr
<1>3. \A r : Table!Written(r) = Written(r)
  BY DEF Table!Written, Written, Table!Stored, Stored, Table!Plain, Plain, Table!Url, Url,
         Table!EndsLikeDefault, EndsLikeDefault, Table!BeginsPlainly, BeginsPlainly,
         Table!DefaultPath, DefaultPath, Table!SuffixPath, SuffixPath
<1> QED  BY <1>1, <1>2, <1>3 DEF Table!Load, Load, Table!CopyOf, CopyOf, Table!Registered,
         Registered

\* A route the checker can have in its map, and so can its copies.
Fit(r) == Proper(r) /\ Targeted(r)
FitOrNone(r) == r = NoTarget \/ Fit(r)

FitContent(c) == \A k \in Emails \union Regexes : FitOrNone(Table!Entry(c[k]))

RoutesFit ==
    /\ \A e \in Emails : FitOrNone(routes[e])
    /\ \A r \in Regexes : FitOrNone(patterns[r])
    /\ \A s \in Systems : look[s].at = "matched" => Fit(look[s].match)
    /\ file = Absent \/ FitContent(file)
    /\ FitContent(loaded)

LEMMA CopyFits ==
    ASSUME NEW r, Fit(r)
    PROVE  Fit(CopyOf(r))
<1>1. r \in Routes
  BY DEF Fit, Proper
<1>2. CopyOf(CopyOf(r)) = CopyOf(r)
  BY DEF CopyOf, New
<1> QED  BY <1>1, <1>2, CopyIsProper DEF Fit, Targeted

\* Written and read back, a route has the key it had.
LEMMA RereadFits ==
    ASSUME NEW r, Fit(r)
    PROVE  Fit(Load(Written(r)))
<1>1. r \in Routes
  BY DEF Fit, Proper
<1>2. Load(Written(r)) \in {r, CopyOf(r)}
  BY WhatComesBack DEF Fit, CopyOf
<1> QED  BY <1>2, CopyFits

LEMMA PartsFit ==
    ASSUME NEW c, FitContent(c)
    PROVE  /\ \A e \in Emails : FitOrNone(Table!ExactPart(c)[e])
           /\ \A r \in Regexes : FitOrNone(Table!RegexPart(c)[r])
<1>1. \A k \in Emails \union Regexes : FitOrNone(Table!Entry(c[k]))
  BY DEF FitContent
<1>2. ASSUME NEW e \in Emails PROVE FitOrNone(Table!ExactPart(c)[e])
  BY <1>1 DEF Table!ExactPart, FitOrNone
<1>3. ASSUME NEW r \in Regexes PROVE FitOrNone(Table!RegexPart(c)[r])
  <2>1. Table!RegexPart(c)[r] = IF Table!Entry(c[r]) = NoTarget THEN NoTarget
                                ELSE CopyOf(Table!Entry(c[r]))
    BY SameEndpoints DEF Table!RegexPart
  <2>2. FitOrNone(Table!Entry(c[r]))
    BY <1>1
  <2> QED  BY <2>1, <2>2, CopyFits DEF FitOrNone
<1> QED  BY <1>2, <1>3

LEMMA EmptyFits == FitContent(Table!Empty)
BY DEF FitContent, FitOrNone, Table!Entry, Table!Empty, Table!Keys

LEMMA ContentFits ==
    ASSUME file = Absent \/ FitContent(file)
    PROVE  FitContent(Table!Content(file))
BY EmptyFits DEF Table!Content

LEMMA FileFits ==
    ASSUME \A e \in Emails : FitOrNone(routes[e])
    PROVE  FitContent(Table!FileOf(routes))
<1> SUFFICES ASSUME NEW k \in Emails \union Regexes
             PROVE  FitOrNone(Table!Entry(Table!FileOf(routes)[k]))
  BY DEF FitContent
<1>1. CASE k \in Emails /\ routes[k] # NoTarget
  <2>1. Table!FileOf(routes)[k] = Written(routes[k])
    BY <1>1, SameEndpoints DEF Table!FileOf, Table!Keys
  <2>2. Fit(Load(Written(routes[k])))
    BY <1>1, RereadFits DEF FitOrNone
  <2> QED  BY <2>1, <2>2, SameEndpoints DEF Table!Entry, FitOrNone
<1>2. CASE ~(k \in Emails /\ routes[k] # NoTarget)
  BY <1>2 DEF Table!FileOf, Table!Keys, Table!Entry, FitOrNone
<1> QED  BY <1>1, <1>2

LEMMA FitInit == Init => RoutesFit
<1> SUFFICES ASSUME Init PROVE RoutesFit
  OBVIOUS
<1>1. file = Absent \/ FitContent(file)
  <2>1. file \in StartFiles
    BY DEF Init, Table!Init
  <2>2. ASSUME file # Absent, NEW k \in Emails \union Regexes, file[k] # NoTarget,
               Load(file[k]) # NoTarget
        PROVE  Fit(Load(file[k]))
    BY <2>1, <2>2, FileAssumption, LoadIsProper DEF Fit
  <2> QED  BY <2>2, SameEndpoints DEF FitContent, FitOrNone, Table!Entry
<1>2. /\ routes = Table!ExactPart(Table!Content(file))
      /\ patterns = Table!RegexPart(Table!Content(file))
      /\ loaded = Table!Empty
      /\ \A s \in Systems : look[s].at # "matched"
  BY DEF Init, Table!Init, Table!Idle
<1> QED  BY <1>1, <1>2, ContentFits, PartsFit, EmptyFits DEF RoutesFit

\* The table where nothing but its counters and flags changes.
LEMMA FitKept ==
    ASSUME RoutesFit, UNCHANGED <<routes, patterns, look, file, loaded>>
    PROVE  RoutesFit'
BY DEF RoutesFit

LEMMA ChangeFits ==
    ASSUME RoutesFit, LookupsServeLoops, NEW c, NEW e \in Emails, NEW t, FitOrNone(t),
           Table!ChangeMap(c, e, t, "flag")
    PROVE  RoutesFit'
<1>1. \A x \in Emails : FitOrNone(routes'[x])
  BY DEF Table!ChangeMap, RoutesFit, LookupsServeLoops, Function
<1>2. UNCHANGED <<patterns, file, loaded, look>>
  BY DEF Table!ChangeMap, Table!watcherVars
<1> QED  BY <1>1, <1>2 DEF RoutesFit

LEMMA CallerFits ==
    ASSUME RoutesFit, NEW c, Table!CallerStep(c)
    PROVE  RoutesFit'
<1>1. UNCHANGED <<routes, patterns, look, loaded>>
  BY DEF Table!CallerStep, Table!RaiseFlag, Table!Truncate, Table!Fill, Table!WriteFails,
         Table!Finish, Table!EndCall, Table!tableVars, Table!watcherVars
<1>2. file' = Absent \/ FitContent(file')
  <2>1. file' \in {file, Table!Empty, Table!FileOf(routes)}
    BY DEF Table!CallerStep, Table!RaiseFlag, Table!Truncate, Table!Fill, Table!WriteFails,
           Table!Finish, Table!EndCall
  <2> QED  BY <2>1, EmptyFits, FileFits DEF RoutesFit
<1> QED  BY <1>1, <1>2 DEF RoutesFit

LEMMA WatcherFits ==
    ASSUME RoutesFit, Table!WatcherStep
    PROVE  RoutesFit'
<1>1. UNCHANGED <<look, file>>
  BY DEF Table!WatcherStep, Table!TakeEvent, Table!ClearFlag, Table!ReadFile, Table!Install,
         Table!Replace
<1>2. CASE Table!Install
  <2>1. /\ routes' = Table!ExactPart(loaded) /\ patterns' = Table!RegexPart(loaded)
        /\ loaded' = Table!Empty
    BY <1>2 DEF Table!Install, Table!Replace
  <2> QED  BY <1>1, <2>1, PartsFit, EmptyFits DEF RoutesFit
<1>3. CASE Table!TakeEvent \/ Table!ClearFlag \/ Table!ReadFile
  <2>1. UNCHANGED <<routes, patterns>>
    BY <1>3 DEF Table!TakeEvent, Table!ClearFlag, Table!ReadFile, Table!tableVars
  <2>2. loaded' \in {loaded, Table!Content(file)}
    BY <1>3 DEF Table!TakeEvent, Table!ClearFlag, Table!ReadFile
  <2>3. FitContent(loaded')
    BY <2>2, ContentFits DEF RoutesFit
  <2> QED  BY <1>1, <2>1, <2>3 DEF RoutesFit
<1> QED  BY <1>2, <1>3 DEF Table!WatcherStep

LEMMA LookupFits ==
    ASSUME RoutesFit, LookupsServeLoops, NEW s \in Systems,
           \/ \E e : Table!LookupMiss(s, e)
           \/ Table!LookupMatch(s)
           \/ Table!LookupCache(s)
    PROVE  RoutesFit'
<1>1. UNCHANGED <<patterns, file, loaded>>
  BY DEF Table!LookupMiss, Table!LookupMatch, Table!Match, Table!LookupCache,
         Table!EndLookup, Table!tableVars, Table!watcherVars
<1>2. \A e \in Emails : FitOrNone(routes'[e])
  <2>1. CASE Table!LookupCache(s)
    <3>1. /\ look[s].at = "matched"
          /\ routes' = [routes EXCEPT ![look[s].email] = look[s].match]
      BY <2>1 DEF Table!LookupCache, Table!EndLookup
    <3> QED  BY <3>1 DEF RoutesFit, LookupsServeLoops, Function, FitOrNone
  <2>2. CASE ~Table!LookupCache(s)
    BY <2>2 DEF Table!LookupMiss, Table!LookupMatch, Table!Match, Table!tableVars, RoutesFit
  <2> QED  BY <2>1, <2>2
<1>3. PICK v : /\ look' = [look EXCEPT ![s] = v]
               /\ v.at = "matched" => Fit(v.match)
  <2>1. ASSUME NEW e, Table!LookupMiss(s, e)
        PROVE  /\ look' = [look EXCEPT ![s] = [at |-> "missed", email |-> e]]
               /\ [at |-> "missed", email |-> e].at # "matched"
    BY <2>1 DEF Table!LookupMiss
  <2>2. ASSUME NEW r \in Table!Hits(look[s].email)
        PROVE  [at |-> "matched", email |-> look[s].email,
                match |-> patterns[r]].match = patterns[r] /\ Fit(patterns[r])
    BY DEF Table!Hits, RoutesFit, FitOrNone
  <2>3. Table!Idle.at # "matched"
    BY DEF Table!Idle
  <2>4. ASSUME Table!LookupMatch(s)
        PROVE  \/ look' = [look EXCEPT ![s] = Table!Idle]
               \/ \E r \in Table!Hits(look[s].email) :
                     look' = [look EXCEPT ![s] = [at |-> "matched", email |-> look[s].email,
                                                  match |-> patterns[r]]]
    BY <2>4 DEF Table!LookupMatch, Table!Match
  <2>5. ASSUME Table!LookupCache(s)
        PROVE  look' = [look EXCEPT ![s] = Table!Idle]
    BY <2>5 DEF Table!LookupCache, Table!EndLookup
  <2> QED  BY <2>1, <2>2, <2>3, <2>4, <2>5
<1>4. \A x \in Systems : look'[x].at = "matched" => Fit(look'[x].match)
  BY <1>3 DEF RoutesFit, LookupsServeLoops, Function
<1> QED  BY <1>1, <1>2, <1>4 DEF RoutesFit

LEMMA CrashFits ==
    ASSUME RoutesFit, Table!Crash
    PROVE  RoutesFit'
<1>1. /\ routes' = Table!ExactPart(Table!Content(file))
      /\ patterns' = Table!RegexPart(Table!Content(file))
      /\ loaded' = Table!Empty /\ UNCHANGED file
      /\ \A s \in Systems : look'[s].at # "matched"
  BY DEF Table!Crash, Table!Idle
<1> QED  BY <1>1, ContentFits, PartsFit, EmptyFits DEF RoutesFit

LEMMA FitStep == RoutesFit /\ LookupsServeLoops /\ [Next]_vars => RoutesFit'
<1> SUFFICES ASSUME RoutesFit, LookupsServeLoops, [Next]_vars PROVE RoutesFit'
  OBVIOUS
<1>0. FitOrNone(NoTarget)
  BY DEF FitOrNone
<1>1. ASSUME UNCHANGED tableVars PROVE RoutesFit'
  BY <1>1, FitKept DEF tableVars
<1>2. ASSUME NEW s \in Systems, LoopTask(s) PROVE RoutesFit'
  BY <1>1, <1>2, LookupFits DEF LoopTask, LoopAlone, Miss, NoMatch, Matched, CacheMatch
<1>3. CASE CheckerTask
  BY <1>0, <1>1, <1>3, ChangeFits, CallerFits DEF CheckerTask, CheckerAlone, BeginRemoval,
     TableStep, Table!RemoveRoute
<1>4. CASE ApiCall
  <2>1. ASSUME NEW a \in Asks
        PROVE  a.email \in Emails /\ FitOrNone(Table!Registered(a.text, a.given))
    BY AskAssumption, RegisteredIsProper, SameEndpoints DEF FitOrNone, Fit
  <2> QED  BY <1>0, <1>4, <2>1, ChangeFits DEF ApiCall, Table!RemoveRoute, Table!UpdateRoute
<1>5. ASSUME NEW c \in Callers, TableStep(Table!CallerStep(c)) PROVE RoutesFit'
  BY <1>5, CallerFits DEF TableStep
<1>6. CASE TableStep(Table!WatcherStep)
  BY <1>6, WatcherFits DEF TableStep
<1>7. CASE Restart
  BY <1>7, CrashFits DEF Restart
<1> QED  BY <1>1, <1>2, <1>3, <1>4, <1>5, <1>6, <1>7 DEF Next, Outside, vars

-----------------------------------------------------------------------------
(* Every step is one of RouteHealth, or leaves all it sees as it is. *)

\* The table changes under the checker, in whatever way.
LEMMA TableChange ==
    ASSUME RoutesFit', UNCHANGED healthVars
    PROVE  Health!Next
<1>1. Keyed' \in [Emails -> Health!Maybe]
  BY DEF RoutesFit, FitOrNone, Fit, Targeted, Keyed, Health!Maybe
<1>2. Health!ChangeTable(Keyed')
  BY DEF Health!ChangeTable, healthVars, Health!checker, Health!world
<1> QED  BY <1>1, <1>2 DEF Health!Next

LEMMA CheckerIsHealth ==
    ASSUME RoutesFit', LookupsServeLoops, CheckerTask
    PROVE  Health!Next
<1>1. CASE CheckerAlone
  BY <1>1 DEF CheckerAlone, Health!Next, Health!Checker
<1>2. ASSUME NEW t \in Targets, NEW e \in Emails, BeginRemoval(t, e)
      PROVE  Health!Remove(t, e)
  <2>1. routes' = [routes EXCEPT ![e] = NoTarget]
    BY <1>2 DEF BeginRemoval, Table!RemoveRoute, Table!ChangeMap
  <2>2. Keyed' = [Keyed EXCEPT ![e] = NoTarget]
    BY <2>1 DEF Keyed, LookupsServeLoops, Function
  <2> QED  BY <1>2, <2>2 DEF BeginRemoval, Health!Remove
<1>3. CASE TableStep(Table!CallerStep(HealthCaller))
  BY <1>3, TableChange DEF TableStep
<1> QED  BY <1>1, <1>2, <1>3 DEF CheckerTask, Health!Next, Health!Checker

LEMMA StepIsHealth ==
    RoutesFit' /\ LookupsServeLoops /\ [Next]_vars => [Health!Next]_Health!vars
<1> SUFFICES ASSUME RoutesFit', LookupsServeLoops, [Next]_vars
             PROVE  [Health!Next]_Health!vars
  OBVIOUS
<1>1. ASSUME NEW s \in Systems, LoopTask(s) PROVE UNCHANGED healthVars
  BY <1>1 DEF LoopTask, LoopAlone, Miss, NoMatch, Matched, CacheMatch
<1>2. CASE CheckerTask
  BY <1>2, CheckerIsHealth
<1>3. CASE ApiCall
  BY <1>3, TableChange DEF ApiCall
<1>4. ASSUME NEW c \in Callers, TableStep(Table!CallerStep(c)) PROVE UNCHANGED healthVars
  BY <1>4 DEF TableStep
<1>5. CASE TableStep(Table!WatcherStep)
  BY <1>5, TableChange DEF TableStep
<1>6. CASE Outside
  BY <1>6, TableChange DEF Outside
<1>7. CASE Restart
  <2>1. Keyed' \in [Emails -> Health!Maybe]
    BY DEF RoutesFit, FitOrNone, Fit, Targeted, Keyed, Health!Maybe
  <2> QED  BY <1>7, <2>1 DEF Restart, Health!Next
<1>8. CASE UNCHANGED vars
  BY <1>8, TableChange DEF vars
<1> QED  BY <1>1, <1>2, <1>3, <1>4, <1>5, <1>6, <1>7, <1>8, TableChange DEF Next

\* Wherever a route is, in the map, the file, a pattern or the hands of a lookup,
\* it is a proper one, and the checker has an entry for its key (health.rs:58-60,
\* router.rs:159-217).
THEOREM RoutesStayFit == Spec => []RoutesFit
BY FitInit, FitStep, LookupsInvariant, PTL DEF Spec

\* With the real route table the checker is that of RouteHealth (health.rs:108-117,
\* router.rs:267-272): what RouteHealth proves of a death needing as many misses
\* holds of the composed system.
THEOREM CheckerKeepsPromises == Spec => ImplementsRouteHealth
<1>1. Init => Health!Init
  BY DEF Init
<1> QED  BY <1>1, StepIsHealth, LookupsInvariant, RoutesStayFit, PTL
         DEF Spec, ImplementsRouteHealth, Health!Spec
=============================================================================
