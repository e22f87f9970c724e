----------------------------- MODULE RouteTable -----------------------------
(***************************************************************************)
(* The route table (src/src/router.rs): an in-memory map from recipient    *)
(* address to agent endpoint behind an RwLock, the regex patterns beside   *)
(* it, and aimail_routes.toml, which three parties write or read:          *)
(*                                                                         *)
(*   - callers of update_route and remove_route (the admin API, the health *)
(*     checker) change the map and then rewrite the whole file from it;    *)
(*   - the watcher reloads the map from the file on inotify events, unless *)
(*     the `writing_routes` flag is up when it looks at the event;         *)
(*   - an operator edits the file.                                         *)
(*                                                                         *)
(* A critical section is one step, everything between two of them is not:  *)
(* the load reads the file before it locks the map, an update releases the *)
(* lock before it writes the file, std::fs::write truncates and then fills.*)
(***************************************************************************)
EXTENDS Endpoints

CONSTANTS
    Emails,         \* recipient addresses
    Regexes,        \* keys with a regex character in them, addresses or not
    Matches,        \* Matches[r]: the addresses r matches as a regex
    Asks,           \* what the API may be asked for: [email, text, given], to route
                    \* the address to the text, with the port given beside it
    Unasked,        \* the API has not been asked
    Callers,        \* concurrent callers of update_route / remove_route
    Lookups,        \* concurrent callers of lookup
    Absent,         \* the file does not exist
    StartFiles,     \* what aimail_routes.toml may hold when the bridge starts
    EditFiles,      \* what the operator may make of it
    MaxEvents,      \* bound: undelivered inotify events that are told apart
    MaxOps,         \* bound: updates and removals
    MaxEdits,       \* bound: edits by the operator
    MaxFaults       \* bound: failed writes and restarts of the process together

Keys == Emails \union Regexes
Maybe == Routes \union {NoTarget}

ASSUME RegexAssumption == Matches \in [Regexes -> SUBSET Emails]
\* A bare host has its port beside it.
ASSUME AskAssumption ==
    \A a \in Asks : /\ a.email \in Emails
                    /\ a.text \in Texts /\ a.text.host # NoHost /\ a.given \in Ports
                    /\ IsUrl(a.text) \/ a.text.port = NoPort
ASSUME FileAssumption == /\ StartFiles \subseteq [Keys -> Texts \union {NoTarget}] \union {Absent}
                         /\ EditFiles \subseteq [Keys -> Texts \union {NoTarget}]
                         /\ Absent \notin [Keys -> Texts \union {NoTarget}]
ASSUME BoundAssumption == /\ {MaxEvents, MaxOps, MaxEdits, MaxFaults} \subseteq Nat
                          /\ MaxEvents > 0

VARIABLES
    routes,    \* the map: routes[e] is a route or NoTarget
    patterns,  \* regex_patterns: the same for the regexes
    file,      \* the texts under its keys (none, if it is not TOML), or Absent
    writing,   \* the writing_routes flag
    watched,   \* the watcher watches the file
    events,    \* inotify events it has not looked at
    watcher,   \* where the watcher is
    loaded,    \* what load_from_file has read, text by text
    caller,    \* caller[c]: where c is in its update or removal
    subject,   \* subject[c]: the address it is about, as a set of at most one
    look,      \* look[l]: where lookup l is, its address and its match
    ops, edits, failed, crashes,   \* how often, for the bounds
    cached,    \* history: a lookup has put a match into the map
    asked,     \* history: asked[e], what the API was last asked for e; Unasked
               \* if the operator has edited the file since, or nobody asked
    edited     \* history: the operator has edited the file

tableVars   == <<routes, patterns>>
watcherVars == <<watcher, loaded>>
counts      == <<ops, edits, failed, crashes>>
callerVars  == <<caller, subject>>
history     == <<asked, edited, cached>>
vars == <<tableVars, file, writing, watched, events, watcherVars, callerVars,
          look, counts, history>>

CallerPhases == {"idle", "flag", "write", "fill", "done"}
Idle == [at |-> "idle"]
LookStates == {Idle} \union [at : {"missed"}, email : Emails]
                     \union [at : {"matched"}, email : Emails, match : Routes]

TypeOK ==
    /\ routes \in [Emails -> Maybe] /\ patterns \in [Regexes -> Maybe]
    /\ file = Absent \/ file \in [Keys -> Texts \union {NoTarget}]
    /\ loaded \in [Keys -> Texts \union {NoTarget}]
    /\ writing \in BOOLEAN /\ watched \in BOOLEAN
    /\ events \in 0..MaxEvents
    /\ watcher \in {"wait", "clear", "read", "install"}
    /\ caller \in [Callers -> CallerPhases] /\ subject \in [Callers -> SUBSET Emails]
    /\ look \in [Lookups -> LookStates]
    /\ ops \in 0..MaxOps /\ edits \in 0..MaxEdits
    /\ failed \in 0..MaxFaults /\ crashes \in 0..MaxFaults
    /\ asked \in [Emails -> Maybe \union {Unasked}] 
    /\ edited \in BOOLEAN /\ cached \in BOOLEAN

Empty == [k \in Keys |-> NoTarget]
\* read_to_string and the parse: a missing file is an empty one.
Content(f) == IF f = Absent THEN Empty ELSE f

Entry(text) == IF text = NoTarget THEN NoTarget ELSE Load(text)

\* A key with a regex character is a pattern, even if it was registered as an
\* address.
ExactPart(c) == [e \in Emails |-> IF e \in Regexes THEN NoTarget ELSE Entry(c[e])]

\* Of a pattern's route only host and port are kept.
RegexPart(c) == [r \in Regexes |-> IF Entry(c[r]) = NoTarget THEN NoTarget
                                                             ELSE CopyOf(Entry(c[r]))]

\* main: load the file, then start the watcher, which watches what exists.
Init ==
    /\ file \in StartFiles
    /\ routes = ExactPart(Content(file))
    /\ patterns = RegexPart(Content(file))
    /\ watched = (file # Absent)
    /\ writing = FALSE
    /\ events = 0
    /\ watcher = "wait"
    /\ loaded = Empty
    /\ caller = [c \in Callers |-> "idle"]
    /\ subject = [c \in Callers |-> {}]
    /\ look = [l \in Lookups |-> Idle]
    /\ ops = 0 /\ edits = 0 /\ failed = 0 /\ crashes = 0
    /\ asked = [e \in Emails |-> Unasked]
    /\ edited = FALSE /\ cached = FALSE

-----------------------------------------------------------------------------
(* update_route and remove_route. *)

At(c, p, q) == caller[c] = p /\ caller' = [caller EXCEPT ![c] = q]

\* Every change of the file is an event, if the watcher watches it.
Touch == events' = IF watched /\ events < MaxEvents THEN events + 1 ELSE events

\* The read lock is held from the snapshot to the end of write_current_routes:
\* the map cannot change meanwhile.
Unlocked == \A c \in Callers : caller[c] \in {"idle", "flag", "write"}

\* The map changes under the write lock, which is then dropped.
ChangeMap(c, e, t, next) ==
    /\ At(c, "idle", next)
    /\ ops' = IF ops < MaxOps THEN ops + 1 ELSE ops
    /\ Unlocked
    /\ routes' = [routes EXCEPT ![e] = t]
    /\ subject' = [subject EXCEPT ![c] = {e}]
    /\ asked' = [asked EXCEPT ![e] = t]
    /\ UNCHANGED <<patterns, file, writing, watched, events, watcherVars, look,
                   edits, failed, crashes, edited, cached>>

\* Two bugs: the map changes, the file is not rewritten.
UpdateUnsaved(c, a) == ChangeMap(c, a.email, Registered(a.text, a.given), "done")
RemoveUnsaved(c, e) == ChangeMap(c, e, NoTarget, "done")
\* Another: the removal leaves the map to a reload.
RemoveLater(c, e) == ChangeMap(c, e, routes[e], "flag")

UpdateRoute(c, a) == ChangeMap(c, a.email, Registered(a.text, a.given), "flag")
RemoveRoute(c, e) == ChangeMap(c, e, NoTarget, "flag")

RaiseFlag(c) ==
    /\ At(c, "flag", "write")
    /\ writing' = TRUE
    /\ UNCHANGED <<subject, tableVars, file, watched, events, watcherVars, look, counts,
                   history>>

\* Lock, format the map, open the file: which truncates it.
Truncate(c) ==
    /\ At(c, "write", "fill")
    /\ file' = Empty
    /\ Touch
    /\ UNCHANGED <<subject, tableVars, writing, watched, watcherVars, look, counts, history>>

\* The file gets the exact routes; patterns are not written.
FileOf(map) == [k \in Keys |-> IF k \in Emails /\ map[k] # NoTarget
                               THEN Written(map[k]) ELSE NoTarget]

Fill(c) ==
    /\ At(c, "fill", "done")
    /\ file' = FileOf(routes)
    /\ Touch
    /\ UNCHANGED <<subject, tableVars, writing, watched, watcherVars, look, counts, history>>

\* The open or the write fails; the error is only logged.
WriteFails(c) ==
    /\ failed + crashes < MaxFaults
    /\ failed' = failed + 1
    /\ At(c, "write", "done") \/ At(c, "fill", "done")
    /\ UNCHANGED <<subject, tableVars, file, writing, watched, events, watcherVars, look,
                   ops, edits, crashes, history>>

EndCall(c, flag) ==
    /\ At(c, "done", "idle")
    /\ subject' = [subject EXCEPT ![c] = {}]
    /\ writing' = flag
    /\ UNCHANGED <<tableVars, file, watched, events, watcherVars, look, counts,
                   history>>

\* A bug (AUDIT-1 A1): the flag is never reset.
FinishFlagUp(c) == EndCall(c, writing)

\* The flag is lowered and the lock released.
Finish(c) == EndCall(c, FALSE)

-----------------------------------------------------------------------------
(* The watcher and load_from_file. *)

WatcherAt(p, q) == watcher = p /\ watcher' = q

\* An event is dropped if the flag is up at this moment.
TakeEvent ==
    /\ events > 0
    /\ events' = events - 1
    /\ WatcherAt("wait", IF writing THEN "wait" ELSE "clear")
    /\ UNCHANGED <<tableVars, file, writing, watched, loaded, callerVars, look,
                   counts, history>>

ClearFlag ==
    /\ WatcherAt("clear", "read")
    /\ writing' = FALSE
    /\ UNCHANGED <<tableVars, file, watched, events, loaded, callerVars, look, counts,
                   history>>

\* No lock is held: a caller may be at any point of its update.
ReadFile ==
    /\ WatcherAt("read", "install")
    /\ loaded' = Content(file)
    /\ UNCHANGED <<tableVars, file, writing, watched, events, callerVars, look, counts,
                   history>>

\* Under the write lock: clear, insert the exact routes, replace the patterns.
Replace(ptns) ==
    /\ WatcherAt("install", "wait")
    /\ Unlocked
    /\ routes' = ExactPart(loaded)
    /\ patterns' = ptns
    /\ loaded' = Empty
    /\ UNCHANGED <<writing, watched, callerVars, look, counts, history>>

InstallExactOnly == Replace(patterns) /\ UNCHANGED <<file, events>>

Install == Replace(RegexPart(loaded)) /\ UNCHANGED <<file, events>>

-----------------------------------------------------------------------------
(* lookup of an address that is not in the map (a hit changes nothing). *)

LookupMiss(l, e) ==
    /\ look[l] = Idle
    /\ routes[e] = NoTarget
    /\ look' = [look EXCEPT ![l] = [at |-> "missed", email |-> e]]
    /\ UNCHANGED <<tableVars, file, writing, watched, events, watcherVars, callerVars,
                   counts, history>>

\* A bug: any pattern will do.
HitsAll(e) == {r \in Regexes : patterns[r] # NoTarget}

\* The patterns that match e.  They are tried in the order a HashMap yielded
\* them, so any of them may come first.
Hits(e) == {r \in Regexes : patterns[r] # NoTarget /\ e \in Matches[r]}

\* What the scan of the patterns ends with, if no pattern matches.
Match(l, none) ==
    /\ look[l].at = "missed"
    /\ \/ /\ Hits(look[l].email) = {}
          /\ look' = [look EXCEPT ![l] = none]
       \/ \E r \in Hits(look[l].email) :
            look' = [look EXCEPT ![l] =
                        [at |-> "matched", email |-> look[l].email, match |-> patterns[r]]]
    /\ UNCHANGED <<tableVars, file, writing, watched, events, watcherVars,
                   callerVars, counts, history>>

\* A bug: a miss is cached like a match.
LookupMatchNegative(l) ==
    Match(l, [at |-> "matched", email |-> look[l].email, match |-> NoTarget])

LookupMatch(l) == Match(l, Idle)

\* The lookup ends, and the map becomes r.
EndLookup(l, r) ==
    /\ look[l].at = "matched"
    /\ Unlocked
    /\ routes' = r
    /\ look' = [look EXCEPT ![l] = Idle]
    /\ cached' = TRUE
    /\ UNCHANGED <<patterns, file, writing, watched, events, watcherVars, callerVars,
                   counts, asked, edited>>

\* A bug: the match is not cached.
LookupUncached(l) == EndLookup(l, routes)

\* The match is cached in the map, over whatever is there by now.
LookupCache(l) == EndLookup(l, [routes EXCEPT ![look[l].email] = look[l].match])

-----------------------------------------------------------------------------
(* The operator, and the end of the process. *)

\* The operator writes the file in place.
Edit(content) ==
    /\ edits < MaxEdits
    /\ edits' = edits + 1
    /\ file' = content
    /\ Touch
    /\ asked' = [e \in Emails |-> Unasked]
    /\ edited' = TRUE
    /\ UNCHANGED <<tableVars, writing, watched, watcherVars, callerVars, look, ops,
                   failed, crashes, cached>>

\* The process dies at any point and is started again: what the file holds now
\* is all there is.  An update cut short was never acknowledged.
Crash ==
    /\ crashes' = crashes + 1
    /\ routes' = ExactPart(Content(file))
    /\ patterns' = RegexPart(Content(file))
    /\ watched' = (file # Absent)
    /\ writing' = FALSE
    /\ events' = 0
    /\ watcher' = "wait"
    /\ loaded' = Empty
    /\ caller' = [c \in Callers |-> "idle"]
    /\ subject' = [c \in Callers |-> {}]
    /\ look' = [l \in Lookups |-> Idle]
    /\ asked' = [e \in Emails |-> IF \E c \in Callers : e \in subject[c]
                                  THEN Unasked ELSE asked[e]]
    /\ UNCHANGED <<file, ops, edits, failed, edited, cached>>

CallerStep(c) == RaiseFlag(c) \/ Truncate(c) \/ Fill(c) \/ WriteFails(c) \/ Finish(c)
WatcherStep == TakeEvent \/ ClearFlag \/ ReadFile \/ Install
LookupStep(l) == LookupMatch(l) \/ LookupCache(l)

Call == /\ ops < MaxOps
        /\ \E c \in Callers : \/ \E e \in Emails : RemoveRoute(c, e)
                             \/ \E a \in Asks : UpdateRoute(c, a)

Next == \/ Call
        \/ \E c \in Callers : CallerStep(c)
        \/ WatcherStep
        \/ \E l \in Lookups : LookupStep(l) \/ \E e \in Emails : LookupMiss(l, e)
        \/ \E content \in EditFiles : Edit(content)
        \/ failed + crashes < MaxFaults /\ Crash

Spec == Init /\ [][Next]_vars

\* A call of the API runs to its end, and the watcher's task keeps receiving.
FairSpec == /\ Spec
            /\ \A c \in Callers : WF_vars(CallerStep(c))
            /\ WF_vars(WatcherStep)

-----------------------------------------------------------------------------
(* Properties. *)

\* The guard flag is up only while some call is rewriting the file
\* (router.rs:321-326): left up, it would stop hot-reloading for good.
FlagComesDown ==
    writing => \E c \in Callers : caller[c] \in {"write", "fill", "done"}

\* No call is in progress and the watcher has nothing left to look at.
Quiet == /\ \A c \in Callers : caller[c] = "idle"
         /\ watcher = "wait"
         /\ events = 0

\* A route once it has been written and read.
Rewritten(r) == IF r = NoTarget THEN NoTarget ELSE Load(Written(r))

\* At rest the map is what the file says, up to what the file can say: callers
\* and watcher may have overwritten each other, but not left two truths
\* (router.rs:104-157, :254-327).  Not promised: of an address taken for a
\* pattern, after a failed write, once a lookup has cached a match, or after an
\* edit nobody watched for or that arrived while the bridge was writing itself.
MapMatchesFile ==
    Quiet /\ failed = 0 /\ ~cached /\ (edited => watched /\ ops = 0) =>
        \A e \in Emails \ Regexes :
            Rewritten(routes[e]) = Rewritten(Entry(Content(file)[e]))

\* The same for the patterns (router.rs:123-152), as long as the bridge itself
\* has not written the file, which drops them.
PatternsMatchFile ==
    Quiet /\ ops = 0 /\ (edited => watched) => patterns = RegexPart(Content(file))

\* At rest, what the API was last asked for an address is what the map and the
\* file hold (router.rs:250 "then persist to file", :292 "avoids
\* read-modify-write race"): callers never lose each other's updates.  A reload
\* may, so this is about a file that is not watched.
UpdatesSurvive ==
    Quiet /\ ~watched /\ crashes = 0 /\ failed = 0 =>
        \A e \in Emails :
            asked[e] # Unasked =>
                /\ AsGoodAs(routes[e], asked[e])
                /\ AsGoodAs(Entry(Content(file)[e]), asked[e])

\* The endpoints named for a key, by a request to the API or in the file, and for
\* an address: under its own name or under a pattern that matches it.
NamedFor(k) ==
    (     {Registered(a.text, a.given) : a \in {a \in Asks : a.email = k}}
     \union {Entry(Content(f)[k]) : f \in StartFiles \union EditFiles}) \ {NoTarget}
MeantFor(e) == UNION {NamedFor(k) : k \in {e} \union {r \in Regexes : e \in Matches[r]}}

\* An endpoint of those, or what remains of one in a pattern or in the file.
OneOf(ends, r) == \E g \in ends : r \in {g, CopyOf(g)}

\* Mail never goes to an agent that was named for others only (router.rs:224-248,
\* :104-157): not by a match that is cached after a reload or an update has
\* changed its pattern or its address, nor by a file cut short, whatever else is
\* stale.  An address that looks like a pattern is one for the file's reader, and
\* its endpoint then for whomever it matches: so it is about tables without one.
MailGoesWhereMeant ==
    Emails \intersect Regexes = {} =>
        /\ \A e \in Emails : routes[e] # NoTarget => OneOf(MeantFor(e), routes[e])
        /\ \A l \in Lookups :
              look[l].at = "matched" => OneOf(MeantFor(look[l].email), look[l].match)

\* The health checker probes where the POSTs go (health.rs:58-60), for every
\* route it probes at all: those of bracketed hosts it does not.
ProbeGoesWherePostsGo ==
    \A e \in Emails :
        routes[e] # NoTarget /\ Probeable(TargetKey(routes[e]))
            => TargetKey(routes[e]) = Connects(routes[e].url)

\* Where a lookup of e may lead.
Reach(e) == IF routes[e] # NoTarget THEN {routes[e]}
                                    ELSE {patterns[r] : r \in Hits(e)}

\* router.rs:321-325: a reload after our own write changes nothing.
OwnReloadHarmless ==
    [][watcher = "install" /\ watcher' = "wait" /\ ~edited
         => \A e \in Emails : Reach(e)' = Reach(e)]_vars

=============================================================================
