-------------------------- MODULE RouteTableProofs --------------------------
(***************************************************************************)
(* What the route table and its file promise, for any number of addresses, *)
(* patterns, callers and lookups: the guard flag comes down, callers do    *)
(* not lose each other's updates, and at rest map and file tell one story. *)
(*                                                                         *)
(* "At rest" is no inductive notion: TableInv says, for every state, why   *)
(* the two will agree, that is, who is going to make them.                 *)
(***************************************************************************)
EXTENDS RouteTable, EndpointsProofs

(* Every route in the map, among the patterns and in the hands of a lookup is a
   proper one, so that it can be written to the file and read back. *)

\* A route, or none.
Sound(r) == r = NoTarget \/ Proper(r)

TableTypes ==
    /\ TypeOK
    /\ \A e \in Emails : Sound(routes[e])
    /\ \A r \in Regexes : Sound(patterns[r])
    /\ \A l \in Lookups : look[l].at = "matched" => Proper(look[l].match)

Contents == [Keys -> Texts \union {NoTarget}]

LEMMA SoundIsMaybe == \A r : Sound(r) => r \in Maybe
BY DEF Sound, Proper, Maybe

LEMMA EntryIsSound ==
    ASSUME NEW t \in Texts \union {NoTarget}
    PROVE  Sound(Entry(t))
BY LoadIsProper DEF Entry, Sound

LEMMA EmptyIsContent == Empty \in Contents
BY DEF Empty, Contents

LEMMA PartsAreSound ==
    ASSUME NEW c \in Contents
    PROVE  /\ ExactPart(c) \in [Emails -> Maybe] /\ RegexPart(c) \in [Regexes -> Maybe]
           /\ \A e \in Emails : Sound(ExactPart(c)[e])
           /\ \A r \in Regexes : Sound(RegexPart(c)[r])
<1>1. \A k \in Keys : c[k] \in Texts \union {NoTarget}
  BY DEF Contents
<1>2. \A k \in Keys : Sound(Entry(c[k]))
  BY <1>1, EntryIsSound
<1>3. \A e \in Emails : Sound(ExactPart(c)[e])
  BY <1>2 DEF ExactPart, Keys, Sound
<1>4. \A r \in Regexes : Sound(RegexPart(c)[r])
  <2>1. ASSUME NEW r \in Regexes PROVE Sound(RegexPart(c)[r])
    <3>1. RegexPart(c)[r] = IF Entry(c[r]) = NoTarget THEN NoTarget ELSE CopyOf(Entry(c[r]))
      BY DEF RegexPart
    <3>2. Entry(c[r]) # NoTarget => Entry(c[r]) \in Routes
      BY <1>2 DEF Keys, Sound, Proper
    <3> QED  BY <3>1, <3>2, CopyIsProper DEF Sound
  <2> QED  BY <2>1
<1>5. /\ \A e \in Emails : ExactPart(c)[e] \in Maybe
      /\ \A r \in Regexes : RegexPart(c)[r] \in Maybe
  BY <1>3, <1>4, SoundIsMaybe
<1>6. ExactPart(c) \in [Emails -> Maybe]
  BY <1>5 DEF ExactPart
<1>7. RegexPart(c) \in [Regexes -> Maybe]
  BY <1>5 DEF RegexPart
<1> QED  BY <1>3, <1>4, <1>6, <1>7

LEMMA FileOfIsContent ==
    ASSUME NEW map, \A e \in Emails : Sound(map[e])
    PROVE  FileOf(map) \in Contents
<1>1. \A e \in Emails : map[e] # NoTarget => Written(map[e]) \in Texts
  BY WrittenIsText DEF Sound
<1> QED  BY <1>1 DEF FileOf, Contents, Keys

LEMMA ContentIsContent ==
    ASSUME NEW f, f = Absent \/ f \in Contents
    PROVE  Content(f) \in Contents
BY EmptyIsContent DEF Content

LEMMA AskedForIsProper ==
    ASSUME NEW a \in Asks
    PROVE  Proper(Registered(a.text, a.given))
BY AskAssumption, RegisteredIsProper

-----------------------------------------------------------------------------
(* Types, and that every route is proper. *)

LEMMA TypesInit == Init => TableTypes
<1> SUFFICES ASSUME Init PROVE TableTypes
  OBVIOUS
<1>1. file = Absent \/ file \in Contents
  BY FileAssumption DEF Init, Contents
<1>2. Content(file) \in Contents
  BY <1>1, ContentIsContent
<1>3. /\ routes \in [Emails -> Maybe] /\ patterns \in [Regexes -> Maybe]
      /\ \A e \in Emails : Sound(routes[e])
      /\ \A r \in Regexes : Sound(patterns[r])
  BY <1>2, PartsAreSound DEF Init
<1>4. look \in [Lookups -> LookStates] /\ \A l \in Lookups : look[l].at # "matched"
  BY DEF Init, LookStates, Idle
<1>5. loaded \in Contents
  BY EmptyIsContent DEF Init
<1>6. /\ MaxEvents \in Nat /\ MaxOps \in Nat /\ MaxEdits \in Nat /\ MaxFaults \in Nat
  BY BoundAssumption
<1>7. /\ caller \in [Callers -> CallerPhases] /\ subject \in [Callers -> SUBSET Emails]
      /\ asked \in [Emails -> Maybe \union {Unasked}]
  BY DEF Init, CallerPhases
<1>8. /\ writing \in BOOLEAN /\ watched \in BOOLEAN /\ edited \in BOOLEAN /\ cached \in BOOLEAN
      /\ watcher = "wait" /\ events = 0 /\ ops = 0 /\ edits = 0 /\ failed = 0 /\ crashes = 0
  BY DEF Init
<1>9. TypeOK
  BY <1>1, <1>3, <1>4, <1>5, <1>6, <1>7, <1>8 DEF TypeOK, Contents
<1> QED  BY <1>3, <1>4, <1>9 DEF TableTypes

LEMMA TouchType ==
    ASSUME TypeOK, Touch
    PROVE  /\ events' \in 0..MaxEvents
           /\ watched => events' > 0
           /\ ~watched => events' = events
BY BoundAssumption DEF TypeOK, Touch

\* What no step of a caller but the first disturbs.
LEMMA CallTypes ==
    ASSUME TableTypes, NEW c \in Callers, NEW e \in Emails, NEW t, Sound(t), ops < MaxOps,
           ChangeMap(c, e, t, "flag")
    PROVE  TableTypes'
<1>1. routes' \in [Emails -> Maybe] /\ \A x \in Emails : Sound(routes'[x])
  BY SoundIsMaybe DEF ChangeMap, TableTypes, TypeOK
<1>2. ops' \in 0..MaxOps
  BY BoundAssumption DEF ChangeMap, TableTypes, TypeOK
<1>3. caller' \in [Callers -> CallerPhases] /\ subject' \in [Callers -> SUBSET Emails]
  BY DEF ChangeMap, At, TableTypes, TypeOK, CallerPhases
<1>4. asked' \in [Emails -> Maybe \union {Unasked}]
  BY SoundIsMaybe DEF ChangeMap, TableTypes, TypeOK
<1>5. UNCHANGED <<patterns, file, writing, watched, events, watcherVars, look, edits,
                  failed, crashes, edited, cached>>
  BY DEF ChangeMap
<1>6. TypeOK'
  BY <1>1, <1>2, <1>3, <1>4, <1>5 DEF TableTypes, TypeOK, watcherVars
<1> QED  BY <1>1, <1>5, <1>6 DEF TableTypes

LEMMA CallerTypes ==
    ASSUME TableTypes, NEW c \in Callers, CallerStep(c)
    PROVE  TableTypes'
<1> USE DEF TableTypes
<1>0. caller' \in [Callers -> CallerPhases] /\ subject' \in [Callers -> SUBSET Emails]
  BY DEF CallerStep, RaiseFlag, Truncate, Fill, WriteFails, Finish, EndCall, At, TypeOK,
         CallerPhases
<1>1. UNCHANGED <<tableVars, watched, watcherVars, look, ops, edits, crashes, history>>
  BY DEF CallerStep, RaiseFlag, Truncate, Fill, WriteFails, Finish, EndCall, counts
<1>2. writing' \in BOOLEAN /\ failed' \in 0..MaxFaults
  <2>1. CASE WriteFails(c)
    <3>1. failed' = failed + 1 /\ failed + crashes < MaxFaults /\ writing' = writing
      BY <2>1 DEF WriteFails
    <3> QED  BY <3>1, BoundAssumption DEF TypeOK
  <2>2. CASE RaiseFlag(c) \/ Truncate(c) \/ Fill(c) \/ Finish(c)
    BY <2>2 DEF RaiseFlag, Truncate, Fill, Finish, EndCall, counts, TypeOK
  <2> QED  BY <2>1, <2>2 DEF CallerStep
<1>3. events' \in 0..MaxEvents /\ (file' = Absent \/ file' \in Contents)
  <2>1. CASE Truncate(c)
    BY <2>1, TouchType, EmptyIsContent DEF Truncate
  <2>2. CASE Fill(c)
    BY <2>2, TouchType, FileOfIsContent DEF Fill
  <2>3. CASE RaiseFlag(c) \/ WriteFails(c) \/ Finish(c)
    BY <2>3 DEF RaiseFlag, WriteFails, Finish, EndCall, TypeOK, Contents
  <2> QED  BY <2>1, <2>2, <2>3 DEF CallerStep
<1>4. TypeOK'
  BY <1>0, <1>1, <1>2, <1>3 DEF TypeOK, tableVars, watcherVars, history, Contents
<1> QED  BY <1>1, <1>4 DEF tableVars

LEMMA WatcherTypes ==
    ASSUME TableTypes, WatcherStep
    PROVE  TableTypes'
<1> USE DEF TableTypes
<1>1. CASE TakeEvent \/ ClearFlag
  <2>1. events' \in 0..MaxEvents /\ writing' \in BOOLEAN
    <3>1. events \in 0..MaxEvents /\ writing \in BOOLEAN /\ MaxEvents \in Nat
      BY BoundAssumption DEF TypeOK
    <3>2. CASE TakeEvent
      <4>1. events > 0 /\ events' = events - 1 /\ writing' = writing
        BY <3>2 DEF TakeEvent
      <4> QED  BY <3>1, <4>1
    <3>3. CASE ClearFlag
      BY <3>1, <3>3 DEF ClearFlag
    <3> QED  BY <1>1, <3>2, <3>3
  <2>2. watcher' \in {"wait", "clear", "read", "install"}
    BY <1>1 DEF TakeEvent, ClearFlag, WatcherAt
  <2>3. UNCHANGED <<tableVars, file, watched, loaded, callerVars, look, counts, history>>
    BY <1>1 DEF TakeEvent, ClearFlag
  <2>4. TypeOK'
    BY <2>1, <2>2, <2>3 DEF TypeOK, tableVars, callerVars, counts, history
  <2> QED  BY <2>3, <2>4 DEF tableVars
<1>2. CASE ReadFile
  <2>1. loaded' \in Contents
    BY <1>2, ContentIsContent DEF ReadFile, TypeOK, Contents
  <2>2. TypeOK'
    BY <1>2, <2>1 DEF ReadFile, WatcherAt, TypeOK, tableVars, callerVars, counts, history,
       Contents
  <2> QED  BY <1>2, <2>2 DEF ReadFile, tableVars
<1>3. CASE Install
  <2>1. loaded \in Contents
    BY DEF TypeOK, Contents
  <2>2. /\ routes' = ExactPart(loaded) /\ patterns' = RegexPart(loaded)
        /\ loaded' = Empty /\ watcher' = "wait"
        /\ UNCHANGED <<file, events, writing, watched, callerVars, look, counts, history>>
    BY <1>3 DEF Install, Replace, WatcherAt
  <2>3. /\ routes' \in [Emails -> Maybe] /\ patterns' \in [Regexes -> Maybe]
        /\ \A e \in Emails : Sound(routes'[e])
        /\ \A r \in Regexes : Sound(patterns'[r])
    BY <2>1, <2>2, PartsAreSound
  <2>4. TypeOK'
    BY <2>2, <2>3, EmptyIsContent DEF TypeOK, callerVars, counts, history, Contents
  <2> QED  BY <2>2, <2>3, <2>4
<1> QED  BY <1>1, <1>2, <1>3 DEF WatcherStep

\* Where a lookup may be.
LEMMA LookCases ==
    ASSUME TypeOK, NEW l \in Lookups
    PROVE  /\ look[l].at \in {"idle", "missed", "matched"}
           /\ look[l].at # "idle" => look[l].email \in Emails
           /\ look[l].at = "matched" => look[l].match \in Routes
           /\ look[l].at = "idle" => look[l] = Idle
<1>1. look[l] \in LookStates
  BY DEF TypeOK
<1> QED  BY <1>1 DEF LookStates, Idle

LEMMA LookupTypes ==
    ASSUME TableTypes, NEW l \in Lookups,
           LookupStep(l) \/ \E e \in Emails : LookupMiss(l, e)
    PROVE  TableTypes'
<1> USE DEF TableTypes
<1>1. ASSUME NEW e \in Emails, LookupMiss(l, e) PROVE TableTypes'
  <2>1. look' = [look EXCEPT ![l] = [at |-> "missed", email |-> e]]
    BY <1>1 DEF LookupMiss
  <2>2. [at |-> "missed", email |-> e] \in LookStates
    BY DEF LookStates
  <2>3. look' \in [Lookups -> LookStates]
    BY <2>1, <2>2 DEF TypeOK
  <2>4. \A k \in Lookups : look'[k].at = "matched" => Proper(look'[k].match)
    BY <2>1 DEF TypeOK
  <2>5. TypeOK'
    BY <1>1, <2>3 DEF LookupMiss, TypeOK, tableVars, watcherVars, callerVars, counts, history
  <2> QED  BY <1>1, <2>4, <2>5 DEF LookupMiss, tableVars
<1>2. CASE LookupMatch(l)
  <2>0. UNCHANGED <<tableVars, file, writing, watched, events, watcherVars,
                    callerVars, counts, history>>
    BY <1>2 DEF LookupMatch, Match
  <2>1. PICK s : /\ look' = [look EXCEPT ![l] = s]
                 /\ \/ s = Idle
                    \/ \E r \in Hits(look[l].email) :
                          s = [at |-> "matched", email |-> look[l].email,
                               match |-> patterns[r]]
    BY <1>2 DEF LookupMatch, Match
  <2>2. look[l].at = "missed" /\ look[l].email \in Emails
    BY <1>2, LookCases DEF LookupMatch, Match
  <2>3. s \in LookStates /\ (s.at = "matched" => Proper(s.match))
    <3>1. CASE s = Idle
      BY <3>1 DEF LookStates, Idle
    <3>2. CASE \E r \in Hits(look[l].email) :
                  s = [at |-> "matched", email |-> look[l].email, match |-> patterns[r]]
      <4>1. PICK r \in Regexes : /\ patterns[r] # NoTarget
                                 /\ s = [at |-> "matched", email |-> look[l].email,
                                         match |-> patterns[r]]
        BY <3>2 DEF Hits
      <4>2. Proper(patterns[r]) /\ patterns[r] \in Routes
        BY <4>1 DEF Sound, Proper
      <4> QED  BY <2>2, <4>1, <4>2 DEF LookStates
    <3> QED  BY <2>1, <3>1, <3>2
  <2>4. look' \in [Lookups -> LookStates]
    BY <2>1, <2>3 DEF TypeOK
  <2>5. \A k \in Lookups : look'[k].at = "matched" => Proper(look'[k].match)
    BY <2>1, <2>3 DEF TypeOK
  <2>6. TypeOK'
    BY <2>0, <2>4 DEF TypeOK, tableVars, watcherVars, callerVars, counts, history
  <2> QED  BY <2>0, <2>5, <2>6 DEF tableVars
<1>3. CASE LookupCache(l)
  <2>0. /\ look[l].at = "matched"
        /\ routes' = [routes EXCEPT ![look[l].email] = look[l].match]
        /\ look' = [look EXCEPT ![l] = Idle] /\ cached' = TRUE
        /\ UNCHANGED <<patterns, file, writing, watched, events, watcherVars, callerVars,
                       counts, asked, edited>>
    BY <1>3 DEF LookupCache, EndLookup
  <2>1. look[l].email \in Emails /\ look[l].match \in Routes /\ Proper(look[l].match)
    BY <2>0, LookCases
  <2>2. routes' \in [Emails -> Maybe]
    BY <2>0, <2>1 DEF TypeOK, Maybe
  <2>3. \A e \in Emails : Sound(routes'[e])
    BY <2>0, <2>1 DEF TypeOK, Sound
  <2>4. Idle \in LookStates /\ Idle.at # "matched"
    BY DEF LookStates, Idle
  <2>5. look' \in [Lookups -> LookStates]
    BY <2>0, <2>4 DEF TypeOK
  <2>6. \A k \in Lookups : look'[k].at = "matched" => Proper(look'[k].match)
    BY <2>0, <2>4 DEF TypeOK
  <2>7. TypeOK'
    BY <2>0, <2>2, <2>5 DEF TypeOK, watcherVars, callerVars, counts
  <2> QED  BY <2>0, <2>3, <2>6, <2>7
<1> QED  BY <1>1, <1>2, <1>3 DEF LookupStep

LEMMA EditTypes ==
    ASSUME TableTypes, NEW content \in EditFiles, Edit(content)
    PROVE  TableTypes'
<1> USE DEF TableTypes
<1>1. file' \in Contents /\ events' \in 0..MaxEvents /\ edits' \in 0..MaxEdits
  BY FileAssumption, TouchType, BoundAssumption DEF Edit, TypeOK, Contents
<1>2. asked' \in [Emails -> Maybe \union {Unasked}] /\ edited' \in BOOLEAN
  BY DEF Edit
<1>3. UNCHANGED <<tableVars, writing, watched, watcherVars, callerVars, look, ops,
                  failed, crashes, cached>>
  BY DEF Edit
<1>4. TypeOK'
  BY <1>1, <1>2, <1>3 DEF TypeOK, tableVars, watcherVars, callerVars, Contents
<1> QED  BY <1>3, <1>4 DEF tableVars

LEMMA CrashTypes ==
    ASSUME TableTypes, failed + crashes < MaxFaults, Crash
    PROVE  TableTypes'
<1> USE DEF TableTypes
<1>1. Content(file) \in Contents
  BY ContentIsContent DEF TypeOK, Contents
<1>2. /\ routes' \in [Emails -> Maybe] /\ patterns' \in [Regexes -> Maybe]
      /\ \A e \in Emails : Sound(routes'[e])
      /\ \A r \in Regexes : Sound(patterns'[r])
  BY <1>1, PartsAreSound DEF Crash
<1>3. crashes' \in 0..MaxFaults /\ events' \in 0..MaxEvents
  BY BoundAssumption DEF Crash, TypeOK
<1>4. Idle \in LookStates /\ Idle.at # "matched"
  BY DEF LookStates, Idle
<1>5. /\ look' \in [Lookups -> LookStates]
      /\ \A l \in Lookups : look'[l].at # "matched"
  BY <1>4 DEF Crash
<1>6. asked' \in [Emails -> Maybe \union {Unasked}]
  BY DEF Crash, TypeOK
<1>7. TypeOK'
  BY <1>2, <1>3, <1>5, <1>6, EmptyIsContent DEF Crash, TypeOK, CallerPhases, Contents
<1> QED  BY <1>2, <1>5, <1>7

LEMMA TypesStep == TableTypes /\ [Next]_vars => TableTypes'
<1> SUFFICES ASSUME TableTypes, [Next]_vars PROVE TableTypes'
  OBVIOUS
<1>1. CASE Call
  <2>1. ASSUME NEW c \in Callers, NEW e \in Emails, RemoveRoute(c, e), ops < MaxOps
        PROVE  TableTypes'
    BY <2>1, CallTypes DEF RemoveRoute, Sound
  <2>2. ASSUME NEW c \in Callers, NEW a \in Asks, UpdateRoute(c, a), ops < MaxOps
        PROVE  TableTypes'
    <3>1. a.email \in Emails /\ Sound(Registered(a.text, a.given))
      BY AskAssumption, AskedForIsProper DEF Sound
    <3> QED  BY <2>2, <3>1, CallTypes DEF UpdateRoute
  <2> QED  BY <1>1, <2>1, <2>2 DEF Call
<1>2. CASE \E c \in Callers : CallerStep(c)
  BY <1>2, CallerTypes
<1>3. CASE WatcherStep
  BY <1>3, WatcherTypes
<1>4. CASE \E l \in Lookups : LookupStep(l) \/ \E e \in Emails : LookupMiss(l, e)
  BY <1>4, LookupTypes
<1>5. CASE \E content \in EditFiles : Edit(content)
  BY <1>5, EditTypes
<1>6. CASE failed + crashes < MaxFaults /\ Crash
  BY <1>6, CrashTypes
<1>7. CASE UNCHANGED vars
  BY <1>7 DEF TableTypes, TypeOK, vars, tableVars, watcherVars, callerVars, counts, history
<1> QED  BY <1>1, <1>2, <1>3, <1>4, <1>5, <1>6, <1>7 DEF Next

\* Whoever changes the table, its state stays well-formed (router.rs:84-91).
THEOREM TableWellFormed == Spec => []TypeOK
<1>1. Spec => []TableTypes
  BY TypesInit, TypesStep, PTL DEF Spec
<1>2. TableTypes => TypeOK
  BY DEF TableTypes
<1> QED  BY <1>1, <1>2, PTL

-----------------------------------------------------------------------------
(* Who will make map and file agree. *)

AllAt(places) == \A c \in Callers : caller[c] \in places
SomeAt(places) == \E c \in Callers : caller[c] \in places

\* Nobody has called yet.
IdleAtFirst == ops = 0 => AllAt({"idle"})

\* Without a watch there are no events.
UnwatchedIsStill == ~watched => events = 0 /\ watcher = "wait"

\* An unwatched file was absent at the start: there are no patterns.
UnwatchedIsExact ==
    ~watched /\ crashes = 0 =>
        /\ \A r \in Regexes : patterns[r] = NoTarget
        /\ \A l \in Lookups : look[l].at # "matched"

\* Then the map holds what was asked for, and so does the file, unless somebody
\* is about to write it.
MapKeepsAsked ==
    ~watched /\ crashes = 0 =>
        \A e \in Emails : asked[e] # Unasked => routes[e] = asked[e]
FileKeepsAsked ==
    ~watched /\ crashes = 0 /\ failed = 0 /\ AllAt({"idle", "done"}) =>
        \A e \in Emails : asked[e] # Unasked => Content(file)[e] = FileOf(routes)[e]

\* A caller that has written and still holds the lock has left the file as the
\* map is.
WrittenIsMap ==
    failed = 0 /\ ~edited /\ SomeAt({"done"}) /\ ~SomeAt({"fill"}) => file = FileOf(routes)

Agree(map, content) ==
    \A e \in Emails \ Regexes : Rewritten(map[e]) = Rewritten(Entry(content[e]))

\* The watcher will look at the file again, or has just read what it holds.
Rereads == events > 0 \/ watcher \in {"clear", "read"}
HasRead == watcher = "install" /\ loaded = Content(file)

\* Either map and file agree, or somebody will write or read the file.
MapWillMatch ==
    failed = 0 /\ ~cached /\ (edited => watched /\ ops = 0) =>
        \/ SomeAt({"flag", "write", "fill"})
        \/ Rereads \/ HasRead
        \/ watcher = "wait" /\ Agree(routes, Content(file))
PatternsWillMatch ==
    ops = 0 /\ (edited => watched) =>
        \/ Rereads \/ HasRead
        \/ watcher = "wait" /\ patterns = RegexPart(Content(file))

TableInv ==
    /\ TableTypes
    /\ FlagComesDown /\ IdleAtFirst /\ UnwatchedIsStill /\ UnwatchedIsExact
    /\ MapKeepsAsked /\ FileKeepsAsked /\ WrittenIsMap
    /\ MapWillMatch /\ PatternsWillMatch

-----------------------------------------------------------------------------
(* Map and file. *)

LEMMA ContentOfFileOf ==
    ASSUME TableTypes
    PROVE  Content(FileOf(routes)) = FileOf(routes)
BY FileOfIsContent, FileAssumption DEF TableTypes, Content, Contents

\* What has just been loaded agrees with what it was loaded from.
LEMMA LoadedAgrees == \A c : Agree(ExactPart(c), c)
BY DEF Agree, ExactPart

\* So does what has just been written.
LEMMA WrittenAgrees ==
    ASSUME TableTypes
    PROVE  Agree(routes, FileOf(routes))
<1> SUFFICES ASSUME NEW e \in Emails
             PROVE  Rewritten(routes[e]) = Rewritten(Entry(FileOf(routes)[e]))
  BY DEF Agree
<1>1. Sound(routes[e])
  BY DEF TableTypes
<1>2. FileOf(routes)[e] = IF routes[e] # NoTarget THEN Written(routes[e]) ELSE NoTarget
  BY DEF FileOf, Keys
<1>3. CASE routes[e] = NoTarget
  BY <1>2, <1>3 DEF Rewritten, Entry
<1>4. CASE routes[e] # NoTarget
  <2>1. Proper(routes[e]) /\ Written(routes[e]) # NoTarget
    BY <1>1, <1>4, WrittenIsText DEF Sound
  <2>2. Entry(FileOf(routes)[e]) = Load(Written(routes[e]))
    BY <1>2, <1>4, <2>1 DEF Entry
  <2>3. Load(Written(routes[e])) # NoTarget
    BY <2>1, RoundTrip, RouteAssumption DEF AsGoodAs, Proper
  <2> QED  BY <1>4, <2>1, <2>2, <2>3, RereadIsStable DEF Rewritten
<1> QED  BY <1>3, <1>4

\* Where the callers are after a step of one of them.
LEMMA Moved ==
    ASSUME TypeOK, NEW c \in Callers, NEW p, NEW q, At(c, p, q)
    PROVE  caller[c] = p /\ \A x \in Callers : caller'[x] = IF x = c THEN q ELSE caller[x]
BY DEF TypeOK, At

-----------------------------------------------------------------------------
(* The invariant at the start, and kept by every action. *)

LEMMA InvInit == Init => TableInv
<1> SUFFICES ASSUME Init PROVE TableInv
  OBVIOUS
<1>1. TableTypes
  BY TypesInit
<1>2. FlagComesDown /\ IdleAtFirst /\ UnwatchedIsStill /\ MapKeepsAsked /\ FileKeepsAsked
      /\ WrittenIsMap
  BY DEF Init, FlagComesDown, IdleAtFirst, UnwatchedIsStill, MapKeepsAsked, FileKeepsAsked,
         WrittenIsMap, AllAt, SomeAt
<1>3. UnwatchedIsExact
  <2>1. ~watched => patterns = RegexPart(Empty)
    BY DEF Init, Content
  <2>2. \A r \in Regexes : RegexPart(Empty)[r] = NoTarget
    BY DEF RegexPart, Empty, Entry, Keys
  <2> QED  BY <2>1, <2>2 DEF UnwatchedIsExact, Init, Idle
<1>4. MapWillMatch /\ PatternsWillMatch
  BY LoadedAgrees DEF Init, MapWillMatch, PatternsWillMatch
<1> QED  BY <1>1, <1>2, <1>3, <1>4 DEF TableInv

\* An update or removal: from here on somebody is about to write.
LEMMA CallInv ==
    ASSUME TableInv, TableTypes', ops < MaxOps,
           NEW c \in Callers, NEW e \in Emails, NEW t, ChangeMap(c, e, t, "flag")
    PROVE  TableInv'
<1> USE DEF TableInv, TableTypes
<1>1. /\ caller[c] = "idle"
      /\ \A x \in Callers : caller'[x] = IF x = c THEN "flag" ELSE caller[x]
  BY Moved DEF ChangeMap
<1>2. /\ UNCHANGED <<patterns, file, writing, watched, events, watcherVars, look,
                     edits, failed, crashes, edited, cached>>
      /\ routes' = [routes EXCEPT ![e] = t] /\ asked' = [asked EXCEPT ![e] = t]
      /\ Unlocked
  BY DEF ChangeMap
<1>3. ops' # 0
  BY BoundAssumption DEF ChangeMap, TypeOK
<1>4. SomeAt({"flag", "write", "fill"})' /\ ~AllAt({"idle", "done"})' /\ ~SomeAt({"done"})'
  BY <1>1, <1>2 DEF SomeAt, AllAt, Unlocked
<1>5. FlagComesDown' /\ UnwatchedIsStill' /\ UnwatchedIsExact'
  BY <1>1, <1>2 DEF FlagComesDown, UnwatchedIsStill, UnwatchedIsExact, watcherVars
<1>6. MapKeepsAsked'
  BY <1>2 DEF MapKeepsAsked, TypeOK
<1>7. IdleAtFirst' /\ FileKeepsAsked' /\ WrittenIsMap' /\ MapWillMatch' /\ PatternsWillMatch'
  BY <1>3, <1>4 DEF IdleAtFirst, FileKeepsAsked, WrittenIsMap, MapWillMatch,
                    PatternsWillMatch
<1> QED  BY <1>5, <1>6, <1>7

\* The steps to the truncated file: somebody is still about to write.
LEMMA BeforeFillInv ==
    ASSUME TableInv, TableTypes', NEW c \in Callers, RaiseFlag(c) \/ Truncate(c)
    PROVE  TableInv'
<1> USE DEF TableInv, TableTypes
<1>1. /\ caller[c] \in {"flag", "write"}
      /\ \A x \in Callers : caller'[x] = IF x = c THEN caller'[c] ELSE caller[x]
      /\ caller'[c] \in {"write", "fill"}
  BY Moved DEF RaiseFlag, Truncate
<1>2. UNCHANGED <<tableVars, watched, watcherVars, look, counts, history>>
  BY DEF RaiseFlag, Truncate
<1>3. ~watched => events' = events
  BY TouchType DEF RaiseFlag, Truncate
<1>4. SomeAt({"flag", "write", "fill"})' /\ ~AllAt({"idle", "done"})' /\ ops # 0
  BY <1>1 DEF SomeAt, AllAt, IdleAtFirst
<1>5. FlagComesDown'
  <2>1. SomeAt({"write", "fill", "done"})'
    BY <1>1 DEF SomeAt
  <2> QED  BY <2>1 DEF FlagComesDown, SomeAt
<1>6. WrittenIsMap'
  <2>1. CASE RaiseFlag(c)
    BY <1>1, <1>2, <2>1 DEF RaiseFlag, WrittenIsMap, SomeAt, tableVars, counts, history
  <2>2. CASE Truncate(c)
    <3>1. caller'[c] = "fill"
      BY <2>2, Moved DEF Truncate
    <3> QED  BY <3>1 DEF WrittenIsMap, SomeAt
  <2> QED  BY <2>1, <2>2
<1>7. UnwatchedIsStill' /\ UnwatchedIsExact' /\ MapKeepsAsked'
  BY <1>2, <1>3 DEF UnwatchedIsStill, UnwatchedIsExact, MapKeepsAsked, tableVars,
                    watcherVars, counts, history
<1>8. IdleAtFirst' /\ FileKeepsAsked' /\ MapWillMatch' /\ PatternsWillMatch'
  BY <1>2, <1>4 DEF IdleAtFirst, FileKeepsAsked, MapWillMatch, PatternsWillMatch, counts
<1> QED  BY <1>5, <1>6, <1>7, <1>8

\* The file is filled: it is as the map, and a watcher will hear of it.
LEMMA FillInv ==
    ASSUME TableInv, TableTypes', NEW c \in Callers, Fill(c)
    PROVE  TableInv'
<1> USE DEF TableInv, TableTypes
<1>1. /\ caller[c] = "fill"
      /\ \A x \in Callers : caller'[x] = IF x = c THEN "done" ELSE caller[x]
  BY Moved DEF Fill
<1>2. /\ UNCHANGED <<tableVars, writing, watched, watcherVars, look, counts, history>>
      /\ file' = FileOf(routes) /\ file' = FileOf(routes')
  BY DEF Fill, tableVars
<1>3. (watched => events' > 0) /\ (~watched => events' = events)
  BY TouchType DEF Fill
<1>4. ops # 0
  BY <1>1 DEF AllAt, IdleAtFirst
<1>5. FlagComesDown'
  <2>1. SomeAt({"write", "fill", "done"})'
    BY <1>1 DEF SomeAt
  <2> QED  BY <2>1 DEF FlagComesDown, SomeAt
<1>6. UnwatchedIsStill' /\ UnwatchedIsExact' /\ MapKeepsAsked' /\ WrittenIsMap'
  BY <1>2, <1>3 DEF UnwatchedIsStill, UnwatchedIsExact, MapKeepsAsked, WrittenIsMap,
                    tableVars, watcherVars, counts, history
<1>7. Content(file') = file'
  BY <1>2, ContentOfFileOf
<1>8. FileKeepsAsked'
  BY <1>2, <1>7 DEF FileKeepsAsked
<1>9. MapWillMatch'
  <2>1. Agree(routes', Content(file'))
    BY <1>2, <1>7, WrittenAgrees DEF tableVars
  <2>2. CASE watched
    BY <1>3, <2>2 DEF MapWillMatch, Rereads
  <2>3. CASE ~watched
    BY <1>2, <2>1, <2>3 DEF MapWillMatch, UnwatchedIsStill, watcherVars
  <2> QED  BY <2>2, <2>3
<1>10. IdleAtFirst' /\ PatternsWillMatch'
  BY <1>2, <1>4 DEF IdleAtFirst, PatternsWillMatch, counts
<1> QED  BY <1>5, <1>6, <1>8, <1>9, <1>10

\* A write that fails: nothing is promised any more of the file.
LEMMA WriteFailsInv ==
    ASSUME TableInv, TableTypes', NEW c \in Callers, WriteFails(c)
    PROVE  TableInv'
<1> USE DEF TableInv, TableTypes
<1>1. /\ caller[c] \in {"write", "fill"}
      /\ \A x \in Callers : caller'[x] = IF x = c THEN "done" ELSE caller[x]
  BY Moved DEF WriteFails
<1>2. /\ UNCHANGED <<tableVars, file, writing, watched, events, watcherVars, look,
                     ops, edits, crashes, history>>
      /\ failed' # 0
  BY BoundAssumption DEF WriteFails, TypeOK
<1>3. ops # 0
  BY <1>1 DEF AllAt, IdleAtFirst
<1>4. FlagComesDown'
  <2>1. SomeAt({"write", "fill", "done"})'
    BY <1>1 DEF SomeAt
  <2> QED  BY <2>1 DEF FlagComesDown, SomeAt
<1>5. UnwatchedIsStill' /\ UnwatchedIsExact' /\ MapKeepsAsked'
  BY <1>2 DEF UnwatchedIsStill, UnwatchedIsExact, MapKeepsAsked, tableVars, watcherVars,
              history
<1>6. IdleAtFirst' /\ PatternsWillMatch'
  BY <1>2, <1>3 DEF IdleAtFirst, PatternsWillMatch
<1>7. FileKeepsAsked' /\ WrittenIsMap' /\ MapWillMatch'
  BY <1>2 DEF FileKeepsAsked, WrittenIsMap, MapWillMatch
<1> QED  BY <1>4, <1>5, <1>6, <1>7

\* The flag comes down and the lock is released.
LEMMA FinishInv ==
    ASSUME TableInv, TableTypes', NEW c \in Callers, Finish(c)
    PROVE  TableInv'
<1> USE DEF TableInv, TableTypes
<1>1. /\ caller[c] = "done"
      /\ \A x \in Callers : caller'[x] = IF x = c THEN "idle" ELSE caller[x]
  BY Moved DEF Finish, EndCall
<1>2. UNCHANGED <<tableVars, file, watched, events, watcherVars, look, counts, history>>
  BY DEF Finish, EndCall
<1>3. writing' = FALSE
  BY DEF Finish, EndCall
<1>4. FlagComesDown'
  BY <1>3 DEF FlagComesDown
<1>5. UnwatchedIsStill' /\ UnwatchedIsExact' /\ MapKeepsAsked'
  BY <1>2 DEF UnwatchedIsStill, UnwatchedIsExact, MapKeepsAsked, tableVars, watcherVars,
              counts, history
<1>6. IdleAtFirst' /\ PatternsWillMatch'
  BY <1>1, <1>2 DEF IdleAtFirst, AllAt, PatternsWillMatch, Rereads, HasRead, tableVars,
                    watcherVars, counts, history
<1>7. /\ AllAt({"idle", "done"})' => AllAt({"idle", "done"})
      /\ SomeAt({"done"})' => SomeAt({"done"})
      /\ SomeAt({"fill"})' <=> SomeAt({"fill"})
      /\ SomeAt({"flag", "write", "fill"})' <=> SomeAt({"flag", "write", "fill"})
  BY <1>1 DEF AllAt, SomeAt
<1>8. FileKeepsAsked' /\ WrittenIsMap'
  BY <1>2, <1>7 DEF FileKeepsAsked, WrittenIsMap, tableVars, counts, history
<1>9. MapWillMatch'
  BY <1>2, <1>7 DEF MapWillMatch, Rereads, HasRead, tableVars, watcherVars, counts, history
<1> QED  BY <1>4, <1>5, <1>6, <1>8, <1>9

\* An event dropped while the flag is up loses nothing: whoever holds the flag has
\* not written yet or has left the file as the map is.
LEMMA TakeEventInv ==
    ASSUME TableInv, TableTypes', TakeEvent
    PROVE  TableInv'
<1> USE DEF TableInv, TableTypes
<1>1. /\ UNCHANGED <<tableVars, file, writing, watched, loaded, callerVars, look,
                     counts, history>>
      /\ events > 0 /\ watcher = "wait"
  BY DEF TakeEvent, WatcherAt
<1>2. watched
  BY <1>1 DEF UnwatchedIsStill
<1>3. (writing => watcher' = "wait") /\ (~writing => watcher' = "clear")
  BY DEF TakeEvent, WatcherAt
<1>4. FlagComesDown' /\ IdleAtFirst' /\ UnwatchedIsStill' /\ UnwatchedIsExact'
      /\ MapKeepsAsked' /\ FileKeepsAsked' /\ WrittenIsMap'
  BY <1>1, <1>2 DEF FlagComesDown, IdleAtFirst, AllAt, UnwatchedIsStill, UnwatchedIsExact,
                    MapKeepsAsked, FileKeepsAsked, WrittenIsMap, SomeAt, tableVars,
                    callerVars, counts, history
<1>5. ops = 0 => ~writing
  BY DEF IdleAtFirst, AllAt, FlagComesDown
<1>6. PatternsWillMatch'
  BY <1>1, <1>3, <1>5 DEF PatternsWillMatch, Rereads, counts
<1>7. MapWillMatch'
  <2>1. CASE ~writing
    BY <1>3, <2>1 DEF MapWillMatch, Rereads
  <2>2. CASE writing
    <3>1. SomeAt({"write", "fill", "done"})
      BY <2>2 DEF FlagComesDown, SomeAt
    <3>2. CASE SomeAt({"write", "fill"})
      BY <1>1, <3>2 DEF MapWillMatch, SomeAt, callerVars
    <3>3. CASE ~SomeAt({"write", "fill"})
      <4>1. SomeAt({"done"}) /\ ~SomeAt({"fill"})
        BY <3>1, <3>3 DEF SomeAt
      <4>2. ASSUME failed = 0, ~edited PROVE Agree(routes, Content(file))
        BY <4>1, <4>2, WrittenAgrees, ContentOfFileOf DEF WrittenIsMap
      <4> QED  BY <1>1, <1>3, <1>5, <2>2, <4>2 DEF MapWillMatch, tableVars, counts, history
    <3> QED  BY <3>2, <3>3
  <2> QED  BY <2>1, <2>2
<1> QED  BY <1>4, <1>6, <1>7

\* The other steps of the watcher.
LEMMA ReloadInv ==
    ASSUME TableInv, TableTypes', ClearFlag \/ ReadFile \/ Install
    PROVE  TableInv'
<1> USE DEF TableInv, TableTypes
<1>0. watcher # "wait" /\ watched
  BY DEF ClearFlag, ReadFile, Install, Replace, WatcherAt, UnwatchedIsStill
<1>1. UNCHANGED <<file, watched, events, callerVars, look, counts, history>>
  BY DEF ClearFlag, ReadFile, Install, Replace
<1>2. FlagComesDown'
  <2>1. writing' = FALSE \/ UNCHANGED <<writing, callerVars>>
    BY DEF ClearFlag, ReadFile, Install, Replace
  <2> QED  BY <2>1 DEF FlagComesDown, callerVars
<1>3. UnwatchedIsStill' /\ UnwatchedIsExact' /\ MapKeepsAsked' /\ FileKeepsAsked'
  BY <1>0, <1>1 DEF UnwatchedIsStill, UnwatchedIsExact, MapKeepsAsked, FileKeepsAsked
<1>4. IdleAtFirst'
  BY <1>1 DEF IdleAtFirst, AllAt, callerVars, counts
<1>5. WrittenIsMap'
  <2>1. CASE ClearFlag \/ ReadFile
    BY <1>1, <2>1 DEF ClearFlag, ReadFile, WrittenIsMap, SomeAt, tableVars, callerVars, counts,
                      history
  <2>2. CASE Install
    BY <1>1, <2>2 DEF Install, Replace, Unlocked, WrittenIsMap, SomeAt, callerVars
  <2> QED  BY <2>1, <2>2
<1>6. MapWillMatch' /\ PatternsWillMatch'
  <2>1. CASE ClearFlag
    BY <2>1 DEF ClearFlag, WatcherAt, MapWillMatch, PatternsWillMatch, Rereads
  <2>2. CASE ReadFile
    BY <2>2 DEF ReadFile, WatcherAt, MapWillMatch, PatternsWillMatch, HasRead
  <2>3. CASE Install
    <3>1. /\ watcher = "install" /\ watcher' = "wait" /\ routes' = ExactPart(loaded)
          /\ patterns' = RegexPart(loaded)
      BY <2>3 DEF Install, Replace, WatcherAt
    <3>2. HasRead => /\ Agree(routes', Content(file'))
                     /\ patterns' = RegexPart(Content(file'))
      BY <1>1, <3>1, LoadedAgrees DEF HasRead
    <3>3. Rereads => Rereads'
      BY <1>1, <3>1 DEF Rereads
    <3>4. SomeAt({"flag", "write", "fill"})' <=> SomeAt({"flag", "write", "fill"})
      BY <1>1 DEF SomeAt, callerVars
    <3>5. MapWillMatch'
      BY <1>1, <3>1, <3>2, <3>3, <3>4 DEF MapWillMatch, counts, history
    <3>6. PatternsWillMatch'
      BY <1>1, <3>1, <3>2, <3>3 DEF PatternsWillMatch, counts, history
    <3> QED  BY <3>5, <3>6
  <2> QED  BY <2>1, <2>2, <2>3
<1> QED  BY <1>2, <1>3, <1>4, <1>5, <1>6

\* A lookup changes the map under the lock only, and says so.
LEMMA LookupInv ==
    ASSUME TableInv, TableTypes', NEW l \in Lookups,
           LookupStep(l) \/ \E e \in Emails : LookupMiss(l, e)
    PROVE  TableInv'
<1> USE DEF TableInv, TableTypes
<1>1. UNCHANGED <<patterns, file, writing, watched, events, watcherVars, callerVars, counts,
                  asked, edited>>
  BY DEF LookupStep, LookupMatch, Match, LookupCache, EndLookup, LookupMiss, tableVars, history
<1>2. UNCHANGED <<routes, cached>> \/ LookupCache(l)
  BY DEF LookupStep, LookupMatch, Match, LookupMiss, tableVars, history
<1>3. FlagComesDown' /\ IdleAtFirst' /\ UnwatchedIsStill'
  BY <1>1 DEF FlagComesDown, IdleAtFirst, AllAt, UnwatchedIsStill, watcherVars, callerVars,
              counts
<1>4. ASSUME ~watched, crashes = 0
      PROVE  /\ UNCHANGED <<routes, cached>>
             /\ \A k \in Lookups : look'[k].at # "matched"
  <2>1. ~LookupCache(l)
    BY <1>4 DEF LookupCache, EndLookup, UnwatchedIsExact
  <2>2. look' = [look EXCEPT ![l] = Idle] \/ \E e \in Emails :
            look' = [look EXCEPT ![l] = [at |-> "missed", email |-> e]]
    <3>1. CASE LookupMatch(l)
      <4>1. Hits(look[l].email) = {}
        BY <1>4 DEF Hits, UnwatchedIsExact
      <4> QED  BY <3>1, <4>1 DEF LookupMatch, Match
    <3>2. CASE \E e \in Emails : LookupMiss(l, e)
      BY <3>2 DEF LookupMiss
    <3> QED  BY <2>1, <3>1, <3>2 DEF LookupStep
  <2>3. look \in [Lookups -> LookStates]
    BY DEF TypeOK
  <2>4. \A k \in Lookups : look'[k].at # "matched"
    BY <1>4, <2>2, <2>3 DEF UnwatchedIsExact, Idle
  <2> QED  BY <1>2, <2>1, <2>4
<1>5. UnwatchedIsExact' /\ MapKeepsAsked'
  BY <1>1, <1>4 DEF UnwatchedIsExact, MapKeepsAsked, counts
<1>6. FileKeepsAsked'
  BY <1>1, <1>4 DEF FileKeepsAsked, AllAt, callerVars, counts
<1>7. WrittenIsMap'
  <2>1. CASE UNCHANGED routes
    BY <1>1, <2>1 DEF WrittenIsMap, SomeAt, callerVars, counts
  <2>2. CASE LookupCache(l)
    BY <1>1, <2>2 DEF LookupCache, EndLookup, Unlocked, WrittenIsMap, SomeAt, callerVars
  <2> QED  BY <1>2, <2>1, <2>2
<1>8. MapWillMatch'
  <2>1. CASE UNCHANGED <<routes, cached>>
    BY <1>1, <2>1 DEF MapWillMatch, Rereads, HasRead, SomeAt, watcherVars, callerVars, counts
  <2>2. CASE LookupCache(l)
    BY <2>2 DEF LookupCache, EndLookup, MapWillMatch
  <2> QED  BY <1>2, <2>1, <2>2
<1>9. PatternsWillMatch'
  BY <1>1 DEF PatternsWillMatch, Rereads, HasRead, watcherVars, counts
<1> QED  BY <1>3, <1>5, <1>6, <1>7, <1>8, <1>9

\* An edit is heard of, or nothing is promised.
LEMMA EditInv ==
    ASSUME TableInv, TableTypes', NEW content \in EditFiles, Edit(content)
    PROVE  TableInv'
<1> USE DEF TableInv, TableTypes
<1>1. /\ UNCHANGED <<tableVars, writing, watched, watcherVars, callerVars, look, ops,
                     failed, crashes, cached>>
      /\ asked' = [e \in Emails |-> Unasked] /\ edited' = TRUE
  BY DEF Edit
<1>2. (watched => events' > 0) /\ (~watched => events' = events)
  BY TouchType DEF Edit
<1>3. FlagComesDown' /\ IdleAtFirst' /\ UnwatchedIsStill' /\ UnwatchedIsExact'
  BY <1>1, <1>2 DEF FlagComesDown, IdleAtFirst, AllAt, UnwatchedIsStill, UnwatchedIsExact,
                    tableVars, watcherVars, callerVars
<1>4. MapKeepsAsked' /\ FileKeepsAsked' /\ WrittenIsMap'
  BY <1>1 DEF MapKeepsAsked, FileKeepsAsked, WrittenIsMap
<1>5. MapWillMatch' /\ PatternsWillMatch'
  BY <1>1, <1>2 DEF MapWillMatch, PatternsWillMatch, Rereads
<1> QED  BY <1>3, <1>4, <1>5

\* A restart begins with what the file holds.
LEMMA CrashInv ==
    ASSUME TableInv, TableTypes', Crash
    PROVE  TableInv'
<1> USE DEF TableInv, TableTypes
<1>1. crashes' # 0
  BY DEF Crash, TypeOK
<1>2. \A c \in Callers : caller'[c] = "idle"
  BY DEF Crash
<1>3. /\ writing' = FALSE /\ events' = 0 /\ watcher' = "wait" /\ file' = file
      /\ routes' = ExactPart(Content(file)) /\ patterns' = RegexPart(Content(file))
  BY DEF Crash
<1>4. FlagComesDown' /\ IdleAtFirst' /\ UnwatchedIsStill'
  BY <1>2, <1>3 DEF FlagComesDown, IdleAtFirst, AllAt, UnwatchedIsStill
<1>5. UnwatchedIsExact' /\ MapKeepsAsked' /\ FileKeepsAsked' /\ WrittenIsMap'
  BY <1>1, <1>2 DEF UnwatchedIsExact, MapKeepsAsked, FileKeepsAsked, WrittenIsMap, SomeAt
<1>6. MapWillMatch' /\ PatternsWillMatch'
  BY <1>3, LoadedAgrees DEF MapWillMatch, PatternsWillMatch
<1> QED  BY <1>4, <1>5, <1>6

LEMMA InvStep == TableInv /\ [Next]_vars => TableInv'
<1> SUFFICES ASSUME TableInv, [Next]_vars PROVE TableInv'
  OBVIOUS
<1>0. TableTypes'
  BY TypesStep DEF TableInv
<1>1. CASE Call
  <2>1. \A a \in Asks : a.email \in Emails
    BY AskAssumption
  <2> QED  BY <1>0, <1>1, <2>1, CallInv DEF Call, RemoveRoute, UpdateRoute
<1>2. ASSUME NEW c \in Callers, CallerStep(c) PROVE TableInv'
  BY <1>0, <1>2, BeforeFillInv, FillInv, WriteFailsInv, FinishInv DEF CallerStep
<1>3. CASE WatcherStep
  BY <1>0, <1>3, TakeEventInv, ReloadInv DEF WatcherStep
<1>4. CASE \E l \in Lookups : LookupStep(l) \/ \E e \in Emails : LookupMiss(l, e)
  BY <1>0, <1>4, LookupInv
<1>5. CASE \E content \in EditFiles : Edit(content)
  BY <1>0, <1>5, EditInv
<1>6. CASE Crash
  BY <1>0, <1>6, CrashInv
<1>7. CASE UNCHANGED vars
  BY <1>0, <1>7 DEF TableInv, FlagComesDown, IdleAtFirst, UnwatchedIsStill,
     UnwatchedIsExact, MapKeepsAsked, FileKeepsAsked, WrittenIsMap, MapWillMatch,
     PatternsWillMatch, Rereads, HasRead, AllAt, SomeAt, vars, tableVars, watcherVars,
     callerVars, counts, history
<1> QED  BY <1>1, <1>2, <1>3, <1>4, <1>5, <1>6, <1>7 DEF Next

\* Whatever the order of callers, watcher, lookups, operator and restarts, the
\* invariant holds (router.rs:104-157, :224-327).
THEOREM TableInvariant == Spec => []TableInv
BY InvInit, InvStep, PTL DEF Spec

-----------------------------------------------------------------------------
(* What it implies. *)

\* Hot-reloading is never switched off for good (router.rs:321-326).
THEOREM FlagIsLowered == Spec => []FlagComesDown
<1>1. TableInv => FlagComesDown
  BY DEF TableInv
<1> QED  BY <1>1, TableInvariant, PTL

\* At rest, map and file are one (router.rs:104-157, :254-327).
THEOREM MapIsFile == Spec => []MapMatchesFile
<1>1. TableInv => MapMatchesFile
  BY DEF TableInv, TableTypes, TypeOK, MapMatchesFile, Quiet, MapWillMatch, Rereads, HasRead,
         Agree, SomeAt
<1> QED  BY <1>1, TableInvariant, PTL

\* The same for the patterns, until the bridge writes the file itself
\* (router.rs:123-152).
THEOREM PatternsAreFile == Spec => []PatternsMatchFile
<1>1. TableInv => PatternsMatchFile
  BY DEF TableInv, TableTypes, TypeOK, PatternsMatchFile, Quiet, PatternsWillMatch, Rereads,
         HasRead
<1> QED  BY <1>1, TableInvariant, PTL

\* Callers never lose each other's updates (router.rs:250, :292).
THEOREM NoUpdateLost == Spec => []UpdatesSurvive
<1>1. TableInv => UpdatesSurvive
  <2> SUFFICES ASSUME TableInv, Quiet, ~watched, crashes = 0, failed = 0,
                      NEW e \in Emails, asked[e] # Unasked
               PROVE  /\ AsGoodAs(routes[e], asked[e])
                      /\ AsGoodAs(Entry(Content(file)[e]), asked[e])
    BY DEF UpdatesSurvive
  <2>1. routes[e] = asked[e] /\ Sound(routes[e])
    BY DEF TableInv, TableTypes, MapKeepsAsked
  <2>2. Content(file)[e] = FileOf(routes)[e]
    BY DEF TableInv, FileKeepsAsked, Quiet, AllAt
  <2>3. FileOf(routes)[e] = IF routes[e] # NoTarget THEN Written(routes[e]) ELSE NoTarget
    BY DEF FileOf, Keys
  <2>4. CASE routes[e] = NoTarget
    BY <2>1, <2>2, <2>3, <2>4 DEF AsGoodAs, Entry
  <2>5. CASE routes[e] # NoTarget
    <3>1. Proper(routes[e])
      BY <2>1, <2>5 DEF Sound
    <3>2. Entry(Content(file)[e]) = Load(Written(routes[e]))
      BY <2>2, <2>3, <2>5, <3>1, WrittenIsText DEF Entry
    <3>3. AsGoodAs(routes[e], routes[e])
      BY <2>5 DEF AsGoodAs, SameServer
    <3> QED  BY <2>1, <3>1, <3>2, <3>3, RoundTrip
  <2> QED  BY <2>4, <2>5
<1> QED  BY <1>1, TableInvariant, PTL

\* Probes go where deliveries go (health.rs:58-60), for every route of the table.
THEOREM ProbesMeetRoutes == Spec => []ProbeGoesWherePostsGo
<1>1. TableInv => ProbeGoesWherePostsGo
  BY ProbedWhereConnected DEF TableInv, TableTypes, Sound, Proper, ProbeGoesWherePostsGo
<1> QED  BY <1>1, TableInvariant, PTL

-----------------------------------------------------------------------------
(* Whose mail goes where: wherever an endpoint is, in the map, under a pattern,
   in the file or in somebody's hands, it is there under a key it was named for,
   or as a copy of what was. *)

Apart == Emails \intersect Regexes = {}

Ends(k) == IF k \in Emails THEN MeantFor(k) ELSE NamedFor(k)
Stated(k, r) == r = NoTarget \/ OneOf(Ends(k), r)
ContentStated(c) == \A k \in Keys : Stated(k, Entry(c[k]))

RoutesMeant ==
    /\ \A e \in Emails : Stated(e, routes[e])
    /\ \A r \in Regexes : Stated(r, patterns[r])
    /\ \A l \in Lookups : look[l].at = "matched" => OneOf(Ends(look[l].email), look[l].match)
    /\ ContentStated(Content(file))
    /\ ContentStated(loaded)

LEMMA NamedIsStated ==
    ASSUME NEW k \in Keys, NEW r \in NamedFor(k)
    PROVE  Stated(k, r)
<1>1. r \in Ends(k)
  BY DEF Ends, MeantFor
<1> QED  BY <1>1 DEF Stated, OneOf

LEMMA CopyIsStated ==
    ASSUME NEW k, NEW r, Stated(k, r), r # NoTarget
    PROVE  Stated(k, CopyOf(r))
<1>1. PICK g \in Ends(k) : r \in {g, CopyOf(g)}
  BY DEF Stated, OneOf
<1>2. CopyOf(CopyOf(g)) = CopyOf(g)
  BY DEF CopyOf, New
<1>3. CopyOf(r) = CopyOf(g)
  BY <1>1, <1>2
<1> QED  BY <1>3 DEF Stated, OneOf

\* What a pattern was given, every address it matches was given.
LEMMA PatternIsMeant ==
    ASSUME Apart, NEW r \in Regexes, NEW e \in Emails, e \in Matches[r],
           NEW m, m # NoTarget, Stated(r, m)
    PROVE  OneOf(Ends(e), m)
<1>1. NamedFor(r) \subseteq MeantFor(e)
  BY DEF MeantFor
<1>2. Ends(r) = NamedFor(r) /\ Ends(e) = MeantFor(e)
  BY DEF Ends, Apart
<1> QED  BY <1>1, <1>2 DEF Stated, OneOf

LEMMA EmptyIsStated == ContentStated(Empty)
BY DEF ContentStated, Stated, Entry, Empty

LEMMA FileIsStated ==
    ASSUME NEW f \in StartFiles \union EditFiles
    PROVE  ContentStated(Content(f))
<1> SUFFICES ASSUME NEW k \in Keys, Entry(Content(f)[k]) # NoTarget
             PROVE  Stated(k, Entry(Content(f)[k]))
  BY DEF ContentStated, Stated
<1>1. Entry(Content(f)[k]) \in NamedFor(k)
  BY DEF NamedFor
<1> QED  BY <1>1, NamedIsStated

LEMMA PartsAreStated ==
    ASSUME NEW c, ContentStated(c)
    PROVE  /\ \A e \in Emails : Stated(e, ExactPart(c)[e])
           /\ \A r \in Regexes : Stated(r, RegexPart(c)[r])
<1>1. ASSUME NEW e \in Emails PROVE Stated(e, ExactPart(c)[e])
  BY DEF ExactPart, ContentStated, Keys, Stated
<1>2. ASSUME NEW r \in Regexes PROVE Stated(r, RegexPart(c)[r])
  <2>1. RegexPart(c)[r] = IF Entry(c[r]) = NoTarget THEN NoTarget ELSE CopyOf(Entry(c[r]))
    BY DEF RegexPart
  <2>2. Stated(r, Entry(c[r]))
    BY DEF ContentStated, Keys
  <2>3. Stated(r, NoTarget)
    BY DEF Stated
  <2> QED  BY <2>1, <2>2, <2>3, CopyIsStated
<1> QED  BY <1>1, <1>2

\* What the bridge writes is under the address it was for.
LEMMA WrittenIsStated ==
    ASSUME \A e \in Emails : Stated(e, routes[e]) /\ Sound(routes[e])
    PROVE  ContentStated(FileOf(routes))
<1> SUFFICES ASSUME NEW k \in Keys PROVE Stated(k, Entry(FileOf(routes)[k]))
  BY DEF ContentStated
<1>1. CASE k \in Emails /\ routes[k] # NoTarget
  <2>1. Proper(routes[k]) /\ Stated(k, routes[k])
    BY <1>1 DEF Sound
  <2>2. Entry(FileOf(routes)[k]) = Load(Written(routes[k]))
    <3>1. Written(routes[k]) # NoTarget
      BY <2>1, WrittenIsText, RouteAssumption
    <3> QED  BY <1>1, <3>1 DEF FileOf, Entry
  <2>3. Load(Written(routes[k])) \in {routes[k], CopyOf(routes[k])}
    BY <2>1, WhatComesBack DEF CopyOf
  <2> QED  BY <1>1, <2>1, <2>2, <2>3, CopyIsStated
<1>2. CASE ~(k \in Emails /\ routes[k] # NoTarget)
  BY <1>2 DEF FileOf, Entry, Stated
<1> QED  BY <1>1, <1>2

LEMMA MeantInit == Init => RoutesMeant
<1> SUFFICES ASSUME Init PROVE RoutesMeant
  OBVIOUS
<1>1. /\ file \in StartFiles
      /\ routes = ExactPart(Content(file)) /\ patterns = RegexPart(Content(file))
      /\ loaded = Empty /\ \A l \in Lookups : look[l].at # "matched"
  BY DEF Init, Idle
<1>2. ContentStated(Content(file))
  BY <1>1, FileIsStated
<1> QED  BY <1>1, <1>2, PartsAreStated, EmptyIsStated DEF RoutesMeant

\* An address gets what it is asked for, or nothing.
LEMMA CallMeant ==
    ASSUME RoutesMeant, TableTypes, NEW c, NEW e \in Emails, NEW t, Stated(e, t),
           ChangeMap(c, e, t, "flag")
    PROVE  RoutesMeant'
<1>1. \A x \in Emails : Stated(x, routes'[x])
  BY DEF ChangeMap, RoutesMeant, TableTypes, TypeOK
<1>2. UNCHANGED <<patterns, file, loaded, look>>
  BY DEF ChangeMap, watcherVars
<1> QED  BY <1>1, <1>2 DEF RoutesMeant

LEMMA CallerMeant ==
    ASSUME RoutesMeant, TableTypes, NEW c, CallerStep(c)
    PROVE  RoutesMeant'
<1>1. UNCHANGED <<routes, patterns, look, loaded>>
  BY DEF CallerStep, RaiseFlag, Truncate, Fill, WriteFails, Finish, EndCall, tableVars,
         watcherVars
<1>2. file' \in {file, Empty, FileOf(routes)}
  BY DEF CallerStep, RaiseFlag, Truncate, Fill, WriteFails, Finish, EndCall
<1>3. Content(file') \in {Content(file), Empty, FileOf(routes)}
  BY <1>2 DEF Content
<1>4. ContentStated(FileOf(routes))
  BY WrittenIsStated DEF RoutesMeant, TableTypes
<1>5. ContentStated(Content(file'))
  BY <1>3, <1>4, EmptyIsStated DEF RoutesMeant
<1> QED  BY <1>1, <1>5 DEF RoutesMeant

LEMMA WatcherMeant ==
    ASSUME RoutesMeant, WatcherStep
    PROVE  RoutesMeant'
<1>1. UNCHANGED <<look, file>>
  BY DEF WatcherStep, TakeEvent, ClearFlag, ReadFile, Install, Replace
<1>2. CASE Install
  <2>1. /\ routes' = ExactPart(loaded) /\ patterns' = RegexPart(loaded) /\ loaded' = Empty
    BY <1>2 DEF Install, Replace
  <2> QED  BY <1>1, <2>1, PartsAreStated, EmptyIsStated DEF RoutesMeant
<1>3. CASE TakeEvent \/ ClearFlag \/ ReadFile
  <2>1. UNCHANGED <<routes, patterns>> /\ loaded' \in {loaded, Content(file)}
    BY <1>3 DEF TakeEvent, ClearFlag, ReadFile, tableVars
  <2> QED  BY <1>1, <2>1 DEF RoutesMeant
<1> QED  BY <1>2, <1>3 DEF WatcherStep

\* A match is of a pattern that matches the address, and goes to no other.
LEMMA LookupMeant ==
    ASSUME Apart, RoutesMeant, TableTypes, NEW l \in Lookups,
           LookupStep(l) \/ \E e \in Emails : LookupMiss(l, e)
    PROVE  RoutesMeant'
<1>1. UNCHANGED <<patterns, file, loaded>>
  BY DEF LookupStep, LookupMiss, LookupMatch, Match, LookupCache, EndLookup, tableVars,
         watcherVars
<1>2. ASSUME NEW v, look' = [look EXCEPT ![l] = v],
             v.at = "matched" => OneOf(Ends(v.email), v.match)
      PROVE  \A k \in Lookups : look'[k].at = "matched" =>
                OneOf(Ends(look'[k].email), look'[k].match)
  BY <1>2 DEF RoutesMeant, TableTypes, TypeOK
<1>3. ASSUME NEW e \in Emails, LookupMiss(l, e) PROVE RoutesMeant'
  <2>1. /\ look' = [look EXCEPT ![l] = [at |-> "missed", email |-> e]]
        /\ UNCHANGED routes
    BY <1>3 DEF LookupMiss, tableVars
  <2>2. [at |-> "missed", email |-> e].at # "matched"
    OBVIOUS
  <2> QED  BY <1>1, <1>2, <2>1, <2>2 DEF RoutesMeant
<1>4. CASE LookupMatch(l)
  <2>1. UNCHANGED routes /\ look[l].email \in Emails
    BY <1>4, LookCases DEF LookupMatch, Match, tableVars, TableTypes
  <2>2. CASE look' = [look EXCEPT ![l] = Idle]
    <3>1. Idle.at # "matched"
      BY DEF Idle
    <3> QED  BY <1>1, <1>2, <2>1, <2>2, <3>1 DEF RoutesMeant
  <2>3. ASSUME NEW r \in Hits(look[l].email),
               look' = [look EXCEPT ![l] = [at |-> "matched", email |-> look[l].email,
                                            match |-> patterns[r]]]
        PROVE  RoutesMeant'
    <3> DEFINE v == [at |-> "matched", email |-> look[l].email, match |-> patterns[r]]
    <3>1. r \in Regexes /\ patterns[r] # NoTarget /\ look[l].email \in Matches[r]
      BY DEF Hits
    <3>2. OneOf(Ends(look[l].email), patterns[r])
      BY <2>1, <3>1, PatternIsMeant DEF RoutesMeant
    <3>3. v.email = look[l].email /\ v.match = patterns[r]
      OBVIOUS
    <3>4. look' = [look EXCEPT ![l] = v]
      BY <2>3
    <3> HIDE DEF v
    <3> QED  BY <1>1, <1>2, <2>1, <3>2, <3>3, <3>4 DEF RoutesMeant
  <2> QED  BY <1>4, <2>2, <2>3 DEF LookupMatch, Match
<1>5. CASE LookupCache(l)
  <2>1. /\ look[l].at = "matched"
        /\ routes' = [routes EXCEPT ![look[l].email] = look[l].match]
        /\ look' = [look EXCEPT ![l] = Idle]
    BY <1>5 DEF LookupCache, EndLookup
  <2>2. Stated(look[l].email, look[l].match)
    BY <2>1 DEF RoutesMeant, Stated
  <2>3. \A e \in Emails : Stated(e, routes'[e])
    BY <2>1, <2>2 DEF RoutesMeant, TableTypes, TypeOK
  <2>4. Idle.at # "matched"
    BY DEF Idle
  <2> QED  BY <1>1, <1>2, <2>1, <2>3, <2>4 DEF RoutesMeant
<1> QED  BY <1>3, <1>4, <1>5 DEF LookupStep

LEMMA EditMeant ==
    ASSUME RoutesMeant, NEW content \in EditFiles, Edit(content)
    PROVE  RoutesMeant'
<1>1. ContentStated(Content(content))
  BY FileIsStated
<1>2. file' = content /\ UNCHANGED <<routes, patterns, look, loaded>>
  BY DEF Edit, tableVars, watcherVars
<1> QED  BY <1>1, <1>2 DEF RoutesMeant

LEMMA CrashMeant ==
    ASSUME RoutesMeant, Crash
    PROVE  RoutesMeant'
<1>1. /\ routes' = ExactPart(Content(file)) /\ patterns' = RegexPart(Content(file))
      /\ loaded' = Empty /\ UNCHANGED file
      /\ \A l \in Lookups : look'[l].at # "matched"
  BY DEF Crash, Idle
<1> QED  BY <1>1, PartsAreStated, EmptyIsStated DEF RoutesMeant

LEMMA MeantStep == Apart /\ RoutesMeant /\ TableTypes /\ [Next]_vars => RoutesMeant'
<1> SUFFICES ASSUME Apart, RoutesMeant, TableTypes, [Next]_vars PROVE RoutesMeant'
  OBVIOUS
<1>1. CASE Call
  <2>1. ASSUME NEW c \in Callers, NEW e \in Emails, RemoveRoute(c, e) PROVE RoutesMeant'
    BY <2>1, CallMeant DEF RemoveRoute, Stated
  <2>2. ASSUME NEW c \in Callers, NEW a \in Asks, UpdateRoute(c, a) PROVE RoutesMeant'
    <3>1. Proper(Registered(a.text, a.given)) /\ a.email \in Emails
      BY AskAssumption, AskedForIsProper
    <3>2. Registered(a.text, a.given) \in NamedFor(a.email)
      BY <3>1, RouteAssumption DEF NamedFor, Proper
    <3>3. Stated(a.email, Registered(a.text, a.given))
      BY <3>1, <3>2, NamedIsStated DEF Keys
    <3> QED  BY <2>2, <3>1, <3>3, CallMeant DEF UpdateRoute
  <2> QED  BY <1>1, <2>1, <2>2 DEF Call
<1>2. ASSUME NEW c \in Callers, CallerStep(c) PROVE RoutesMeant'
  BY <1>2, CallerMeant
<1>3. CASE WatcherStep
  BY <1>3, WatcherMeant
<1>4. CASE \E l \in Lookups : LookupStep(l) \/ \E e \in Emails : LookupMiss(l, e)
  BY <1>4, LookupMeant
<1>5. CASE \E content \in EditFiles : Edit(content)
  BY <1>5, EditMeant
<1>6. CASE Crash
  BY <1>6, CrashMeant
<1>7. CASE UNCHANGED vars
  BY <1>7 DEF RoutesMeant, vars, tableVars, watcherVars
<1> QED  BY <1>1, <1>2, <1>3, <1>4, <1>5, <1>6, <1>7 DEF Next

\* Whatever the order of callers, reloads, lookups, edits, failed writes and restarts,
\* no address is routed to an endpoint that was named for others only
\* (router.rs:104-157, :224-327).
THEOREM NobodyElsesAgent == Spec => []MailGoesWhereMeant
<1>1. Init => (Apart => RoutesMeant)
  BY MeantInit
<1>2. (Apart => RoutesMeant) /\ TableInv /\ [Next]_vars => (Apart => RoutesMeant)'
  BY MeantStep DEF TableInv, Apart
<1>3. (Apart => RoutesMeant) /\ TableInv => MailGoesWhereMeant
  <2> SUFFICES ASSUME Apart, RoutesMeant, TableTypes
               PROVE  /\ \A e \in Emails : routes[e] # NoTarget =>
                            OneOf(MeantFor(e), routes[e])
                      /\ \A l \in Lookups : look[l].at = "matched" =>
                            OneOf(MeantFor(look[l].email), look[l].match)
    BY DEF MailGoesWhereMeant, Apart, TableInv
  <2>1. \A e \in Emails : Ends(e) = MeantFor(e)
    BY DEF Ends
  <2>2. \A l \in Lookups : look[l].at = "matched" => look[l].email \in Emails
    BY LookCases DEF TableTypes
  <2> QED  BY <2>1, <2>2 DEF RoutesMeant, Stated
<1> QED  BY <1>1, <1>2, <1>3, TableInvariant, PTL DEF Spec
=============================================================================
