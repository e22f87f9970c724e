---------------------------- MODULE BridgeProofs ----------------------------
(***************************************************************************)
(* The end of the process, for any number of systems, clients and worker   *)
(* threads and any settings: an orderly end cuts nothing short, and a      *)
(* failure is not passed over in silence.  LifeInv says how far each task  *)
(* can have come at each stage of main.                                    *)
(***************************************************************************)
EXTENDS Bridge, TLAPS

\* The loops belong to pull mode, and begin when main has started.
LoopsArePull ==
    \A s \in Systems : loops[s] # "none" => mode = "pull" /\ main # "start"

\* No request before the server, none after it; one is cut only by the end.
RequestsHaveServer ==
    \A c \in Clients :
        /\ main \notin {"serve", "drain", "gone"} => conns[c] # "open"
        /\ exit \notin {"error", "killed"} => conns[c] # "cut"

\* Once all loops have been waited for, all have returned.
LoopsReturned ==
    main = "drop" => \A s \in Systems : loops[s] \in {"none", "stopped", "failed"}

\* first_err remembers every failure, and is a matter of pull mode.
ErrorsKept ==
    /\ firstErr => mode = "pull"
    /\ \A s \in Systems : loops[s] = "failed" => firstErr

\* How main got where it is.
WayOfMain ==
    /\ main \in {"serve", "drain"} => served
    /\ main = "drain" => shutdown
    /\ main = "join" => mode = "pull" /\ (firstErr \/ (served /\ shutdown))
    /\ main = "drop" => served /\ shutdown /\ ~firstErr

\* What an orderly end has left behind.
EndIsOrderly ==
    exit \in {"ok", "error"} =>
        /\ \A s \in Systems : loops[s] \notin {"top", "cycle"}
        /\ \A c \in Clients : conns[c] \notin {"open", "cut"}
        /\ exit = "ok" => served /\ shutdown /\ ~firstErr
                          /\ \A s \in Systems : loops[s] # "failed"

LifeInv ==
    /\ TypeOK
    /\ LoopsArePull /\ RequestsHaveServer /\ LoopsReturned /\ ErrorsKept /\ WayOfMain
    /\ EndIsOrderly

LEMMA LifeInit == Init => LifeInv
BY DEF Init, LifeInv, TypeOK, LoopStates, LoopsArePull, RequestsHaveServer, LoopsReturned,
       ErrorsKept, WayOfMain, EndIsOrderly

-----------------------------------------------------------------------------
(* main. *)

\* The process goes: what was open is cut, so nothing may be.
LEMMA LeaveConns ==
    ASSUME TypeOK, NEW how, Leave(how)
    PROVE  /\ conns' \in [Clients -> {"none", "open", "answered", "cut"}]
           /\ \A c \in Clients : conns'[c] = IF conns[c] = "open" THEN "cut" ELSE conns[c]
BY DEF TypeOK, Leave

LEMMA StartInv ==
    ASSUME LifeInv, Start
    PROVE  LifeInv'
<1> USE DEF LifeInv
<1>1. /\ main = "start" /\ main' = "bind" /\ exit' = exit
      /\ watcher' \in {"none", "spawned"} /\ handler' = "spawned"
      /\ health' \in {"none", "spawned"}
      /\ UNCHANGED <<given, served, firstErr, shutdown, conns>>
  BY DEF Start, Becomes, kept
<1>2. /\ loops' \in [Systems -> {"none", "spawned"}]
      /\ \A s \in Systems : loops'[s] # "none" => mode = "pull"
  BY DEF Start
<1>3. exit = "none" /\ mode' = mode
  BY <1>1 DEF TypeOK, mode, settings
<1>4. TypeOK'
  BY <1>1, <1>2, <1>3 DEF TypeOK, LoopStates
<1>5. LoopsArePull' /\ RequestsHaveServer' /\ LoopsReturned' /\ ErrorsKept' /\ WayOfMain'
      /\ EndIsOrderly'
  BY <1>1, <1>2, <1>3 DEF LoopsArePull, RequestsHaveServer, LoopsReturned, ErrorsKept,
                          WayOfMain, EndIsOrderly
<1> QED  BY <1>4, <1>5

\* Start-up fails, or the port is taken in push mode: nothing had begun.
LEMMA FailInv ==
    ASSUME LifeInv, StartFails \/ (mode = "push" /\ Becomes("bind", "gone") /\ Leave("error"))
    PROVE  LifeInv'
<1> USE DEF LifeInv
<1>1. /\ main \in {"start", "bind"} /\ main' = "gone" /\ exit' = "error" /\ Leave("error")
      /\ UNCHANGED <<given, served, watcher, handler, health, loops, firstErr, shutdown>>
  BY DEF StartFails, Becomes, Leave, kept, tasks
<1>2. mode' = mode /\ \A s \in Systems : loops[s] = "none"
  BY <1>1 DEF StartFails, Becomes, LoopsArePull, mode, settings
<1>3. \A c \in Clients : conns[c] \notin {"open", "cut"}
  BY <1>1 DEF RequestsHaveServer, TypeOK
<1>4. conns' \in [Clients -> {"none", "open", "answered", "cut"}]
      /\ \A c \in Clients : conns'[c] \notin {"open", "cut"}
  BY <1>1, <1>3, LeaveConns
<1>5. TypeOK'
  BY <1>1, <1>4 DEF TypeOK
<1> QED  BY <1>1, <1>2, <1>4, <1>5 DEF LoopsArePull, RequestsHaveServer, LoopsReturned,
                                      ErrorsKept, WayOfMain, EndIsOrderly

\* The server comes and goes.
LEMMA ServerInv ==
    ASSUME LifeInv,
           \/ Bind \/ CloseServer \/ Drained
           \/ mode = "pull" /\ Becomes("bind", "join") /\ firstErr' = TRUE
              /\ UNCHANGED <<kept, exit, tasks, shutdown, conns>>
    PROVE  LifeInv'
<1> USE DEF LifeInv
<1>1. /\ UNCHANGED <<given, exit, watcher, handler, health, loops, shutdown, conns>>
      /\ mode' = mode
  BY DEF Bind, CloseServer, Drained, Closed, kept, tasks, mode, settings
<1>2. /\ main \in {"bind", "serve", "drain"} /\ main' \in {"serve", "drain", "join", "drop"}
      /\ exit = "none"
  BY DEF Bind, CloseServer, Drained, Closed, Becomes, TypeOK
<1>3. /\ served' = TRUE \/ served' = served
      /\ firstErr' = firstErr \/ (firstErr' = TRUE /\ mode = "pull")
  BY DEF Bind, CloseServer, Drained, Closed, kept
<1>4. TypeOK'
  BY <1>1, <1>2, <1>3 DEF TypeOK
<1>5. LoopsArePull' /\ ErrorsKept' /\ EndIsOrderly'
  BY <1>1, <1>2, <1>3 DEF LoopsArePull, ErrorsKept, EndIsOrderly
<1>6. RequestsHaveServer'
  <2>1. main' \notin {"serve", "drain"} => \A c \in Clients : conns[c] # "open"
    BY DEF Bind, CloseServer, Drained, Closed, Becomes, RequestsHaveServer
  <2> QED  BY <1>1, <1>2, <2>1 DEF RequestsHaveServer
<1>7. main' = "drop" => Drained /\ mode # "pull"
  BY DEF Bind, CloseServer, Drained, Closed, Becomes
<1>8. LoopsReturned'
  BY <1>1, <1>7 DEF LoopsArePull, LoopsReturned
<1>9. WayOfMain'
  <2>1. CASE Bind
    BY <1>1, <2>1 DEF Bind, Becomes, WayOfMain
  <2>2. CASE CloseServer
    <3>1. main = "serve" /\ main' = "drain" /\ shutdown /\ served' = served
      BY <2>2 DEF CloseServer, Becomes, kept
    <3>2. served
      BY <3>1 DEF WayOfMain
    <3>3. served' /\ shutdown'
      BY <1>1, <3>1, <3>2, Zenon
    <3> QED  BY <3>1, <3>3 DEF WayOfMain
  <2>3. CASE Drained
    <3>1. /\ main = "drain" /\ main' = IF mode = "pull" THEN "join" ELSE "drop"
          /\ UNCHANGED <<served, shutdown, firstErr>>
      BY <2>3 DEF Drained, Closed, Becomes, kept
    <3>2. served /\ shutdown /\ (firstErr => mode = "pull")
      BY <3>1 DEF WayOfMain, ErrorsKept
    <3>3. served' /\ shutdown' /\ (firstErr' => mode = "pull")
      BY <3>1, <3>2, Zenon
    <3>4. main' = "join" => mode' = "pull"
      BY <1>1, <3>1
    <3>5. main' = "drop" => mode # "pull"
      BY <3>1
    <3> QED  BY <3>1, <3>3, <3>4, <3>5 DEF WayOfMain
  <2>4. CASE mode = "pull" /\ Becomes("bind", "join") /\ firstErr' = TRUE
    <3>1. main' = "join" /\ mode' = "pull"
      BY <1>1, <2>4 DEF Becomes
    <3>2. firstErr'
      BY <2>4, Zenon
    <3> QED  BY <3>1, <3>2 DEF WayOfMain
  <2> QED  BY <2>1, <2>2, <2>3, <2>4
<1> QED  BY <1>4, <1>5, <1>6, <1>8, <1>9

\* The loops are waited for, and the runtime dropped.
LEMMA JoinInv ==
    ASSUME LifeInv, Join \/ DropRuntime
    PROVE  LifeInv'
<1> USE DEF LifeInv
<1>1. /\ main \in {"join", "drop"} /\ main' \in {"drop", "gone"} /\ exit = "none"
      /\ UNCHANGED <<given, served, watcher, handler, health, loops, firstErr, shutdown>>
      /\ mode' = mode
  BY DEF Join, DropRuntime, Becomes, Leave, kept, tasks, TypeOK, mode, settings
<1>2. \A s \in Systems : loops[s] \in {"none", "stopped", "failed"}
  BY DEF Join, DropRuntime, Becomes, LoopsReturned
<1>3. \A c \in Clients : conns[c] \notin {"open", "cut"}
  BY <1>1 DEF RequestsHaveServer
<1>4. conns' \in [Clients -> {"none", "open", "answered", "cut"}]
      /\ \A c \in Clients : conns'[c] \notin {"open", "cut"}
  <2>1. CASE conns' = conns
    BY <1>3, <2>1 DEF TypeOK
  <2>2. CASE Leave("error") \/ Leave("ok")
    BY <1>3, <2>2, LeaveConns
  <2> QED  BY <2>1, <2>2 DEF Join, DropRuntime
<1>5. \/ main' = "gone" /\ exit' = "error"
      \/ main' = "gone" /\ exit' = "ok" /\ main = "drop"
      \/ main' = "drop" /\ exit' = exit /\ main = "join" /\ ~firstErr
  BY DEF Join, DropRuntime, Becomes, Leave
<1>6. TypeOK'
  BY <1>1, <1>4, <1>5 DEF TypeOK
<1>7. WayOfMain' /\ EndIsOrderly'
  BY <1>1, <1>2, <1>4, <1>5 DEF WayOfMain, ErrorsKept, EndIsOrderly
<1> QED  BY <1>1, <1>2, <1>4, <1>6, <1>7 DEF LoopsArePull, RequestsHaveServer, LoopsReturned,
                                      ErrorsKept

-----------------------------------------------------------------------------
(* Everything else. *)

\* The tasks, none of which runs once main has returned.
LEMMA TaskInv ==
    ASSUME LifeInv,
           RunWatcher \/ RunHandler \/ RaiseShutdown \/ RunHealth \/ \E s \in Systems : Loop(s)
    PROVE  LifeInv'
<1> USE DEF LifeInv
<1>1. /\ main \notin {"drop", "gone"} /\ exit = "none" /\ mode' = mode
      /\ UNCHANGED <<given, served, main, exit, conns>>
  BY DEF RunWatcher, RunHandler, RaiseShutdown, RunHealth, Loop, BeginLoop, EnterLoop, RunLoop,
         Runs, Free, kept, TypeOK, mode, settings
<1>2. (shutdown => shutdown') /\ (firstErr => firstErr')
  BY DEF RunWatcher, RunHandler, RaiseShutdown, RunHealth, Loop, BeginLoop, EnterLoop, RunLoop,
         LoopTo
<1>3. CASE RunWatcher \/ RunHandler \/ RaiseShutdown \/ RunHealth
  <2>1. UNCHANGED <<loops, firstErr>>
    BY <1>3 DEF RunWatcher, RunHandler, RaiseShutdown, RunHealth
  <2>2. /\ watcher' \in {"none", "spawned", "blocked"}
        /\ handler' \in {"none", "spawned", "listening", "received", "done"}
        /\ health' \in LoopStates \ {"failed"} /\ shutdown' \in BOOLEAN
    BY <1>3 DEF RunWatcher, RunHandler, RaiseShutdown, RunHealth, TypeOK, LoopStates
  <2>3. TypeOK'
    BY <1>1, <2>1, <2>2 DEF TypeOK
  <2> QED  BY <1>1, <1>2, <2>1, <2>3 DEF LoopsArePull, RequestsHaveServer, LoopsReturned,
                                        ErrorsKept, WayOfMain, EndIsOrderly
<1>4. ASSUME NEW s \in Systems, Loop(s) PROVE LifeInv'
  <2>1. PICK q \in LoopStates \ {"none"} :
            /\ loops' = [loops EXCEPT ![s] = q]
            /\ q = "failed" => firstErr'
            /\ loops[s] # "none" /\ loops[s] # "failed"
    BY <1>4 DEF Loop, BeginLoop, EnterLoop, RunLoop, LoopTo, LoopStates
  <2>2. UNCHANGED <<watcher, handler, health, shutdown>>
        /\ (firstErr' = firstErr \/ firstErr' = TRUE)
    BY <1>4 DEF Loop, BeginLoop, EnterLoop, RunLoop, LoopTo
  <2>3. loops' \in [Systems -> LoopStates]
    BY <2>1 DEF TypeOK
  <2>4. \A t \in Systems : loops'[t] = IF t = s THEN q ELSE loops[t]
    BY <2>1 DEF TypeOK
  <2>5. TypeOK'
    BY <1>1, <2>2, <2>3 DEF TypeOK
  <2>6. mode = "pull"
    BY <2>1 DEF LoopsArePull
  <2>7. LoopsArePull' /\ ErrorsKept'
    BY <1>1, <1>2, <2>1, <2>4, <2>6 DEF LoopsArePull, ErrorsKept
  <2>8. RequestsHaveServer' /\ LoopsReturned' /\ WayOfMain' /\ EndIsOrderly'
    BY <1>1, <1>2, <2>2 DEF RequestsHaveServer, LoopsReturned, WayOfMain, EndIsOrderly
  <2> QED  BY <2>5, <2>7, <2>8
<1> QED  BY <1>3, <1>4

\* Clients come and go while the server runs.
LEMMA ClientInv ==
    ASSUME LifeInv, NEW c \in Clients, Connect(c) \/ Answer(c)
    PROVE  LifeInv'
<1> USE DEF LifeInv
<1>1. /\ UNCHANGED <<given, served, main, exit, watcher, handler, health, loops, firstErr,
                     shutdown>>
      /\ main # "gone" /\ exit = "none" /\ mode' = mode
  BY DEF Connect, Answer, Free, kept, tasks, TypeOK, mode, settings
<1>2. \E q \in {"open", "answered"} : /\ conns' = [conns EXCEPT ![c] = q]
                                      /\ q = "open" => main = "serve"
  BY DEF Connect, Answer
<1>3. conns' \in [Clients -> {"none", "open", "answered", "cut"}]
  BY <1>2 DEF TypeOK
<1>4. TypeOK'
  BY <1>1, <1>3 DEF TypeOK
<1>5. RequestsHaveServer'
  BY <1>1, <1>2 DEF RequestsHaveServer, TypeOK
<1> QED  BY <1>1, <1>4, <1>5 DEF LoopsArePull, LoopsReturned, ErrorsKept, WayOfMain,
                                EndIsOrderly

\* A signal that kills cuts whatever there is, and is no orderly end.
LEMMA SignalInv ==
    ASSUME LifeInv, Signal
    PROVE  LifeInv'
<1> USE DEF LifeInv
<1>1. CASE main # "gone" /\ main' = "gone" /\ Leave("killed")
  <2>1. /\ UNCHANGED <<given, served, watcher, handler, health, loops, firstErr, shutdown>>
        /\ exit' = "killed" /\ mode' = mode
    BY <1>1 DEF Leave, kept, tasks, mode, settings
  <2>2. TypeOK'
    BY <1>1, <2>1, LeaveConns DEF TypeOK
  <2> QED  BY <1>1, <2>1, <2>2 DEF LoopsArePull, RequestsHaveServer, LoopsReturned, ErrorsKept,
                                  WayOfMain, EndIsOrderly
<1>2. CASE /\ handler' = "received"
           /\ UNCHANGED <<kept, main, exit, watcher, health, loops, firstErr, shutdown, conns>>
  BY <1>2 DEF kept, mode, settings, TypeOK, LoopsArePull, RequestsHaveServer, LoopsReturned,
              ErrorsKept, WayOfMain, EndIsOrderly
<1> QED  BY <1>1, <1>2 DEF Signal

LEMMA LifeStep == LifeInv /\ [Next]_vars => LifeInv'
<1> SUFFICES ASSUME LifeInv, [Next]_vars PROVE LifeInv'
  OBVIOUS
<1>1. CASE Main
  BY <1>1, StartInv, FailInv, ServerInv, JoinInv DEF Main, BindFails
<1>2. CASE RunWatcher \/ RunHandler \/ RaiseShutdown \/ RunHealth \/ \E s \in Systems : Loop(s)
  BY <1>2, TaskInv
<1>3. CASE \E c \in Clients : Connect(c) \/ Answer(c)
  BY <1>3, ClientInv
<1>4. CASE Signal
  BY <1>4, SignalInv
<1>5. CASE UNCHANGED vars
  BY <1>5 DEF LifeInv, TypeOK, LoopsArePull, RequestsHaveServer, LoopsReturned, ErrorsKept,
     WayOfMain, EndIsOrderly, mode, settings, vars, kept, tasks
<1> QED  BY <1>1, <1>2, <1>3, <1>4, <1>5 DEF Next

\* How far each task can have come (main.rs:184-389).
THEOREM LifeInvariant == Spec => []LifeInv
BY LifeInit, LifeStep, PTL DEF Spec

\* Tasks and requests stay in the states main gives them (main.rs:184-389).
THEOREM LifeTypes == Spec => []TypeOK
<1>1. LifeInv => TypeOK
  BY DEF LifeInv
<1> QED  BY <1>1, LifeInvariant, PTL

\* An orderly end cuts no request and no pull cycle (README.md:60).
THEOREM OrderlyEnd == Spec => []NothingCutShort
<1>1. LifeInv => NothingCutShort
  BY DEF LifeInv, TypeOK, NothingCutShort, LoopsReturned, RequestsHaveServer, EndIsOrderly
<1> QED  BY <1>1, LifeInvariant, PTL

\* Success means that there was a server, a signal and no failure (main.rs:351-388).
THEOREM NoFailureHidden == Spec => []FailureIsReported
<1>1. LifeInv => FailureIsReported
  BY DEF LifeInv, FailureIsReported, WayOfMain, ErrorsKept, EndIsOrderly
<1> QED  BY <1>1, LifeInvariant, PTL
-----------------------------------------------------------------------------
(* Where the loops poll. *)

LEMMA NormalizedUrl ==
    ASSUME NEW u, IsUrl(u)
    PROVE  /\ u = Empty => Normalized(u) = Empty
           /\ u # Empty => /\ HasScheme(Normalized(u)) /\ Normalized(u).host = u.host
                           /\ HasScheme(u) => Normalized(u).scheme = u.scheme
<1>1. CASE u = Empty \/ HasScheme(u)
  BY <1>1 DEF Normalized
<1>2. CASE ~(u = Empty \/ HasScheme(u))
  <2>1. Normalized(u) = [u EXCEPT !.scheme = "http"] /\ DOMAIN u = {"scheme", "host"}
    BY <1>2 DEF Normalized, IsUrl
  <2>2. Normalized(u).scheme = "http" /\ Normalized(u).host = u.host
    BY <2>1
  <2> QED  BY <1>2, <2>2 DEF HasScheme
<1> QED  BY <1>1, <1>2

\* The system of the flat fields: what the environment says comes first.
LEMMA FlatSystem ==
    ASSUME NEW f \in Files, NEW e \in Environments
    PROVE  Polls(Flat(f, e), Or(e.url, f.flat.url), Or(e.id, f.flat.id), f.flat.api,
                 Or(e.admin, f.flat.admin))
<1> DEFINE sys == Flat(f, e)
<1>1. IsSystem(f.flat) /\ (e.url = Unset \/ IsUrl(e.url))
  BY FileAssumption, EnvironmentAssumption
<1>2. /\ sys.url = Normalized(Or(e.url, f.flat.url))
      /\ sys.admin = Or(e.admin, f.flat.admin)
      /\ sys.id = Or(e.id, f.flat.id)
      /\ sys.api = f.flat.api
  BY <1>1 DEF Flat, IsSystem
<1>3. IsUrl(Or(e.url, f.flat.url))
  BY <1>1 DEF Or, IsSystem
<1> QED  BY <1>2, <1>3, NormalizedUrl DEF Polls, EffectiveKey

\* An entry of [[pull.systems]].
LEMMA ArraySystem ==
    ASSUME NEW f \in Files, NEW i \in DOMAIN f.systems
    PROVE  LET own == f.systems[i]
           IN  Polls(Entries(f)[i], own.url, own.id, own.api, own.admin)
<1> DEFINE own == f.systems[i]
<1>1. IsSystem(own)
  BY FileAssumption
<1>2. /\ Entries(f)[i].url = Normalized(own.url) /\ Entries(f)[i].id = own.id
      /\ Entries(f)[i].api = own.api /\ Entries(f)[i].admin = own.admin
  BY <1>1 DEF Entries, IsSystem, NormalizedEntry
<1> QED  BY <1>1, <1>2, NormalizedUrl DEF IsSystem, Polls, EffectiveKey

\* The array is what the settings have, unless it is empty.
LEMMA ResolvedSystems ==
    ASSUME NEW f \in Files, NEW e \in Environments
    PROVE  Resolved(Load(f, e)) = IF f.systems = <<>> THEN <<Flat(f, e)>> ELSE Entries(f)
<1>1. Load(f, e).systems = Entries(f) /\ Load(f, e).flat = Flat(f, e)
  BY DEF Load
<1>2. DOMAIN Entries(f) = DOMAIN f.systems
  BY DEF Entries
<1>3. CASE f.systems = <<>>
  <2>1. DOMAIN f.systems = {}
    BY <1>3
  <2>2. Entries(f) = <<>>
    BY <2>1 DEF Entries
  <2> QED  BY <1>1, <1>3, <2>2 DEF Resolved
<1>4. CASE f.systems # <<>>
  <2>1. f.systems \in Seq({f.systems[i] : i \in DOMAIN f.systems})
    BY FileAssumption
  <2>2. 1 \in DOMAIN f.systems
    BY <1>4, <2>1
  <2>3. Entries(f) # <<>>
    BY <1>2, <2>2
  <2> QED  BY <1>1, <1>4, <2>3 DEF Resolved
<1> QED  BY <1>3, <1>4

LEMMA AskedSystems ==
    ASSUME NEW f \in Files, NEW e \in Environments, NEW s \in DOMAIN Resolved(Load(f, e))
    PROVE  LET sys == Resolved(Load(f, e))[s]
               own == f.systems[s]
           IN  IF f.systems # <<>>
               THEN Polls(sys, own.url, own.id, own.api, own.admin)
               ELSE Polls(sys, Or(e.url, f.flat.url), Or(e.id, f.flat.id), f.flat.api,
                          Or(e.admin, f.flat.admin))
<1>1. CASE f.systems = <<>>
  <2>1. Resolved(Load(f, e)) = <<Flat(f, e)>>
    BY <1>1, ResolvedSystems
  <2>2. s = 1 /\ Resolved(Load(f, e))[s] = Flat(f, e)
    BY <2>1
  <2> QED  BY <1>1, <2>2, FlatSystem
<1>2. CASE f.systems # <<>>
  <2>1. Resolved(Load(f, e)) = Entries(f) /\ s \in DOMAIN f.systems
    BY <1>2, ResolvedSystems DEF Entries
  <2> QED  BY <1>2, <2>1, ArraySystem
<1> QED  BY <1>1, <1>2

\* A loop is one of a system of the settings, from its start to its end.
LoopsHaveSystems ==
    \A s \in Systems : loops[s] # "none" => s \in DOMAIN Resolved(settings)

LEMMA SystemsStep == TypeOK /\ LoopsHaveSystems /\ [Next]_vars => LoopsHaveSystems'
<1> SUFFICES ASSUME TypeOK, LoopsHaveSystems, [Next]_vars PROVE LoopsHaveSystems'
  OBVIOUS
<1>1. settings' = settings
  <2>1. given' = given
    BY DEF Next, Main, StartFails, Start, Bind, BindFails, CloseServer, Drained, Closed, Join,
           DropRuntime, Leave, Signal, RunWatcher, RunHandler, RaiseShutdown, RunHealth, Loop,
           BeginLoop, EnterLoop, RunLoop, Runs, Connect, Answer, kept, vars
  <2> QED  BY <2>1 DEF settings
<1>2. CASE Start
  <2>1. \A s \in Systems : loops'[s] # "none" => s \in DOMAIN Resolved(settings)
    BY <1>2 DEF Start
  <2> QED  BY <1>1, <2>1 DEF LoopsHaveSystems
<1>3. ASSUME NEW s \in Systems, Loop(s) PROVE LoopsHaveSystems'
  <2>1. \E q : loops[s] # "none" /\ loops' = [loops EXCEPT ![s] = q]
    BY <1>3 DEF Loop, BeginLoop, EnterLoop, RunLoop, LoopTo
  <2>2. \A t \in Systems : loops'[t] # "none" => loops[t] # "none"
    BY <2>1 DEF TypeOK
  <2> QED  BY <1>1, <2>2 DEF LoopsHaveSystems
<1>4. CASE loops' = loops
  BY <1>1, <1>4 DEF LoopsHaveSystems
<1>5. \/ Start \/ loops' = loops \/ \E s \in Systems : Loop(s)
  BY DEF Next, Main, StartFails, Bind, BindFails, CloseServer, Drained, Closed, Join,
         DropRuntime, Leave, Signal, RunWatcher, RunHandler, RaiseShutdown, RunHealth,
         Connect, Answer, tasks, vars
<1> QED  BY <1>2, <1>3, <1>4, <1>5

\* config.rs:222-251, :334-368, main.rs:348-366: a loop polls the relay its own entry
\* names or, where the file has no array of systems, the environment and then the
\* flat fields, at a complete URL, with the identity and the key given beside it.
THEOREM PolledWhereAsked == Spec => []LoopsPollWhereAsked
<1>1. Init => LoopsHaveSystems
  BY DEF Init, LoopsHaveSystems
<1>2. Spec => []LoopsHaveSystems
  BY <1>1, SystemsStep, LifeTypes, PTL DEF Spec
<1>3. TypeOK /\ LoopsHaveSystems => LoopsPollWhereAsked
  <2> SUFFICES ASSUME TypeOK, LoopsHaveSystems, NEW s \in Systems, loops[s] # "none"
               PROVE  LET sys  == Resolved(settings)[s]
                          env  == given.env
                          flat == given.file.flat
                          own  == given.file.systems[s]
                      IN  IF given.file.systems # <<>>
                          THEN Polls(sys, own.url, own.id, own.api, own.admin)
                          ELSE Polls(sys, Or(env.url, flat.url), Or(env.id, flat.id),
                                     flat.api, Or(env.admin, flat.admin))
    BY DEF LoopsPollWhereAsked
  <2>1. given.file \in Files /\ given.env \in Environments
        /\ s \in DOMAIN Resolved(settings)
    BY DEF TypeOK, LoopsHaveSystems
  <2> QED  BY <2>1, AskedSystems DEF settings
<1> QED  BY <1>2, <1>3, LifeTypes, PTL
=============================================================================
