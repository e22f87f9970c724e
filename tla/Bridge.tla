------------------------------- MODULE Bridge -------------------------------
(***************************************************************************)
(* The life of the process (src/src/main.rs): start-up, the tasks main     *)
(* spawns, the HTTP or HTTPS server it runs itself, SIGINT and SIGTERM,    *)
(* and the end.  What a pull cycle, a health round or a request consists   *)
(* of is the matter of PullLoop, RouteHealth and PushDelivery; here each   *)
(* is one stretch of work that must not be cut short.                      *)
(*                                                                         *)
(* The tasks share the worker threads of the tokio runtime.  The routes    *)
(* watcher is a task too, but it waits on a std::sync::mpsc receiver: from *)
(* its first poll on it keeps its worker thread, event or no event.        *)
(***************************************************************************)
EXTENDS Settings

CONSTANTS
    Files,          \* what aimail_bridge.toml may say
    Environments,   \* what the environment may say
    MaxSystems,     \* bound: pull systems
    Clients,        \* connections to the server, one request each
    Workers         \* worker threads of the runtime: the number of cores

Systems == 1..MaxSystems        \* the pull systems, by their position

ASSUME WorkerAssumption == Workers \in Nat \ {0}
ASSUME SystemAssumption == /\ MaxSystems \in Nat \ {0}
                           /\ \A f \in Files : Len(f.systems) <= MaxSystems
ASSUME FileAssumption ==
    \A f \in Files : /\ IsSystem(f.flat)
                     /\ f.systems \in Seq({f.systems[i] : i \in DOMAIN f.systems})
                     /\ \A i \in DOMAIN f.systems : IsSystem(f.systems[i])
ASSUME EnvironmentAssumption == \A e \in Environments : e.url = Unset \/ IsUrl(e.url)

VARIABLES
    given,      \* what the settings were loaded from: file and environment
    main,       \* where async_main, or main after it, is
    exit,       \* how the process ended
    watcher,    \* the routes watcher's task
    handler,    \* the task that waits for a signal
    health,     \* the health checker's task (pull mode)
    loops,      \* loops[s]: the pull loop of system s
    firstErr,   \* first_err: a loop or the server failed
    shutdown,   \* the shutdown flag
    conns,      \* conns[c]: the request of connection c
    served      \* history: the server has had its port

kept == <<given, served>>
tasks == <<watcher, handler, health, loops>>
vars == <<kept, main, exit, tasks, firstErr, shutdown, conns>>

settings == Load(given.file, given.env)
mode == settings.mode

LoopStates == {"none", "spawned", "top", "cycle", "stopped", "failed"}

TypeOK ==
    /\ given \in [file : Files, env : Environments]
    /\ main \in {"start", "bind", "serve", "drain", "join", "drop", "gone"}
    /\ exit \in {"none", "ok", "error", "killed"}
    /\ watcher \in {"none", "spawned", "blocked"}
    /\ handler \in {"none", "spawned", "listening", "received", "done"}
    /\ health \in LoopStates \ {"failed"}
    /\ loops \in [Systems -> LoopStates]
    /\ firstErr \in BOOLEAN /\ shutdown \in BOOLEAN
    /\ conns \in [Clients -> {"none", "open", "answered", "cut"}]
    /\ served \in BOOLEAN
    /\ main = "gone" <=> exit # "none"

Init ==
    /\ given \in [file : Files, env : Environments]
    /\ main = "start" /\ exit = "none"
    /\ watcher = "none" /\ handler = "none" /\ health = "none"
    /\ loops = [s \in Systems |-> "none"]
    /\ firstErr = FALSE /\ shutdown = FALSE /\ served = FALSE
    /\ conns = [c \in Clients |-> "none"]

-----------------------------------------------------------------------------
(* main. *)

Becomes(p, q) == main = p /\ main' = q

\* The process is gone, and with it every connection.
Leave(how) ==
    /\ exit' = how
    /\ conns' = [c \in Clients |-> IF conns[c] = "open" THEN "cut" ELSE conns[c]]
    /\ UNCHANGED <<kept, tasks, firstErr, shutdown>>

\* An unknown mode or an address that does not parse; or, whatever the settings,
\* an HTTP client that cannot be built.
StartFails ==
    /\ ~Starts(settings) \/ mode = "push"
    /\ Becomes("start", "gone")
    /\ Leave("error")

\* Everything up to the server: the watcher's task unless inotify fails, the
\* signal task, and in pull mode the health checker and one loop per system.
\* (In push mode a certificate may be acquired here: see Certificates.)
Start ==
    /\ Starts(settings)
    /\ Becomes("start", "bind")
    /\ watcher' \in {"none", "spawned"}
    /\ handler' = "spawned"
    /\ health' = IF mode = "pull" THEN "spawned" ELSE "none"
    /\ loops' = [s \in Systems |->
                    IF mode = "pull" /\ s \in DOMAIN Resolved(settings) THEN "spawned"
                                                                     ELSE "none"]
    /\ UNCHANGED <<kept, exit, firstErr, shutdown, conns>>

Bind ==
    /\ Becomes("bind", "serve")
    /\ served' = TRUE
    /\ UNCHANGED <<given, exit, tasks, firstErr, shutdown, conns>>

\* A bug: the server's error is dropped once the loops have been waited for.
BindFailsQuietly ==
    /\ mode = "pull" /\ Becomes("bind", "join")
    /\ UNCHANGED <<kept, exit, tasks, firstErr, shutdown, conns>>

\* The address is taken.  Push mode ends here; pull mode keeps the error for
\* when its loops have ended.
BindFails ==
    \/ mode = "push" /\ Becomes("bind", "gone") /\ Leave("error")
    \/ /\ mode = "pull" /\ Becomes("bind", "join")
       /\ firstErr' = TRUE
       /\ UNCHANGED <<kept, exit, tasks, shutdown, conns>>

\* A worker is left for the other tasks, for the timers and for the sockets.
Free == main # "gone" /\ (watcher = "blocked" => Workers > 1)

\* The flag is polled every 100 ms; then no connection is accepted any more.
CloseServer ==
    /\ shutdown /\ Free
    /\ Becomes("serve", "drain")
    /\ UNCHANGED <<kept, exit, tasks, firstErr, shutdown, conns>>

\* What follows the server: the loops are awaited, in pull mode.
Closed(ready) ==
    /\ ready
    /\ Becomes("drain", IF mode = "pull" THEN "join" ELSE "drop")
    /\ UNCHANGED <<kept, exit, tasks, firstErr, shutdown, conns>>

\* A bug: requests in flight are not waited for.
DrainedAtOnce == Closed(TRUE)

\* Every request in flight has been answered.
Drained == Closed(\A c \in Clients : conns[c] # "open")

\* A bug: the process goes as soon as the loops have returned, whatever came of it.
JoinSilently ==
    /\ \A s \in Systems : loops[s] \in {"none", "stopped", "failed"}
    /\ Becomes("join", "gone")
    /\ UNCHANGED <<kept, exit, tasks, firstErr, shutdown, conns>>

\* The pull loops have all returned: an error ends the process at once.  A loop
\* that panics does not come here to be passed over by `let _ = handle.await`: the
\* release build aborts at the panic (panic = "abort", Cargo.toml:50).
Join ==
    /\ \A s \in Systems : loops[s] \in {"none", "stopped", "failed"}
    /\ \/ firstErr /\ Becomes("join", "gone") /\ Leave("error")
       \/ /\ ~firstErr /\ Becomes("join", "drop")
          /\ UNCHANGED <<kept, exit, tasks, firstErr, shutdown, conns>>

\* main returns: dropping the runtime drops each task at its next await and
\* waits for every worker thread, however long that takes.
DropRuntime ==
    /\ watcher # "blocked"
    /\ Becomes("drop", "gone")
    /\ Leave("ok")

-----------------------------------------------------------------------------
(* The tasks: each needs a worker thread.  Once main has returned, none of them
   is polled again. *)

Runs == Free /\ main # "drop" /\ UNCHANGED <<kept, main, exit, conns>>

RunWatcher ==
    /\ Runs
    /\ watcher = "spawned"
    /\ watcher' = "blocked"
    /\ UNCHANGED <<handler, health, loops, firstErr, shutdown>>

\* The first poll of the signal task installs the handlers.
RunHandler ==
    /\ Runs
    /\ handler = "spawned" /\ handler' = "listening"
    /\ UNCHANGED <<watcher, health, loops, firstErr, shutdown>>

RaiseShutdown ==
    /\ Runs
    /\ handler = "received" /\ handler' = "done"
    /\ shutdown' = TRUE
    /\ UNCHANGED <<watcher, health, loops, firstErr>>

\* start_route_health: nobody waits for it to return.
RunHealth ==
    /\ Runs
    /\ \/ health \in {"spawned", "top"}
          /\ health' = IF shutdown THEN "stopped" ELSE "cycle"
       \/ health = "cycle" /\ health' = "top"
    /\ UNCHANGED <<watcher, handler, loops, firstErr, shutdown>>

LoopTo(s, q) == /\ loops' = [loops EXCEPT ![s] = q]
                /\ UNCHANGED <<watcher, handler, health, shutdown>>

\* start_pull_loop begins; its HTTP client can fail to build.
EnterLoop(s) ==
    /\ Runs
    /\ loops[s] = "spawned"
    /\ \/ LoopTo(s, "top") /\ UNCHANGED firstErr
       \/ LoopTo(s, "failed") /\ firstErr' = TRUE

\* Two bugs: the loops are run one after the other; the flag is not looked at.
BeginLoopAlone(s) ==
    /\ \A t \in Systems \ {s} : loops[t] \in {"none", "stopped", "failed"}
    /\ EnterLoop(s)
RunLoopBlind(s) ==
    /\ Runs
    /\ \/ loops[s] = "top" /\ LoopTo(s, "cycle")
       \/ loops[s] = "cycle" /\ LoopTo(s, "top")
    /\ UNCHANGED firstErr

BeginLoop(s) == EnterLoop(s)

\* The flag is looked at between two cycles.
RunLoop(s) ==
    /\ Runs
    /\ \/ loops[s] = "top" /\ LoopTo(s, IF shutdown THEN "stopped" ELSE "cycle")
       \/ loops[s] = "cycle" /\ LoopTo(s, "top")
    /\ UNCHANGED firstErr

-----------------------------------------------------------------------------
(* Clients and the operator. *)

Connect(c) ==
    /\ main = "serve" /\ Free
    /\ conns[c] = "none"
    /\ conns' = [conns EXCEPT ![c] = "open"]
    /\ UNCHANGED <<kept, main, exit, tasks, firstErr, shutdown>>

\* The request is answered, or its client gone.
Answer(c) ==
    /\ Free
    /\ conns[c] = "open"
    /\ conns' = [conns EXCEPT ![c] = "answered"]
    /\ UNCHANGED <<kept, main, exit, tasks, firstErr, shutdown>>

\* SIGINT or SIGTERM.  It kills a process that has no handler yet, and is
\* ignored by one that has had its signal.
Signal ==
    \/ /\ handler \in {"none", "spawned"} /\ main # "gone"
       /\ main' = "gone" /\ Leave("killed")
    \/ /\ handler = "listening" /\ main \notin {"drop", "gone"}
       /\ handler' = "received"
       /\ UNCHANGED <<kept, main, exit, watcher, health, loops, firstErr,
                      shutdown, conns>>

Main == StartFails \/ Start \/ Bind \/ BindFails \/ CloseServer \/ Drained \/ Join
            \/ DropRuntime
Loop(s) == BeginLoop(s) \/ RunLoop(s)

Next == \/ Main \/ Signal
        \/ RunWatcher \/ RunHandler \/ RaiseShutdown \/ RunHealth
        \/ \E s \in Systems : Loop(s)
        \/ \E c \in Clients : Connect(c) \/ Answer(c)

Spec == Init /\ [][Next]_vars

\* main and the tasks keep being scheduled, pull cycles and health rounds end
\* (their requests and probes have time-outs), and so do requests: an agent
\* has 30 s for a POST.  A client that never reads its answer is left aside.
Fairness == /\ WF_vars(Main)
            /\ WF_vars(RunWatcher) /\ WF_vars(RunHandler)
            /\ WF_vars(RaiseShutdown) /\ WF_vars(RunHealth)
            /\ \A s \in Systems : WF_vars(Loop(s))
            /\ \A c \in Clients : WF_vars(Answer(c))

FairSpec == Spec /\ Fairness

-----------------------------------------------------------------------------
(* Properties. *)

\* An orderly end cuts nothing short (README.md:60 "drain in-flight requests"):
\* no request and no cycle of a pull loop, which may be between a POST and
\* its ACK.  The health checker is cut, at an await and so between two updates
\* of the route table.
NothingCutShort ==
    main = "drop" \/ exit \in {"ok", "error"} =>
        /\ \A s \in Systems : loops[s] \notin {"top", "cycle"}
        /\ \A c \in Clients : conns[c] \notin {"open", "cut"}

\* A bridge that did not get its port, or lost a loop, does not end as if all
\* had been well (main.rs:366-389).
FailureIsReported ==
    main = "drop" \/ exit = "ok" =>
        /\ served /\ shutdown /\ ~firstErr
        /\ \A s \in Systems : loops[s] # "failed"

\* sys polls where the text url says, by http if it does not say how, under that
\* identity and with the API key, or the admin key if there is none.
Polls(sys, url, id, api, admin) ==
    /\ url = Empty => sys.url = Empty
    /\ url # Empty => /\ HasScheme(sys.url) /\ sys.url.host = url.host
                      /\ HasScheme(url) => sys.url.scheme = url.scheme
    /\ sys.id = id
    /\ EffectiveKey(sys) = IF api # Empty THEN api ELSE admin

\* Every loop polls the relay its own entry of [[pull.systems]] names, whatever the
\* environment says, and without that array the one the environment names, or the
\* file's flat fields where it names none (README.md:205-207); at a URL an HTTP
\* client accepts if it was given one (config.rs:363-365, "otherwise reqwest gets
\* a URL without scheme").
LoopsPollWhereAsked ==
    \A s \in Systems : loops[s] # "none" =>
        LET sys  == Resolved(settings)[s]
            env  == given.env
            flat == given.file.flat
            own  == given.file.systems[s]
        IN  IF given.file.systems # <<>>
            THEN Polls(sys, own.url, own.id, own.api, own.admin)
            ELSE Polls(sys, Or(env.url, flat.url), Or(env.id, flat.id), flat.api,
                       Or(env.admin, flat.admin))

\* main.rs:350-352: the loops run "CONCURRENTLY", none starves the others, as
\* long as there is a worker beside the one the routes watcher keeps.
EveryLoopRuns ==
    \A s \in Systems : loops[s] = "spawned" ~> loops[s] # "spawned" \/ main = "gone"

\* After a signal main comes to its end ...
SignalEndsMain == shutdown ~> main \in {"drop", "gone"}

\* ... and the process goes (README.md:43 "SIGINT/SIGTERM graceful drain").
SignalEndsProcess == shutdown ~> main = "gone"
=============================================================================
