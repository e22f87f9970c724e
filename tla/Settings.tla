------------------------------ MODULE Settings ------------------------------
(***************************************************************************)
(* The settings (src/src/config.rs): aimail_bridge.toml, overridden by     *)
(* environment variables, with the relays' URLs completed, and what main   *)
(* reads out of them to start its tasks.  Lists of addresses and sites are *)
(* FrontDoor's.  A text is a record of its parts, or a model value.        *)
(***************************************************************************)
EXTENDS Naturals, Sequences

CONSTANTS
    Unset,      \* a variable the environment does not have, a key the file lacks
    Empty,      \* the empty text
    NotANumber  \* a text that is no number

\* A relay's URL as it is written: with a scheme, or without one.
IsUrl(url) == url = Empty \/ DOMAIN url = {"scheme", "host"}
HasScheme(url) == url.scheme # ""

\* A system, as the flat fields or an entry of [[pull.systems]] describe it.
IsSystem(sys) == DOMAIN sys = {"url", "admin", "api", "poll", "id"} /\ IsUrl(sys.url)

\* A bug (AUDIT-2): the URL of an entry of [[pull.systems]] stays as written.
AsWritten(url) == url

\* "http://" before a URL that has none; an empty one stays empty.
Normalized(url) == IF url = Empty \/ HasScheme(url) THEN url
                                                    ELSE [url EXCEPT !.scheme = "http"]
NormalizedEntry(url) == Normalized(url)

Or(value, default) == IF value = Unset THEN default ELSE value

\* AIMAIL_BRIDGE_POLL_SECS.
PollSecs(text, default) == IF text = NotANumber THEN 10 ELSE Or(text, default)

(* f is the file, e the environment. *)
Flat(f, e) == [f.flat EXCEPT !.url = Normalized(Or(e.url, @)),
                             !.admin = Or(e.admin, @),
                             !.id = Or(e.id, @),
                             !.poll = PollSecs(e.poll, @)]

Entries(f) == [i \in DOMAIN f.systems |->
                  [f.systems[i] EXCEPT !.url = NormalizedEntry(@)]]

Load(f, e) ==
    [mode    |-> Or(e.mode, Or(f.mode, "push")),
     bind    |-> Or(f.bind, [ip |-> "0.0.0.0", port |-> 38080]),
     flat    |-> Flat(f, e),
     systems |-> Entries(f)]

\* resolved_systems: the flat fields make one system if there is no array.
Resolved(c) == IF c.systems = <<>> THEN <<c.flat>> ELSE c.systems

\* The key a system signs with.
EffectiveKey(sys) == IF sys.api # Empty THEN sys.api ELSE sys.admin

\* main parses bind as an IP address with a port, and knows two modes.
Starts(c) == c.bind.ip # Empty /\ c.mode \in {"push", "pull"}
=============================================================================
