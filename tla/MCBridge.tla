------------------------------ MODULE MCBridge ------------------------------
(* Small instances of Bridge: files in pull mode with an array of systems and   *)
(* without, one in push mode, and what the environment may add.                 *)
EXTENDS Bridge

Relay(s, h) == [scheme |-> s, host |-> h]
System(u, a, k, p, i) == [url |-> u, admin |-> a, api |-> k, poll |-> p, id |-> i]
Anywhere == [ip |-> "0.0.0.0", port |-> 8080]

File(m, b, f, l) == [mode |-> m, bind |-> b, flat |-> f, systems |-> l]
NoSystem == System(Empty, Empty, Empty, 10, Empty)
SomeFiles == {
    File("pull", Anywhere, NoSystem,
         <<System(Relay("", "r1"), "k1", Empty, 10, "s1"),
           System(Relay("https", "r2"), "k2", "a2", 5, "s2")>>),
    File("pull", Anywhere, System(Relay("", "r1"), "k1", Empty, 10, "s1"), <<>>),
    File(Unset, Anywhere, NoSystem, <<>>) }

\* A file that binds to a name, which main cannot parse.
NameBound == {File("pull", [ip |-> Empty, port |-> 8080], NoSystem, <<>>)}
AllFiles == SomeFiles \union NameBound

Env(m, u, a, p, i) == [url |-> u, admin |-> a, poll |-> p, id |-> i, mode |-> m]
SomeEnvironments == {
    Env(Unset, Unset, Unset, Unset, Unset),
    Env(Unset, Relay("", "r3"), "k3", NotANumber, "s3") }
AnyEnvironment == SomeEnvironments \union {Env("other", Unset, Unset, Unset, Unset)}
=============================================================================
