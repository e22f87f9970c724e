---------------------------- MODULE MCRouteTable ----------------------------
(* Small instances of RouteTable: two addresses, one regex, one or two hosts. *)
EXTENDS RouteTable, TLC

CONSTANTS e1, e2, r1, c1, c2, l1

Ask(e, t, p) == [email |-> e, text |-> t, given |-> p]

\* What the API is asked for: for the first address an https URL that names no
\* port, with the default path; for the second host and port.
UrlOrPort == {Ask(e1, Url("https", "h1", NoPort, DefaultPath), 80),
              Ask(e2, Plain("h1", NoPort), 8645)}
\* Host and port, for both.
HostAndPort == {Ask(e, Plain("h1", NoPort), 8645) : e \in {e1, e2}}

\* The regex matches the second address.
MatchesSecond == [r \in Regexes |-> IF r = r1 THEN {e2} ELSE {}]

FileWith(x, y, z) == (e1 :> x) @@ (e2 :> y) @@ (r1 :> z)

\* At the start: one exact route, by its port alone, or no file; a route with a
\* regex beside it.
ExactOrAbsent == {FileWith(Plain(NoHost, 443), NoTarget, NoTarget), Absent}
RegexFile == {FileWith(Plain("h1", 8645), NoTarget, Plain("h2", 8645))}
\* What the operator writes: a URL under a regex and nothing else, with a port
\* that nobody else has; the first route anew.
RegexOne == {FileWith(NoTarget, NoTarget, Url("https", "h1", 8646, CustomPath))}
FirstFiles == {FileWith(t, NoTarget, NoTarget) :
                  t \in {Plain("h1", 8645), Plain("h2", 8645), NoTarget}}
=============================================================================
