---------------------------- MODULE MCPullBridge ----------------------------
(* A small instance of PullBridge: one delivery for one address, which the  *)
(* file names exactly and by a regex; one endpoint.                         *)
EXTENDS PullBridge, TLC

CONSTANTS s1, d1, a1, r1, c1

OneOwner  == d1 :> s1
OneEmail  == d1 :> a1
OneDomain == a1 :> "example.com"
MatchesIt == r1 :> {a1}
Once == d1 :> 1

Here  == Plain("127.0.0.1", 8645)
ExactAndPattern == {(a1 :> Here) @@ (r1 :> Here)}
OneTarget == {TargetKey(Registered(Here, 8645))}
\* The API is asked for what the file says.
SameAsk == {[email |-> a1, text |-> Plain("127.0.0.1", NoPort), given |-> 8645]}
=============================================================================
