----------------------------- MODULE MCPullLoop -----------------------------
(* A small instance of PullLoop: two deliveries of one system for one       *)
(* address, which a pattern matches too; only the first meets time-outs and *)
(* expiries.                                                                *)
EXTENDS PullLoop, TLC

CONSTANTS s1, d1, d2, a1

OneOwner == [d \in Deliveries |-> s1]
OneEmail == [d \in Deliveries |-> a1]
OneDomain == [e \in Emails |-> "example.com"]
FirstOnce == (d1 :> 1) @@ (d2 :> 0)
=============================================================================
