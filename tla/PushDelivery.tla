---------------------------- MODULE PushDelivery ----------------------------
(***************************************************************************)
(* Push mode (src/src/push.rs, handle_webhook and handle_batch_webhook): a *)
(* relay POSTs one body, for one recipient or for the recipients of a      *)
(* "signatures" array.  A single request is proxied and answered with what *)
(* the agent answered; a batch is fanned out, one entry after the other,   *)
(* and answered with 200 if every agent took its copy, else with 207.      *)
(*                                                                         *)
(* Each await of a handler is a step, so the route table, other handlers,  *)
(* a relay that hangs up and a shutdown may come in between.  Relays and   *)
(* agents are external: an agent may act on a POST that was given up.      *)
(***************************************************************************)
EXTENDS Naturals, Sequences, FiniteSets, TLC

CONSTANTS
    Emails,         \* recipient addresses
    NoEmail,        \* an entry, or a single request, that names no address
    Requests,       \* requests the relay will make
    Batches,        \* those with a non-empty "signatures" array
    Entries,        \* Entries[r]: the addresses r is for, in order
    Headers,        \* forward_headers as configured
    Sent            \* header names (lower case) a single request carries

ASSUME BatchAssumption == Batches \subseteq Requests
ASSUME EntriesAssumption ==
    /\ Entries \in [Requests -> Seq(Emails \union {NoEmail})]
    /\ \A r \in Requests : Entries[r] # <<>>
    /\ \A r \in Requests \ Batches : Len(Entries[r]) = 1

VARIABLES
    routed,     \* the addresses `lookup` finds a route for
    at,         \* where the handler of r is
    index,      \* the entry it is at
    delivered,  \* its count of 2xx answers
    post,       \* the headers of its POST, as their logical names
    answer,     \* what the relay was answered
    late,       \* late[r]: entries whose POST was given up on the wire
    taken,      \* history: taken[r][i], copies of entry i its agent has taken
    confirmed,  \* history: confirmed[r], entries whose agent answered 2xx
    shutdown,   \* the shutdown flag
    server      \* "serving", "draining" or "exited"

handlers == <<at, index, delivered, post, answer>>
agents   == <<late, taken, confirmed>>
vars == <<routed, handlers, agents, shutdown, server>>

Indexes(r) == DOMAIN Entries[r]
Here(r) == Entries[r][index[r]]

(* Header names.  A configured name becomes a HeaderName, whose text is lower
   case; batch_header_value compares that text with these spellings. *)
Lower == "X-AIMail-Email" :> "x-aimail-email"
      @@ "X-Amail-Email" :> "x-amail-email"
      @@ "X-AIMail-Timestamp" :> "x-aimail-timestamp"
      @@ "X-Mailrelay-Timestamp" :> "x-mailrelay-timestamp"
      @@ "X-Webhook-Signature" :> "x-webhook-signature"
      @@ "content-type" :> "content-type"
ForwardHeaders == {Lower[n] : n \in Headers}

BatchHeaderValue == "X-AIMail-Email" :> "email"
                 @@ "X-Amail-Email" :> "email"
                 @@ "X-AIMail-Timestamp" :> "timestamp"
                 @@ "X-Mailrelay-Timestamp" :> "timestamp"
                 @@ "X-Webhook-Signature" :> "signature"
                 @@ "content-type" :> "content-type"

\* Of a single request its own headers are copied, if they are to be forwarded;
\* for an entry of a batch those that are recognised are made, each once.
HeadersFor(r) ==
    IF r \in Batches
    THEN {BatchHeaderValue[n] : n \in ForwardHeaders \cap DOMAIN BatchHeaderValue}
    ELSE {BatchHeaderValue[n] : n \in {m \in DOMAIN BatchHeaderValue :
                                         Lower[m] \in ForwardHeaders \cap Sent}}

States == {"new", "entry", "post", "closed"}
Answers == {"none", "ok", "partial", "bad request", "bad gateway", "agent error"}

TypeOK ==
    /\ routed \subseteq Emails
    /\ at \in [Requests -> States]
    /\ answer \in [Requests -> Answers]
    /\ \A r \in Requests :
          /\ index[r] \in 1..(Len(Entries[r]) + 1)
          /\ delivered[r] \in 0..Len(Entries[r])
          /\ post[r] \subseteq {BatchHeaderValue[n] : n \in DOMAIN BatchHeaderValue}
          /\ late[r] \subseteq Indexes(r)
          /\ confirmed[r] \subseteq Indexes(r)
          /\ taken[r] \in [Indexes(r) -> Nat]
    /\ shutdown \in BOOLEAN
    /\ server \in {"serving", "draining", "exited"}

Init ==
    /\ routed \in SUBSET Emails
    /\ at = [r \in Requests |-> "new"]
    /\ index = [r \in Requests |-> 1]
    /\ delivered = [r \in Requests |-> 0]
    /\ post = [r \in Requests |-> {}]
    /\ answer = [r \in Requests |-> "none"]
    /\ late = [r \in Requests |-> {}]
    /\ taken = [r \in Requests |-> [i \in Indexes(r) |-> 0]]
    /\ confirmed = [r \in Requests |-> {}]
    /\ shutdown = FALSE
    /\ server = "serving"

-----------------------------------------------------------------------------
(* The handlers. *)

\* A request reaches its handler.
Receive(r) ==
    /\ server = "serving"
    /\ at[r] = "new"
    /\ at' = [at EXCEPT ![r] = "entry"]
    /\ UNCHANGED <<routed, index, delivered, post, answer, agents, shutdown, server>>

Reply(r, a) ==
    /\ at' = [at EXCEPT ![r] = "closed"]
    /\ answer' = [answer EXCEPT ![r] = a]
    /\ UNCHANGED <<index, delivered>>

\* A batch goes on with its next entry.
GoOn(r, count) ==
    /\ at' = [at EXCEPT ![r] = "entry"]
    /\ index' = [index EXCEPT ![r] = @ + 1]
    /\ delivered' = [delivered EXCEPT ![r] = count]
    /\ UNCHANGED answer

\* The handler is at entry i, which is one of r's.
AtEntry(r) == at[r] = "entry" /\ index[r] \in Indexes(r)

\* No address: an entry is passed over, a single request is refused.
NoAddress(r) ==
    /\ AtEntry(r)
    /\ Here(r) = NoEmail
    /\ IF r \in Batches THEN GoOn(r, delivered[r]) ELSE Reply(r, "bad request")
    /\ UNCHANGED <<routed, post, agents, shutdown, server>>

NoRouteIs(r, count) ==
    /\ AtEntry(r)
    /\ Here(r) # NoEmail
    /\ Here(r) \notin routed
    /\ IF r \in Batches THEN GoOn(r, count) ELSE Reply(r, "bad gateway")
    /\ UNCHANGED <<routed, post, agents, shutdown, server>>

\* A bug: an entry without a route counts as done with.
NoRouteCounted(r) == NoRouteIs(r, delivered[r] + 1)

NoRoute(r) == NoRouteIs(r, delivered[r])

SendPost(r, count) ==
    /\ AtEntry(r)
    /\ Here(r) \in routed
    /\ at' = [at EXCEPT ![r] = "post"]
    /\ post' = [post EXCEPT ![r] = HeadersFor(r)]
    /\ delivered' = [delivered EXCEPT ![r] = count]
    /\ UNCHANGED <<routed, index, answer, agents, shutdown, server>>

\* A bug: an entry counts when it is sent, and again when it is answered.
StartPostCounted(r) == SendPost(r, delivered[r] + 1)

StartPost(r) == SendPost(r, delivered[r])

\* The POST is over.
Posted(r) ==
    /\ at[r] = "post"
    /\ post' = [post EXCEPT ![r] = {}]
    /\ UNCHANGED <<routed, shutdown, server>>

\* The agent took its copy, and its 2xx arrived.
PostOk(r) ==
    /\ Posted(r)
    /\ IF r \in Batches THEN GoOn(r, delivered[r] + 1) ELSE Reply(r, "ok")
    /\ taken' = [taken EXCEPT ![r][index[r]] = @ + 1]
    /\ confirmed' = [confirmed EXCEPT ![r] = @ \union {index[r]}]
    /\ UNCHANGED late

FailedPost(r, count, a) ==
    /\ Posted(r)
    /\ IF r \in Batches THEN GoOn(r, count) ELSE Reply(r, a)
    /\ UNCHANGED <<taken, confirmed>>

\* Another status: the relay of a single request is shown it.
PostRefused(r) ==
    /\ FailedPost(r, delivered[r], "agent error")
    /\ UNCHANGED late

\* No connection: the POST never reached the agent.
NoConnection(r) ==
    /\ FailedPost(r, delivered[r], "bad gateway")
    /\ UNCHANGED late

\* A bug: a POST that timed out is sent once more.
PostTimeoutRetried(r) ==
    /\ at[r] = "post"
    /\ late' = [late EXCEPT ![r] = @ \union {index[r]}]
    /\ UNCHANGED <<routed, handlers, taken, confirmed, shutdown, server>>

\* A bug: the client of a batch has no time-out.
PostTimeoutSingle(r) ==
    /\ r \notin Batches
    /\ FailedPost(r, delivered[r], "bad gateway")
    /\ late' = [late EXCEPT ![r] = @ \union {index[r]}]

\* The client gives up after 30 s, or the connection breaks: what becomes of
\* the POST is up to the agent.
PostTimeout(r) ==
    /\ FailedPost(r, delivered[r], "bad gateway")
    /\ late' = [late EXCEPT ![r] = @ \union {index[r]}]

\* The batch is through.
EndBatch(r) ==
    /\ at[r] = "entry"
    /\ index[r] = Len(Entries[r]) + 1
    /\ Reply(r, IF delivered[r] = Len(Entries[r]) THEN "ok" ELSE "partial")
    /\ UNCHANGED <<routed, post, agents, shutdown, server>>

\* The relay hangs up: the handler is dropped where it awaits, and with it the
\* entries it has not come to.
HangUp(r) ==
    /\ at[r] = "post"
    /\ at' = [at EXCEPT ![r] = "closed"]
    /\ post' = [post EXCEPT ![r] = {}]
    /\ late' = [late EXCEPT ![r] = @ \union {index[r]}]
    /\ UNCHANGED <<routed, index, delivered, answer, taken, confirmed, shutdown, server>>

-----------------------------------------------------------------------------
(* Agents, routes, and the end of the server. *)

LatePostTaken(r, i) ==
    /\ i \in late[r]
    /\ late' = [late EXCEPT ![r] = @ \ {i}]
    /\ taken' = [taken EXCEPT ![r][i] = @ + 1]
    /\ UNCHANGED <<routed, handlers, confirmed, shutdown, server>>

\* The route table changes; `lookup` is called afresh for every entry.
RoutesChange(e) ==
    /\ routed' = IF e \in routed THEN routed \ {e} ELSE routed \union {e}
    /\ UNCHANGED <<handlers, agents, shutdown, server>>

RequestShutdown ==
    /\ ~shutdown
    /\ shutdown' = TRUE
    /\ UNCHANGED <<routed, handlers, agents, server>>

ServerGoes(from, to) ==
    /\ server = from
    /\ server' = to
    /\ UNCHANGED <<routed, handlers, agents, shutdown>>

\* The server looks at the flag every 100 ms; then it accepts nothing more.
Drain == shutdown /\ ServerGoes("serving", "draining")

Running(r) == at[r] \in {"entry", "post"}

\* It waits for the handlers it has, without a deadline.
Exit == (\A r \in Requests : ~Running(r)) /\ ServerGoes("draining", "exited")

\* What the bridge does by itself; a POST ends by the client's time-out.
Own(r) == NoAddress(r) \/ NoRoute(r) \/ StartPost(r) \/ PostTimeout(r) \/ EndBatch(r)

\* What agent and relay do.
Others(r) == Receive(r) \/ PostOk(r) \/ PostRefused(r) \/ NoConnection(r) \/ HangUp(r)

Next == \/ \E r \in Requests : Own(r) \/ Others(r)
        \/ \E r \in Requests : \E i \in Indexes(r) : LatePostTaken(r, i)
        \/ \E e \in Emails : RoutesChange(e)
        \/ RequestShutdown \/ Drain \/ Exit

Spec == Init /\ [][Next]_vars

\* The runtime runs every handler, and the server's task.
FairSpec == /\ Spec
            /\ \A r \in Requests : WF_vars(Own(r))
            /\ WF_vars(Drain) /\ WF_vars(Exit)

-----------------------------------------------------------------------------
(* Properties. *)

\* A relay that was answered 200 may forget the mail: every address the request
\* is for has its copy, confirmed by its agent, whatever routes came and went
\* meanwhile (push.rs:409).  And 207 is never said of a batch that got through.
AnswerIsExact ==
    \A r \in Requests :
        /\ answer[r] = "ok" <=> (at[r] = "closed" /\ answer[r] # "none"
                                 /\ confirmed[r] = Indexes(r))
        /\ \A i \in confirmed[r] : taken[r][i] = 1

\* One request gives an agent at most one copy per entry, time-outs, late POSTs
\* and hang-ups included: the bridge leaves retrying to the relay.
OneCopyPerEntry == \A r \in Requests : \A i \in Indexes(r) : taken[r][i] <= 1

\* Every accepted request comes to an end, whatever agents do or fail to do ...
RequestsEnd == \A r \in Requests : Running(r) ~> at[r] = "closed"

\* ... and so does the drain of a requested shutdown (README.md:43).
ShutdownEndsServer == shutdown ~> server = "exited"

\* push.rs:36 and :324: each agent is sent the headers of its own entry.
PerRecipientHeaders ==
    \A r \in Batches : at[r] = "post" => {"email", "timestamp", "signature"} \subseteq post[r]
=============================================================================
