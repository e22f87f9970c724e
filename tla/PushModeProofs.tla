--------------------------- MODULE PushModeProofs ---------------------------
(***************************************************************************)
(* Push mode, proved.                                                      *)
(*                                                                         *)
(* The handler (PushDelivery), for any requests, batches, entries and      *)
(* header lists: the relay's answer says exactly what became of the batch, *)
(* and no entry is given to its agent twice.  Both are about how far a     *)
(* handler has come: what lies behind its index is settled, what lies      *)
(* before it untouched.                                                    *)
(*                                                                         *)
(* The rate limiter (RateLimiter), for any limit and any number of ticks   *)
(* in a second: twice the limit is never exceeded, and who is refused has  *)
(* used the limit up.                                                      *)
(*                                                                         *)
(* The way to the handler (FrontDoor), for any addresses, lists and sites: *)
(* it is the limiter with answers added, and its answers are the lists'.   *)
(***************************************************************************)
EXTENDS PushDelivery, FrontDoor, SequenceTheorems, TLAPS

Shape ==
    /\ at \in [Requests -> States] /\ answer \in [Requests -> Answers]
    /\ index \in [Requests -> Nat] /\ delivered \in [Requests -> Nat]
    /\ DOMAIN late = Requests /\ DOMAIN taken = Requests /\ DOMAIN confirmed = Requests

(* The invariant is a matter of each request by itself. *)

Placed(r) ==
    /\ taken[r] \in [Indexes(r) -> Nat]
    /\ index[r] \in 1..(Len(Entries[r]) + 1)
    /\ confirmed[r] \subseteq Indexes(r)

Open(r) == at[r] # "closed"

\* No copy of an entry the handler is at or has not come to is under way.
AheadUntouched(r) ==
    Open(r) => \A i \in Indexes(r) :
        i >= index[r] => taken[r][i] = 0 /\ i \notin late[r] /\ i \notin confirmed[r]

\* A POST given up on the wire is that entry's only copy, and a confirmed one is
\* never given up.
OneCopyOnItsWay(r) ==
    \A i \in Indexes(r) :
        /\ i \in late[r] => taken[r][i] = 0
        /\ taken[r][i] <= 1
        /\ i \in confirmed[r] => taken[r][i] = 1

\* The count is full exactly if every entry so far is confirmed.
CountIsExact(r) ==
    Open(r) =>
        /\ answer[r] = "none"
        /\ delivered[r] <= index[r] - 1
        /\ delivered[r] = index[r] - 1 <=> \A i \in 1..(index[r] - 1) : i \in confirmed[r]
        /\ r \notin Batches => index[r] = 1
        /\ at[r] = "post" => index[r] \in Indexes(r)

\* So the answer is what the confirmations say.
AnswerStands(r) ==
    answer[r] = "ok" <=> (at[r] = "closed" /\ answer[r] # "none"
                          /\ confirmed[r] = Indexes(r))

RequestInv(r) == /\ Placed(r) /\ AheadUntouched(r) /\ OneCopyOnItsWay(r)
                 /\ CountIsExact(r) /\ AnswerStands(r)

PushInv == Shape /\ \A r \in Requests : RequestInv(r)

\* Requests have entries, single ones just one.
LEMMA EntriesOf ==
    ASSUME NEW r \in Requests
    PROVE  /\ Len(Entries[r]) \in Nat /\ Len(Entries[r]) >= 1
           /\ Indexes(r) = 1..Len(Entries[r])
           /\ r \notin Batches => Len(Entries[r]) = 1
<1>1. Entries[r] \in Seq(Emails \union {NoEmail}) /\ Entries[r] # <<>>
  BY EntriesAssumption
<1> QED  BY <1>1, EntriesAssumption DEF Indexes

LEMMA PushInit == Init => PushInv
<1> SUFFICES ASSUME Init PROVE PushInv
  OBVIOUS
<1>1. Shape
  BY DEF Init, Shape, States, Answers
<1>2. ASSUME NEW r \in Requests PROVE RequestInv(r)
  <2>1. /\ at[r] = "new" /\ index[r] = 1 /\ delivered[r] = 0 /\ answer[r] = "none"
        /\ late[r] = {} /\ taken[r] = [i \in Indexes(r) |-> 0] /\ confirmed[r] = {}
    BY DEF Init
  <2>2. Placed(r) /\ AheadUntouched(r) /\ OneCopyOnItsWay(r)
    BY <2>1, EntriesOf DEF Placed, AheadUntouched, OneCopyOnItsWay
  <2>3. CountIsExact(r) /\ AnswerStands(r)
    BY <2>1, EntriesOf DEF CountIsExact, AnswerStands
  <2> QED  BY <2>2, <2>3 DEF RequestInv
<1> QED  BY <1>1, <1>2 DEF PushInv

-----------------------------------------------------------------------------
(* How one request moves. *)

\* What is kept for a request nothing happens to.
Untouched(q) ==
    /\ at'[q] = at[q] /\ index'[q] = index[q] /\ delivered'[q] = delivered[q]
    /\ answer'[q] = answer[q]
    /\ late'[q] = late[q] /\ taken'[q] = taken[q] /\ confirmed'[q] = confirmed[q]

LEMMA Frame ==
    ASSUME NEW q \in Requests, RequestInv(q), Untouched(q)
    PROVE  RequestInv(q)'
BY DEF Untouched, RequestInv, Placed, Open, AheadUntouched, OneCopyOnItsWay, CountIsExact,
       AnswerStands

LEMMA OnlyOne ==
    ASSUME PushInv, Shape', NEW r \in Requests, RequestInv(r)',
           \A q \in Requests \ {r} : Untouched(q)
    PROVE  PushInv'
BY Frame DEF PushInv

\* A handler that starts, or starts a POST.
LEMMA AdvanceInv ==
    ASSUME PushInv, NEW r \in Requests, Receive(r) \/ StartPost(r)
    PROVE  PushInv'
<1> USE DEF PushInv
<1>1. \E p \in {"entry", "post"} : /\ at' = [at EXCEPT ![r] = p]
                                   /\ p = "post" => index[r] \in Indexes(r)
  BY DEF Receive, StartPost, SendPost, AtEntry
<1>2. UNCHANGED <<index, answer, late, taken, confirmed>> /\ Open(r)
  BY DEF Receive, StartPost, SendPost, AtEntry, agents, Open
<1>3. delivered' = delivered
  BY DEF Receive, StartPost, SendPost, Shape
<1>4. Shape' /\ \A q \in Requests \ {r} : Untouched(q)
  BY <1>1, <1>2, <1>3 DEF Shape, States, Untouched
<1>5. at'[r] # "closed" /\ (at'[r] = "post" => index[r] \in Indexes(r))
  BY <1>1 DEF Shape
<1>6. RequestInv(r)'
  <2>1. Placed(r)' /\ AheadUntouched(r)' /\ OneCopyOnItsWay(r)'
    BY <1>2 DEF RequestInv, Placed, Open, AheadUntouched, OneCopyOnItsWay
  <2>2. CountIsExact(r)' /\ AnswerStands(r)'
    BY <1>2, <1>3, <1>5 DEF RequestInv, Open, CountIsExact, AnswerStands
  <2> QED  BY <2>1, <2>2 DEF RequestInv
<1> QED  BY <1>4, <1>6, OnlyOne

\* A batch goes on, its entry not confirmed, its POST perhaps on the wire.
LEMMA GoOnInv ==
    ASSUME PushInv, NEW r \in Requests, r \in Batches, Open(r), index[r] \in Indexes(r),
           GoOn(r, delivered[r]), UNCHANGED <<taken, confirmed>>,
           late' = late \/ late' = [late EXCEPT ![r] = @ \union {index[r]}]
    PROVE  PushInv'
<1> USE DEF PushInv
<1>1. /\ at' = [at EXCEPT ![r] = "entry"] /\ index' = [index EXCEPT ![r] = index[r] + 1]
      /\ delivered' = delivered /\ answer' = answer
  BY DEF GoOn, Shape
<1>2. Shape' /\ \A q \in Requests \ {r} : Untouched(q)
  BY <1>1 DEF Shape, States, Untouched
<1>3. /\ at'[r] = "entry" /\ index'[r] = index[r] + 1
      /\ late'[r] = late[r] \/ late'[r] = late[r] \union {index[r]}
  BY <1>1 DEF Shape
<1>4. index[r] \in Nat /\ delivered[r] \in Nat /\ index[r] >= 1
  BY DEF Shape, RequestInv, Placed
<1>5. index[r] \notin confirmed[r] /\ taken[r][index[r]] = 0
  BY <1>4 DEF RequestInv, AheadUntouched
<1>6. Placed(r)'
  BY <1>3, <1>4, EntriesOf DEF RequestInv, Placed
<1>7. AheadUntouched(r)' /\ OneCopyOnItsWay(r)'
  BY <1>3, <1>4, <1>5, EntriesOf DEF RequestInv, Open, AheadUntouched, OneCopyOnItsWay
<1>8. CountIsExact(r)'
  <2>1. delivered'[r] <= index'[r] - 1 /\ delivered'[r] # index'[r] - 1
    BY <1>1, <1>3, <1>4 DEF RequestInv, CountIsExact
  <2>2. ~ \A i \in 1..(index'[r] - 1) : i \in confirmed'[r]
    BY <1>3, <1>4, <1>5
  <2> QED  BY <1>1, <1>3, <2>1, <2>2 DEF RequestInv, CountIsExact
<1>9. AnswerStands(r)'
  BY <1>1, <1>3 DEF RequestInv, CountIsExact, AnswerStands
<1> QED  BY <1>2, <1>6, <1>7, <1>8, <1>9, OnlyOne DEF RequestInv

\* A single request is answered with an error, its POST perhaps on the wire.
LEMMA RefuseInv ==
    ASSUME PushInv, NEW r \in Requests, r \notin Batches, Open(r), index[r] \in Indexes(r),
           NEW a \in Answers \ {"ok", "none"}, Reply(r, a), UNCHANGED <<taken, confirmed>>,
           late' = late \/ late' = [late EXCEPT ![r] = @ \union {index[r]}]
    PROVE  PushInv'
<1> USE DEF PushInv
<1>1. /\ at' = [at EXCEPT ![r] = "closed"] /\ answer' = [answer EXCEPT ![r] = a]
      /\ UNCHANGED <<index, delivered>>
  BY DEF Reply
<1>2. Shape' /\ \A q \in Requests \ {r} : Untouched(q)
  BY <1>1 DEF Shape, States, Untouched
<1>3. /\ at'[r] = "closed" /\ answer'[r] = a
      /\ late'[r] = late[r] \/ late'[r] = late[r] \union {index[r]}
  BY <1>1 DEF Shape
<1>4. index[r] \in Nat
  BY DEF Shape
<1>5. index[r] \notin confirmed[r] /\ taken[r][index[r]] = 0
  BY <1>4 DEF RequestInv, AheadUntouched
<1>6. Placed(r)' /\ AheadUntouched(r)' /\ OneCopyOnItsWay(r)' /\ CountIsExact(r)'
  BY <1>1, <1>3, <1>5 DEF RequestInv, Placed, Open, AheadUntouched, OneCopyOnItsWay,
                          CountIsExact
<1>7. AnswerStands(r)'
  BY <1>3, <1>5 DEF AnswerStands
<1> QED  BY <1>2, <1>6, <1>7, OnlyOne DEF RequestInv

\* An address that is missing or unknown.
LEMMA PassInv ==
    ASSUME PushInv, NEW r \in Requests, NoAddress(r) \/ NoRoute(r)
    PROVE  PushInv'
<1>1. Open(r) /\ index[r] \in Indexes(r) /\ UNCHANGED <<late, taken, confirmed>>
  BY DEF NoAddress, NoRoute, NoRouteIs, AtEntry, Open, agents
<1>2. CASE r \in Batches
  <2>1. GoOn(r, delivered[r])
    BY <1>2 DEF NoAddress, NoRoute, NoRouteIs
  <2> QED  BY <1>1, <1>2, <2>1, GoOnInv
<1>3. CASE r \notin Batches
  <2>1. Reply(r, "bad request") \/ Reply(r, "bad gateway")
    BY <1>3 DEF NoAddress, NoRoute, NoRouteIs
  <2> QED  BY <1>1, <1>3, <2>1, RefuseInv DEF Answers
<1> QED  BY <1>2, <1>3

\* A POST that did not get a 2xx answer.
LEMMA FailedPostInv ==
    ASSUME PushInv, NEW r \in Requests, PostRefused(r) \/ NoConnection(r) \/ PostTimeout(r)
    PROVE  PushInv'
<1>1. /\ Open(r) /\ index[r] \in Indexes(r) /\ UNCHANGED <<taken, confirmed>>
      /\ late' = late \/ late' = [late EXCEPT ![r] = @ \union {index[r]}]
  BY DEF PostRefused, NoConnection, PostTimeout, FailedPost, Posted, Open, PushInv, RequestInv,
         CountIsExact
<1>2. CASE r \in Batches
  <2>1. GoOn(r, delivered[r])
    BY <1>2 DEF PostRefused, NoConnection, PostTimeout, FailedPost
  <2> QED  BY <1>1, <1>2, <2>1, GoOnInv
<1>3. CASE r \notin Batches
  <2>1. Reply(r, "agent error") \/ Reply(r, "bad gateway")
    BY <1>3 DEF PostRefused, NoConnection, PostTimeout, FailedPost
  <2> QED  BY <1>1, <1>3, <2>1, RefuseInv DEF Answers
<1> QED  BY <1>2, <1>3

\* A POST that did.
LEMMA PostOkInv ==
    ASSUME PushInv, NEW r \in Requests, PostOk(r)
    PROVE  PushInv'
<1> USE DEF PushInv
<1>1. at[r] = "post" /\ Open(r) /\ index[r] \in Indexes(r)
  BY DEF PostOk, Posted, Open, RequestInv, CountIsExact
<1>2. /\ taken' = [taken EXCEPT ![r] = [taken[r] EXCEPT ![index[r]] = taken[r][index[r]] + 1]]
      /\ confirmed' = [confirmed EXCEPT ![r] = confirmed[r] \union {index[r]}]
      /\ late' = late
  BY DEF PostOk
<1>3. /\ index[r] \in Nat /\ index[r] >= 1 /\ delivered[r] \in Nat
      /\ index[r] \notin confirmed[r] /\ taken[r][index[r]] = 0 /\ index[r] \notin late[r]
      /\ taken[r] \in [Indexes(r) -> Nat]
  BY <1>1 DEF Shape, RequestInv, Placed, AheadUntouched
<1>4. /\ taken'[r] = [taken[r] EXCEPT ![index[r]] = 1]
      /\ confirmed'[r] = confirmed[r] \union {index[r]} /\ late'[r] = late[r]
      /\ DOMAIN taken' = Requests /\ DOMAIN confirmed' = Requests
      /\ \A q \in Requests \ {r} : taken'[q] = taken[q] /\ confirmed'[q] = confirmed[q]
  BY <1>2, <1>3 DEF Shape
<1>5. OneCopyOnItsWay(r)'
  BY <1>1, <1>3, <1>4 DEF RequestInv, OneCopyOnItsWay
<1>6. taken'[r] \in [Indexes(r) -> Nat] /\ confirmed'[r] \subseteq Indexes(r)
  BY <1>1, <1>3, <1>4 DEF RequestInv, Placed
<1>7. CASE r \in Batches
  <2>1. /\ at' = [at EXCEPT ![r] = "entry"] /\ index' = [index EXCEPT ![r] = index[r] + 1]
        /\ delivered' = [delivered EXCEPT ![r] = delivered[r] + 1] /\ answer' = answer
    BY <1>7 DEF PostOk, GoOn
  <2>2. Shape' /\ \A q \in Requests \ {r} : Untouched(q)
    BY <1>2, <1>4, <1>3, <2>1 DEF Shape, States, Untouched
  <2>3. at'[r] = "entry" /\ index'[r] = index[r] + 1 /\ delivered'[r] = delivered[r] + 1
    BY <2>1 DEF Shape
  <2>4. Placed(r)'
    BY <1>1, <1>6, <2>3, EntriesOf DEF Placed
  <2>5. AheadUntouched(r)'
    BY <1>1, <1>3, <1>4, <2>3, EntriesOf DEF RequestInv, AheadUntouched
  <2>6. CountIsExact(r)'
    <3>1. /\ delivered[r] <= index[r] - 1
          /\ delivered[r] = index[r] - 1 <=> \A i \in 1..(index[r] - 1) : i \in confirmed[r]
      BY <1>1 DEF RequestInv, CountIsExact
    <3>2. (\A i \in 1..(index'[r] - 1) : i \in confirmed'[r])
             <=> \A i \in 1..(index[r] - 1) : i \in confirmed[r]
      BY <1>3, <1>4, <2>3
    <3>3. /\ delivered'[r] <= index'[r] - 1
          /\ delivered'[r] = index'[r] - 1 <=> delivered[r] = index[r] - 1
      BY <1>3, <2>3, <3>1
    <3> QED  BY <1>1, <1>7, <2>1, <2>3, <3>1, <3>2, <3>3 DEF RequestInv, CountIsExact
  <2>7. AnswerStands(r)'
    BY <1>1, <2>1, <2>3 DEF RequestInv, CountIsExact, AnswerStands
  <2> QED  BY <1>5, <2>2, <2>4, <2>5, <2>6, <2>7, OnlyOne DEF RequestInv
<1>8. CASE r \notin Batches
  <2>1. /\ at' = [at EXCEPT ![r] = "closed"] /\ answer' = [answer EXCEPT ![r] = "ok"]
        /\ UNCHANGED <<index, delivered>>
    BY <1>8 DEF PostOk, Reply
  <2>2. Shape' /\ \A q \in Requests \ {r} : Untouched(q)
    BY <1>2, <1>4, <2>1 DEF Shape, States, Answers, Untouched
  <2>3. at'[r] = "closed" /\ answer'[r] = "ok"
    BY <2>1 DEF Shape
  <2>4. Placed(r)' /\ AheadUntouched(r)' /\ CountIsExact(r)'
    BY <1>6, <2>1, <2>3 DEF RequestInv, Placed, Open, AheadUntouched, CountIsExact
  <2>5. confirmed'[r] = Indexes(r)
    <3>1. Indexes(r) = {index[r]}
      BY <1>1, <1>8, EntriesOf DEF RequestInv, CountIsExact
    <3> QED  BY <1>4, <1>6, <3>1
  <2>6. AnswerStands(r)'
    BY <2>3, <2>5 DEF AnswerStands
  <2> QED  BY <1>5, <2>2, <2>4, <2>6, OnlyOne DEF RequestInv
<1> QED  BY <1>7, <1>8

\* The end of a batch.
LEMMA EndBatchInv ==
    ASSUME PushInv, NEW r \in Requests, EndBatch(r)
    PROVE  PushInv'
<1> USE DEF PushInv
<1>1. /\ UNCHANGED <<late, taken, confirmed, index, delivered>>
      /\ Open(r) /\ index[r] = Len(Entries[r]) + 1
      /\ at' = [at EXCEPT ![r] = "closed"]
      /\ answer' = [answer EXCEPT ![r] = IF delivered[r] = Len(Entries[r]) THEN "ok"
                                                                          ELSE "partial"]
  BY DEF EndBatch, Reply, agents, Open
<1>2. Shape' /\ \A q \in Requests \ {r} : Untouched(q)
  BY <1>1 DEF Shape, States, Answers, Untouched
<1>3. /\ at'[r] = "closed"
      /\ answer'[r] = IF delivered[r] = Len(Entries[r]) THEN "ok" ELSE "partial"
  BY <1>1 DEF Shape
<1>4. Placed(r)' /\ AheadUntouched(r)' /\ OneCopyOnItsWay(r)' /\ CountIsExact(r)'
  BY <1>1, <1>3 DEF RequestInv, Placed, Open, AheadUntouched, OneCopyOnItsWay, CountIsExact
<1>5. delivered[r] = Len(Entries[r]) <=> confirmed[r] = Indexes(r)
  <2>1. delivered[r] = Len(Entries[r]) <=> \A i \in Indexes(r) : i \in confirmed[r]
    BY <1>1, EntriesOf DEF RequestInv, CountIsExact
  <2>2. confirmed[r] \subseteq Indexes(r)
    BY DEF RequestInv, Placed
  <2> QED  BY <2>1, <2>2
<1>6. AnswerStands(r)'
  BY <1>1, <1>3, <1>5 DEF AnswerStands
<1> QED  BY <1>2, <1>4, <1>6, OnlyOne DEF RequestInv

\* A relay that hangs up gets no answer.
LEMMA HangUpInv ==
    ASSUME PushInv, NEW r \in Requests, HangUp(r)
    PROVE  PushInv'
<1> USE DEF PushInv
<1>1. /\ UNCHANGED <<index, delivered, answer, taken, confirmed>>
      /\ at[r] = "post" /\ at' = [at EXCEPT ![r] = "closed"]
      /\ late' = [late EXCEPT ![r] = late[r] \union {index[r]}]
  BY DEF HangUp
<1>2. Shape' /\ \A q \in Requests \ {r} : Untouched(q)
  BY <1>1 DEF Shape, States, Untouched
<1>3. at'[r] = "closed" /\ late'[r] = late[r] \union {index[r]}
  BY <1>1 DEF Shape
<1>4. /\ answer[r] = "none" /\ index[r] \in Nat /\ index[r] \in Indexes(r)
      /\ taken[r][index[r]] = 0
  BY <1>1 DEF Shape, RequestInv, Open, CountIsExact, AheadUntouched
<1>5. Placed(r)' /\ AheadUntouched(r)' /\ OneCopyOnItsWay(r)' /\ CountIsExact(r)'
  BY <1>1, <1>3, <1>4 DEF RequestInv, Placed, Open, AheadUntouched, OneCopyOnItsWay,
                          CountIsExact
<1>6. AnswerStands(r)'
  BY <1>1, <1>3, <1>4 DEF AnswerStands
<1> QED  BY <1>2, <1>5, <1>6, OnlyOne DEF RequestInv

\* An agent acts on what was given up: it is that entry's first copy.
LEMMA LateInv ==
    ASSUME PushInv, NEW r \in Requests, NEW i \in Indexes(r), LatePostTaken(r, i)
    PROVE  PushInv'
<1> USE DEF PushInv
<1>1. /\ UNCHANGED <<at, index, delivered, answer, confirmed>> /\ i \in late[r]
      /\ late' = [late EXCEPT ![r] = late[r] \ {i}]
      /\ taken' = [taken EXCEPT ![r] = [taken[r] EXCEPT ![i] = taken[r][i] + 1]]
  BY DEF LatePostTaken, handlers
<1>2. taken[r][i] = 0 /\ taken[r] \in [Indexes(r) -> Nat] /\ i \notin confirmed[r]
  BY <1>1 DEF RequestInv, OneCopyOnItsWay, Placed
<1>3. late'[r] = late[r] \ {i} /\ taken'[r] = [taken[r] EXCEPT ![i] = 1]
  BY <1>1, <1>2 DEF Shape
<1>4. Shape' /\ \A q \in Requests \ {r} : Untouched(q)
  BY <1>1 DEF Shape, Untouched
<1>5. Placed(r)' /\ OneCopyOnItsWay(r)'
  BY <1>1, <1>2, <1>3 DEF RequestInv, Placed, OneCopyOnItsWay
<1>6. AheadUntouched(r)'
  BY <1>1, <1>2, <1>3 DEF RequestInv, Open, AheadUntouched
<1>7. CountIsExact(r)' /\ AnswerStands(r)'
  BY <1>1 DEF RequestInv, Open, CountIsExact, AnswerStands
<1> QED  BY <1>4, <1>5, <1>6, <1>7, OnlyOne DEF RequestInv

LEMMA PushStep == PushInv /\ [Next]_vars => PushInv'
<1> SUFFICES ASSUME PushInv, [Next]_vars PROVE PushInv'
  OBVIOUS
<1>1. ASSUME NEW r \in Requests, Own(r) \/ Others(r) PROVE PushInv'
  BY <1>1, AdvanceInv, PassInv, FailedPostInv, PostOkInv, EndBatchInv, HangUpInv
     DEF Own, Others
<1>2. ASSUME NEW r \in Requests, NEW i \in Indexes(r), LatePostTaken(r, i) PROVE PushInv'
  BY <1>2, LateInv
<1>3. CASE \/ \E e \in Emails : RoutesChange(e)
           \/ RequestShutdown \/ Drain \/ Exit \/ UNCHANGED vars
  <2>1. UNCHANGED <<at, index, delivered, answer, late, taken, confirmed>>
    BY <1>3 DEF RoutesChange, RequestShutdown, Drain, Exit, ServerGoes, vars, handlers, agents
  <2>2. Shape' /\ \A q \in Requests : Untouched(q)
    BY <2>1 DEF PushInv, Shape, Untouched
  <2> QED  BY <2>2, Frame DEF PushInv
<1> QED  BY <1>1, <1>2, <1>3 DEF Next

\* The books of every request are in order at any time (push.rs:248-414).
THEOREM PushInvariant == Spec => []PushInv
BY PushInit, PushStep, PTL DEF Spec

\* An agent is given each entry once at most, whatever goes wrong on the way
\* (push.rs:356-406).
THEOREM NoSecondCopy == Spec => []OneCopyPerEntry
<1>1. PushInv => OneCopyPerEntry
  BY DEF PushInv, RequestInv, OneCopyOnItsWay, OneCopyPerEntry
<1> QED  BY <1>1, PushInvariant, PTL

\* 200 if and only if every entry is confirmed (push.rs:409).
THEOREM AnswersAreExact == Spec => []AnswerIsExact
<1>1. PushInv => AnswerIsExact
  BY DEF PushInv, RequestInv, Placed, OneCopyOnItsWay, AnswerStands, AnswerIsExact
<1> QED  BY <1>1, PushInvariant, PTL
-----------------------------------------------------------------------------
(* Types: what TypeOK asks beyond PushInv. *)

HeaderNames == {BatchHeaderValue[n] : n \in DOMAIN BatchHeaderValue}

Fields ==
    /\ routed \subseteq Emails /\ shutdown \in BOOLEAN
    /\ server \in {"serving", "draining", "exited"}
    /\ DOMAIN post = Requests
    /\ \A r \in Requests : /\ post[r] \subseteq HeaderNames
                           /\ late[r] \subseteq Indexes(r)
                           /\ delivered[r] <= Len(Entries[r])

LEMMA HeadersHaveNames == ASSUME NEW r \in Requests PROVE HeadersFor(r) \subseteq HeaderNames
BY DEF HeadersFor, HeaderNames

\* What a step of a handler does to the fields of its request, and to no other's.
HandlerMoves(r) ==
    /\ UNCHANGED <<routed, shutdown, server>>
    /\ \/ post' = post
       \/ \E S \in {{}, HeadersFor(r)} : post' = [post EXCEPT ![r] = S]
    /\ \/ late' = late
       \/ at[r] = "post" /\ late' = [late EXCEPT ![r] = @ \union {index[r]}]
    /\ \/ delivered' = delivered
       \/ at'[r] = "entry" /\ \A q \in Requests \ {r} : delivered'[q] = delivered[q]

LEMMA HandlersMove ==
    ASSUME Shape, NEW r \in Requests, Own(r) \/ Others(r)
    PROVE  HandlerMoves(r)
<1>1. ASSUME NEW count, GoOn(r, count)
      PROVE  at'[r] = "entry" /\ \A q \in Requests \ {r} : delivered'[q] = delivered[q]
  BY <1>1 DEF GoOn, Shape
<1>2. ASSUME NEW a, Reply(r, a) PROVE delivered' = delivered
  BY <1>2 DEF Reply
<1>3. CASE Receive(r)
  BY <1>3 DEF Receive, agents, HandlerMoves
<1>4. CASE NoAddress(r)
  BY <1>1, <1>2, <1>4 DEF NoAddress, agents, HandlerMoves
<1>5. CASE NoRoute(r)
  BY <1>1, <1>2, <1>5 DEF NoRoute, NoRouteIs, agents, HandlerMoves
<1>6. CASE StartPost(r)
  BY <1>6 DEF StartPost, SendPost, agents, HandlerMoves, Shape
<1>7. ASSUME NEW count, NEW a, FailedPost(r, count, a),
             late' = late \/ late' = [late EXCEPT ![r] = @ \union {index[r]}]
      PROVE  HandlerMoves(r)
  BY <1>1, <1>2, <1>7 DEF FailedPost, Posted, HandlerMoves
<1>8. CASE PostRefused(r) \/ NoConnection(r) \/ PostTimeout(r)
  BY <1>7, <1>8 DEF PostRefused, NoConnection, PostTimeout
<1>9. CASE PostOk(r)
  BY <1>1, <1>2, <1>9 DEF PostOk, Posted, HandlerMoves
<1>10. CASE EndBatch(r)
  BY <1>2, <1>10 DEF EndBatch, agents, HandlerMoves
<1>11. CASE HangUp(r)
  BY <1>11 DEF HangUp, HandlerMoves
<1> QED  BY <1>3, <1>4, <1>5, <1>6, <1>8, <1>9, <1>10, <1>11 DEF Own, Others

LEMMA MovesKeepFields ==
    ASSUME PushInv, PushInv', Fields, NEW r \in Requests, HandlerMoves(r)
    PROVE  Fields'
<1>1. routed' \subseteq Emails /\ shutdown' \in BOOLEAN
      /\ server' \in {"serving", "draining", "exited"}
  BY DEF Fields, HandlerMoves
<1>2. DOMAIN post' = Requests /\ \A q \in Requests : post'[q] \subseteq HeaderNames
  BY HeadersHaveNames DEF Fields, HandlerMoves
<1>3. ASSUME NEW q \in Requests PROVE late'[q] \subseteq Indexes(q)
  <2>1. at[q] = "post" => index[q] \in Indexes(q)
    BY DEF PushInv, RequestInv, CountIsExact, Open
  <2>2. late[q] \subseteq Indexes(q) /\ DOMAIN late = Requests
    BY DEF Fields, PushInv, Shape
  <2>3. CASE late' = late
    BY <2>2, <2>3
  <2>4. CASE at[r] = "post" /\ late' = [late EXCEPT ![r] = late[r] \union {index[r]}]
    <3>1. CASE q = r
      BY <2>1, <2>2, <2>4, <3>1
    <3>2. CASE q # r
      BY <2>2, <2>4, <3>2
    <3> QED  BY <3>1, <3>2
  <2> QED  BY <2>3, <2>4 DEF HandlerMoves
<1>4. ASSUME NEW q \in Requests PROVE delivered'[q] <= Len(Entries[q])
  <2>1. CASE delivered'[q] = delivered[q]
    BY <2>1 DEF Fields
  <2>2. CASE delivered'[q] # delivered[q]
    <3>1. at'[q] = "entry"
      BY <2>2 DEF HandlerMoves
    <3>2. /\ delivered'[q] <= index'[q] - 1 /\ index'[q] \in 1..(Len(Entries[q]) + 1)
          /\ delivered'[q] \in Nat
      BY <3>1 DEF PushInv, Shape, RequestInv, CountIsExact, Open, Placed
    <3> QED  BY <3>2, EntriesOf
  <2> QED  BY <2>1, <2>2
<1> QED  BY <1>1, <1>2, <1>3, <1>4 DEF Fields

LEMMA FieldsStep == PushInv /\ PushInv' /\ Fields /\ [Next]_vars => Fields'
<1> SUFFICES ASSUME PushInv, PushInv', Fields, [Next]_vars PROVE Fields'
  OBVIOUS
<1>1. ASSUME NEW r \in Requests, Own(r) \/ Others(r) PROVE Fields'
  BY <1>1, HandlersMove, MovesKeepFields DEF PushInv
<1>2. ASSUME NEW r \in Requests, NEW i \in Indexes(r), LatePostTaken(r, i) PROVE Fields'
  <2>1. UNCHANGED <<routed, post, delivered, shutdown, server>>
    BY <1>2 DEF LatePostTaken, handlers
  <2>2. \A q \in Requests : late'[q] \subseteq late[q]
    BY <1>2 DEF LatePostTaken, PushInv, Shape
  <2> QED  BY <2>1, <2>2 DEF Fields
<1>3. ASSUME NEW e \in Emails, RoutesChange(e) PROVE Fields'
  <2>1. UNCHANGED <<post, delivered, late, shutdown, server>> /\ routed' \subseteq Emails
    BY <1>3 DEF RoutesChange, handlers, agents, Fields
  <2> QED  BY <2>1 DEF Fields
<1>4. CASE RequestShutdown \/ Drain \/ Exit \/ UNCHANGED vars
  <2>1. UNCHANGED <<routed, post, delivered, late>>
    BY <1>4 DEF RequestShutdown, Drain, Exit, ServerGoes, vars, handlers, agents
  <2>2. shutdown' \in BOOLEAN /\ server' \in {"serving", "draining", "exited"}
    BY <1>4 DEF RequestShutdown, Drain, Exit, ServerGoes, vars, Fields
  <2> QED  BY <2>1, <2>2 DEF Fields
<1> QED  BY <1>1, <1>2, <1>3, <1>4 DEF Next

\* The type invariant: no count runs past the entries there are (push.rs:342-414).
THEOREM PushTypes == Spec => []TypeOK
<1>1. Init => Fields
  <2> SUFFICES ASSUME Init PROVE Fields
    OBVIOUS
  <2>1. ASSUME NEW r \in Requests
        PROVE  post[r] = {} /\ late[r] = {} /\ delivered[r] <= Len(Entries[r])
    BY EntriesOf DEF Init
  <2>2. /\ routed \subseteq Emails /\ shutdown \in BOOLEAN /\ server = "serving"
        /\ DOMAIN post = Requests
    BY DEF Init
  <2> QED  BY <2>1, <2>2 DEF Fields
<1>2. PushInv /\ Fields => TypeOK
  <2> SUFFICES ASSUME PushInv, Fields PROVE TypeOK
    OBVIOUS
  <2>1. ASSUME NEW r \in Requests PROVE delivered[r] \in 0..Len(Entries[r])
    BY EntriesOf DEF PushInv, Shape, Fields
  <2> QED  BY <2>1 DEF PushInv, Shape, RequestInv, Placed, Fields, HeaderNames, TypeOK
<1>3. Spec => []Fields
  BY <1>1, FieldsStep, PushInvariant, PTL DEF Spec
<1> QED  BY <1>2, <1>3, PushInvariant, PTL
-----------------------------------------------------------------------------
(* The rate limiter, for any limit and any number of ticks in a second: what an *)
(* entry of the map says of the requests it has counted and of those before.    *)

\* The later the younger.
InOrder(a) == \A j, k \in Recent : j <= k => passed[a][j] <= passed[a][k]

\* An address without an entry has not been let through for a second.
ForgottenIsOver(a) == window[a] = NoEntry => passed[a][1] > Second

\* The window began with the count-th last request, the last came within a second
\* of that, and of the requests before the window the last second holds no more
\* than MaxPerSec.
WindowCounts(a) ==
    window[a] # NoEntry =>
        /\ passed[a][window[a].count] = IF window[a].age <= Second THEN window[a].age
                                                                   ELSE LongAgo
        /\ passed[a][1] + Second >= window[a].age
        /\ \A k \in Recent : k > window[a].count + MaxPerSec => passed[a][k] > Second

AddressInv(a) == InOrder(a) /\ ForgottenIsOver(a) /\ WindowCounts(a)

LimiterInv == /\ LimiterTypeOK
              /\ \A a \in Addresses : AddressInv(a)
              /\ RefusalIsEarned

LEMMA LimiterNumbers ==
    /\ MaxPerSec \in Nat /\ MaxPerSec >= 1 /\ Second \in Nat /\ Second >= 1
    /\ Stale = 2 * Second /\ Stale \in Nat /\ LongAgo = Second + 1 /\ LongAgo \in Nat
    /\ Recent = 1..(2 * MaxPerSec + 1) /\ Recent \subseteq Nat /\ 1 \in Recent
    /\ 1..MaxPerSec \subseteq Recent /\ 2 * MaxPerSec + 1 \in Recent
BY RateAssumption DEF Stale, LongAgo, Recent

LEMMA LimiterInitially == LimiterInit => LimiterInv
<1> SUFFICES ASSUME LimiterInit PROVE LimiterInv
  OBVIOUS
<1>1. LimiterTypeOK
  BY LimiterNumbers DEF LimiterInit, LimiterTypeOK
<1>2. \A a \in Addresses : AddressInv(a)
  <2> SUFFICES ASSUME NEW a \in Addresses PROVE AddressInv(a)
    OBVIOUS
  <2>1. window[a] = NoEntry /\ \A k \in Recent : passed[a][k] = LongAgo
    BY DEF LimiterInit
  <2> QED  BY <2>1, LimiterNumbers DEF AddressInv, InOrder, ForgottenIsOver, WindowCounts
<1>3. RefusalIsEarned
  BY DEF LimiterInit, RefusalIsEarned
<1> QED  BY <1>1, <1>2, <1>3 DEF LimiterInv

\* The sweep loses nothing: an entry it drops is older than any second.
LEMMA SweptInv ==
    ASSUME LimiterInv
    PROVE  /\ Swept \in [Addresses -> Windows \union {NoEntry}]
           /\ \A a \in Addresses :
                 /\ Swept[a] = NoEntry => passed[a][1] > Second
                 /\ Swept[a] # NoEntry => Swept[a] = window[a]
<1>1. Swept \in [Addresses -> Windows \union {NoEntry}]
  BY DEF LimiterInv, LimiterTypeOK, Swept
<1>2. ASSUME NEW a \in Addresses, Swept[a] = NoEntry PROVE passed[a][1] > Second
  <2>1. CASE window[a] = NoEntry
    BY <2>1 DEF LimiterInv, AddressInv, ForgottenIsOver
  <2>2. CASE window[a] # NoEntry
    <3>1. window[a].age \in Nat /\ passed[a][1] \in Nat
      BY <2>2, LimiterNumbers DEF LimiterInv, LimiterTypeOK, Windows, Ages
    <3>2. window[a].age > Stale
      BY <1>2, <2>2 DEF Swept
    <3>3. passed[a][1] + Second >= window[a].age
      BY <2>2 DEF LimiterInv, AddressInv, WindowCounts
    <3> QED  BY <3>1, <3>2, <3>3, LimiterNumbers
  <2> QED  BY <2>1, <2>2
<1>3. ASSUME NEW a \in Addresses, Swept[a] # NoEntry PROVE Swept[a] = window[a]
  BY <1>3 DEF Swept
<1> QED  BY <1>1, <1>2, <1>3

\* An address that is not asking keeps its invariant through a sweep.
LEMMA OthersInv ==
    ASSUME LimiterInv, NEW a \in Addresses, window'[a] = Swept[a], passed'[a] = passed[a]
    PROVE  AddressInv(a)'
BY SweptInv DEF LimiterInv, AddressInv, InOrder, ForgottenIsOver, WindowCounts

\* What a request let through does to the history.
LEMMA HistoryShifts ==
    ASSUME LimiterInv, NEW a \in Addresses, NEW e, Pass(a, e)
    PROVE  /\ passed' \in [Addresses -> [Recent -> 0..LongAgo]]
           /\ passed'[a][1] = 0
           /\ \A k \in Recent : k # 1 => k - 1 \in Recent /\ passed'[a][k] = passed[a][k - 1]
           /\ InOrder(a)'
<1>1. passed \in [Addresses -> [Recent -> 0..LongAgo]]
  BY DEF LimiterInv, LimiterTypeOK
<1>2. \A k \in Recent : k # 1 => k - 1 \in Recent
  BY LimiterNumbers
<1> DEFINE new == [k \in Recent |-> IF k = 1 THEN 0 ELSE passed[a][k - 1]]
<1>3. new \in [Recent -> 0..LongAgo]
  BY <1>1, <1>2, LimiterNumbers
<1>4. passed' = [passed EXCEPT ![a] = new]
  BY DEF Pass
<1>5. passed'[a] = new /\ passed' \in [Addresses -> [Recent -> 0..LongAgo]]
  BY <1>1, <1>3, <1>4
<1>6. ASSUME NEW j \in Recent, NEW k \in Recent, j <= k PROVE new[j] <= new[k]
  <2>1. CASE j = 1
    BY <1>3, <2>1, LimiterNumbers
  <2>2. CASE j # 1
    <3>1. k # 1 /\ j - 1 \in Recent /\ k - 1 \in Recent /\ j - 1 <= k - 1
      BY <1>2, <1>6, <2>2, LimiterNumbers
    <3> QED  BY <2>2, <3>1 DEF LimiterInv, AddressInv, InOrder
  <2> QED  BY <2>1, <2>2
<1>7. InOrder(a)'
  BY <1>5, <1>6, Zenon DEF InOrder
<1> QED  BY <1>2, <1>5, <1>7, LimiterNumbers

\* A request that opens a window.
LEMMA FreshInv ==
    ASSUME LimiterInv, NEW a \in Addresses, PassFirst(a) \/ PassNewWindow(a)
    PROVE  LimiterInv'
<1>0. Pass(a, Fresh) /\ (Swept[a] = NoEntry \/ Expired(a))
  BY DEF PassFirst, PassNewWindow
<1>1. Fresh \in Windows /\ Fresh # NoEntry
  BY LimiterNumbers, EntryAssumption DEF Fresh, Windows, Ages
<1>2. window' \in [Addresses -> Windows \union {NoEntry}] /\ window'[a] = Fresh
  BY <1>0, <1>1, SweptInv DEF Pass
<1>3. passed \in [Addresses -> [Recent -> 0..LongAgo]]
  BY DEF LimiterInv, LimiterTypeOK
<1>4. \A k \in Recent : k >= MaxPerSec => passed[a][k] > Second
  <2> SUFFICES ASSUME NEW k \in Recent, k >= MaxPerSec PROVE passed[a][k] > Second
    OBVIOUS
  <2>1. CASE Swept[a] = NoEntry
    <3>1. passed[a][1] > Second /\ passed[a][1] <= passed[a][k]
      BY <2>1, SweptInv, LimiterNumbers DEF LimiterInv, AddressInv, InOrder
    <3> QED  BY <1>3, <3>1, LimiterNumbers
  <2>2. CASE Expired(a)
    <3>1. window[a] # NoEntry /\ window[a] \in Windows /\ window[a].age > Second
      BY <2>2, SweptInv DEF Expired
    <3>2. passed[a][window[a].count] = LongAgo
      BY <3>1, LimiterNumbers DEF LimiterInv, AddressInv, WindowCounts, Windows, Ages
    <3>3. window[a].count \in Recent /\ window[a].count <= k
      BY <3>1, LimiterNumbers DEF Windows
    <3>4. passed[a][window[a].count] <= passed[a][k]
      BY <3>3 DEF LimiterInv, AddressInv, InOrder
    <3> QED  BY <1>3, <3>2, <3>4, LimiterNumbers
  <2> QED  BY <1>0, <2>1, <2>2
<1>5. AddressInv(a)'
  <2>1. ForgottenIsOver(a)'
    BY <1>1, <1>2 DEF ForgottenIsOver
  <2>2. passed'[a][1] = 0
    BY <1>0, HistoryShifts
  <2>3. \A k \in Recent : k > 1 + MaxPerSec => passed'[a][k] > Second
    <3> SUFFICES ASSUME NEW k \in Recent, k > 1 + MaxPerSec PROVE passed'[a][k] > Second
      OBVIOUS
    <3>1. k # 1 /\ k - 1 >= MaxPerSec
      BY LimiterNumbers
    <3>2. k - 1 \in Recent /\ passed'[a][k] = passed[a][k - 1]
      BY <1>0, <3>1, HistoryShifts
    <3> QED  BY <1>4, <3>1, <3>2
  <2>4. WindowCounts(a)'
    BY <1>2, <2>2, <2>3, LimiterNumbers DEF WindowCounts, Fresh
  <2> QED  BY <1>0, <2>1, <2>4, HistoryShifts DEF AddressInv
<1>6. \A b \in Addresses : b # a => AddressInv(b)'
  <2> SUFFICES ASSUME NEW b \in Addresses, b # a PROVE AddressInv(b)'
    OBVIOUS
  <2>1. window'[b] = Swept[b] /\ passed'[b] = passed[b]
    BY <1>0, <1>3, SweptInv DEF Pass
  <2> QED  BY <2>1, OthersInv
<1>7. refused' = {}
  BY <1>0 DEF Pass
<1>8. LimiterTypeOK'
  BY <1>0, <1>2, <1>7, HistoryShifts DEF LimiterTypeOK
<1> QED  BY <1>5, <1>6, <1>7, <1>8 DEF LimiterInv, RefusalIsEarned

\* A request counted in the window it falls into.
LEMMA CountedInv ==
    ASSUME LimiterInv, NEW a \in Addresses, PassCounted(a)
    PROVE  LimiterInv'
<1> DEFINE w == window[a]
           e == [w EXCEPT !.count = @ + 1]
<1>0. /\ w # NoEntry /\ w \in Windows /\ w.age <= Second /\ w.count < MaxPerSec
      /\ Pass(a, e)
  BY SweptInv DEF PassCounted, Current
<1>1. e \in Windows /\ e # NoEntry /\ e.age = w.age /\ e.count = w.count + 1
  BY <1>0, LimiterNumbers, EntryAssumption DEF Windows
<1>2. window' \in [Addresses -> Windows \union {NoEntry}] /\ window'[a] = e
  BY <1>0, <1>1, SweptInv DEF Pass
<1>3. passed \in [Addresses -> [Recent -> 0..LongAgo]]
  BY DEF LimiterInv, LimiterTypeOK
<1>4. /\ passed[a][w.count] = w.age
      /\ \A k \in Recent : k > w.count + MaxPerSec => passed[a][k] > Second
  BY <1>0 DEF LimiterInv, AddressInv, WindowCounts
<1>5. AddressInv(a)'
  <2>1. ForgottenIsOver(a)'
    BY <1>1, <1>2 DEF ForgottenIsOver
  <2>2. passed'[a][1] = 0 /\ passed'[a][e.count] = w.age
    <3>1. w.count + 1 \in Recent /\ w.count + 1 # 1 /\ (w.count + 1) - 1 = w.count
      BY <1>0, LimiterNumbers DEF Windows
    <3> QED  BY <1>0, <1>1, <1>4, <3>1, HistoryShifts
  <2>3. \A k \in Recent : k > e.count + MaxPerSec => passed'[a][k] > Second
    <3> SUFFICES ASSUME NEW k \in Recent, k > e.count + MaxPerSec
                 PROVE  passed'[a][k] > Second
      OBVIOUS
    <3>1. k # 1 /\ k - 1 > w.count + MaxPerSec
      BY <1>0, <1>1, LimiterNumbers DEF Windows
    <3>2. k - 1 \in Recent /\ passed'[a][k] = passed[a][k - 1]
      BY <1>0, <3>1, HistoryShifts
    <3> QED  BY <1>4, <3>1, <3>2
  <2>4. WindowCounts(a)'
    <3>1. w.age \in Nat
      BY <1>0, LimiterNumbers DEF Windows, Ages
    <3> QED  BY <1>0, <1>1, <1>2, <2>2, <2>3, <3>1, LimiterNumbers DEF WindowCounts
  <2> QED  BY <1>0, <2>1, <2>4, HistoryShifts DEF AddressInv
<1>6. \A b \in Addresses : b # a => AddressInv(b)'
  <2> SUFFICES ASSUME NEW b \in Addresses, b # a PROVE AddressInv(b)'
    OBVIOUS
  <2>1. window'[b] = Swept[b] /\ passed'[b] = passed[b]
    BY <1>0, <1>3, SweptInv DEF Pass
  <2> QED  BY <2>1, OthersInv
<1>7. refused' = {}
  BY <1>0 DEF Pass
<1>8. LimiterTypeOK'
  BY <1>0, <1>2, <1>7, HistoryShifts DEF LimiterTypeOK
<1> QED  BY <1>5, <1>6, <1>7, <1>8 DEF LimiterInv, RefusalIsEarned

\* A refusal: the window it falls into is full, and not over.
LEMMA RefuseKeepsInv ==
    ASSUME LimiterInv, NEW a \in Addresses, Refuse(a)
    PROVE  LimiterInv'
<1>1. /\ window[a] # NoEntry /\ window[a] \in Windows
      /\ window[a].age <= Second /\ window[a].count >= MaxPerSec
      /\ window' = Swept /\ passed' = passed /\ refused' = {a}
  BY SweptInv DEF Refuse, Current
<1>2. LimiterTypeOK'
  BY <1>1, SweptInv DEF LimiterInv, LimiterTypeOK
<1>3. \A b \in Addresses : AddressInv(b)'
  BY <1>1, OthersInv
<1>4. RefusalIsEarned'
  <2>1. window[a].count = MaxPerSec
    BY <1>1, LimiterNumbers DEF Windows
  <2>2. passed[a][MaxPerSec] = window[a].age
    BY <1>1, <2>1 DEF LimiterInv, AddressInv, WindowCounts
  <2> QED  BY <1>1, <2>2 DEF RefusalIsEarned
<1> QED  BY <1>2, <1>3, <1>4 DEF LimiterInv

\* Time passes for the window and for its requests alike.
LEMMA TickInv ==
    ASSUME LimiterInv, Tick
    PROVE  LimiterInv'
<1>1. /\ window \in [Addresses -> Windows \union {NoEntry}]
      /\ passed \in [Addresses -> [Recent -> 0..LongAgo]]
  BY DEF LimiterInv, LimiterTypeOK
<1>2. ASSUME NEW a \in Addresses, NEW k \in Recent
      PROVE  /\ passed'[a][k] = IF passed[a][k] < LongAgo THEN passed[a][k] + 1 ELSE LongAgo
             /\ passed[a][k] \in 0..LongAgo /\ passed'[a][k] \in 0..LongAgo
  BY <1>1, LimiterNumbers DEF Tick
<1>3. ASSUME NEW a \in Addresses
      PROVE  /\ window[a] = NoEntry => window'[a] = NoEntry
             /\ window[a] # NoEntry =>
                   /\ window[a] \in Windows /\ window'[a] \in Windows
                   /\ window'[a] # NoEntry
                   /\ window'[a].count = window[a].count
                   /\ window'[a].age = IF window[a].age <= Stale THEN window[a].age + 1
                                                                 ELSE window[a].age
  <2>1. window'[a] = IF window[a] = NoEntry THEN NoEntry
                     ELSE [window[a] EXCEPT !.age = Older(@)]
    BY DEF Tick
  <2>2. CASE window[a] # NoEntry
    <3>1. window[a] \in Windows /\ window[a].age \in 0..(Stale + 1)
      BY <1>1, <2>2 DEF Windows, Ages
    <3>2. Older(window[a].age) \in Ages
      BY <3>1, LimiterNumbers DEF Older, Ages
    <3>3. window'[a] = [window[a] EXCEPT !.age = Older(window[a].age)]
      BY <2>1, <2>2
    <3>4. /\ window'[a] \in Windows /\ window'[a].count = window[a].count
          /\ window'[a].age = Older(window[a].age)
      BY <3>1, <3>2, <3>3 DEF Windows
    <3> QED  BY <2>2, <3>1, <3>4, EntryAssumption DEF Older
  <2> QED  BY <2>1, <2>2
<1>4. LimiterTypeOK'
  <2>1. window' \in [Addresses -> Windows \union {NoEntry}]
    <3>1. window' = [a \in Addresses |-> window'[a]]
      BY DEF Tick
    <3> QED  BY <1>3, <3>1
  <2>2. passed' \in [Addresses -> [Recent -> 0..LongAgo]]
    BY <1>1, LimiterNumbers DEF Tick
  <2> QED  BY <2>1, <2>2 DEF Tick, LimiterTypeOK
<1>5. ASSUME NEW a \in Addresses PROVE AddressInv(a)'
  <2>1. InOrder(a)'
    <3> SUFFICES ASSUME NEW j \in Recent, NEW k \in Recent, j <= k
                 PROVE  passed'[a][j] <= passed'[a][k]
      BY DEF InOrder
    <3>1. passed[a][j] <= passed[a][k]
      BY DEF LimiterInv, AddressInv, InOrder
    <3> QED  BY <1>2, <3>1, LimiterNumbers
  <2>2. ForgottenIsOver(a)'
    <3> SUFFICES ASSUME window'[a] = NoEntry PROVE passed'[a][1] > Second
      BY DEF ForgottenIsOver
    <3>1. passed[a][1] > Second
      BY <1>3 DEF LimiterInv, AddressInv, ForgottenIsOver
    <3> QED  BY <1>2, <3>1, LimiterNumbers
  <2>3. WindowCounts(a)'
    <3> SUFFICES ASSUME window'[a] # NoEntry
                 PROVE  /\ passed'[a][window'[a].count] =
                              IF window'[a].age <= Second THEN window'[a].age ELSE LongAgo
                        /\ passed'[a][1] + Second >= window'[a].age
                        /\ \A k \in Recent :
                              k > window'[a].count + MaxPerSec => passed'[a][k] > Second
      BY DEF WindowCounts
    <3>0. /\ window[a] # NoEntry /\ window[a].count \in Recent
          /\ window[a].age \in 0..(Stale + 1)
      BY <1>3, LimiterNumbers DEF Windows, Ages
    <3>1. /\ passed[a][window[a].count] = IF window[a].age <= Second THEN window[a].age
                                                                     ELSE LongAgo
          /\ passed[a][1] + Second >= window[a].age
          /\ \A k \in Recent : k > window[a].count + MaxPerSec => passed[a][k] > Second
      BY <3>0 DEF LimiterInv, AddressInv, WindowCounts
    <3>2. /\ window'[a].count = window[a].count
          /\ window'[a].age = IF window[a].age <= Stale THEN window[a].age + 1
                                                        ELSE window[a].age
      BY <1>3, <3>0
    <3>3. passed'[a][window[a].count] =
             IF window'[a].age <= Second THEN window'[a].age ELSE LongAgo
      <4>1. passed'[a][window[a].count] = IF passed[a][window[a].count] < LongAgo
                                          THEN passed[a][window[a].count] + 1 ELSE LongAgo
        BY <1>2, <3>0
      <4> QED  BY <3>0, <3>1, <3>2, <4>1, LimiterNumbers
    <3>4. passed'[a][1] + Second >= window'[a].age
      <4>1. /\ passed'[a][1] = IF passed[a][1] < LongAgo THEN passed[a][1] + 1 ELSE LongAgo
            /\ passed[a][1] \in 0..LongAgo
        BY <1>2, LimiterNumbers
      <4> QED  BY <3>0, <3>1, <3>2, <4>1, LimiterNumbers
    <3>5. \A k \in Recent : k > window'[a].count + MaxPerSec => passed'[a][k] > Second
      BY <1>2, <3>1, <3>2, LimiterNumbers
    <3> QED  BY <3>2, <3>3, <3>4, <3>5
  <2> QED  BY <2>1, <2>2, <2>3 DEF AddressInv
<1> QED  BY <1>4, <1>5 DEF LimiterInv, RefusalIsEarned, Tick

LEMMA LimiterStep == LimiterInv /\ [LimiterNext]_limiterVars => LimiterInv'
<1> SUFFICES ASSUME LimiterInv, [LimiterNext]_limiterVars PROVE LimiterInv'
  OBVIOUS
<1>1. CASE Tick
  BY <1>1, TickInv
<1>2. ASSUME NEW a \in Addresses, Admitted(a) PROVE LimiterInv'
  BY <1>2, FreshInv, CountedInv DEF Admitted
<1>3. ASSUME NEW a \in Addresses, Limited(a) PROVE LimiterInv'
  BY <1>3, RefuseKeepsInv DEF Limited
<1>4. CASE UNCHANGED limiterVars
  <2>1. UNCHANGED <<window, passed, refused>>
    BY <1>4 DEF limiterVars
  <2>2. LimiterTypeOK' /\ RefusalIsEarned'
    BY <2>1 DEF LimiterInv, LimiterTypeOK, RefusalIsEarned
  <2>3. \A a \in Addresses : AddressInv(a)'
    BY <2>1 DEF LimiterInv, AddressInv, InOrder, ForgottenIsOver, WindowCounts
  <2> QED  BY <2>2, <2>3 DEF LimiterInv
<1> QED  BY <1>1, <1>2, <1>3, <1>4 DEF LimiterNext

\* The invariant of the limiter's map and of the history it is judged by.
THEOREM LimiterInvariant == LimiterSpec => []LimiterInv
<1> QED  BY LimiterInitially, LimiterStep, PTL DEF LimiterSpec

\* push.rs:117-135: never more than twice the limit in a second, for any limit.
LEMMA InvMeansTwice == LimiterInv => TwiceTheLimit
<1> SUFFICES ASSUME LimiterInv, NEW a \in Addresses
             PROVE  passed[a][2 * MaxPerSec + 1] > Second
  BY DEF TwiceTheLimit
<1>0. passed[a][1] \in Nat /\ passed[a][2 * MaxPerSec + 1] \in Nat
  BY LimiterNumbers DEF LimiterInv, LimiterTypeOK
<1>1. CASE window[a] = NoEntry
  <2>1. passed[a][1] > Second /\ passed[a][1] <= passed[a][2 * MaxPerSec + 1]
    BY <1>1, LimiterNumbers DEF LimiterInv, AddressInv, ForgottenIsOver, InOrder
  <2> QED  BY <1>0, <2>1, LimiterNumbers
<1>2. CASE window[a] # NoEntry
  <2>1. window[a].count \in 1..MaxPerSec
    BY <1>2 DEF LimiterInv, LimiterTypeOK, Windows
  <2>2. 2 * MaxPerSec + 1 > window[a].count + MaxPerSec
    BY <2>1, LimiterNumbers
  <2> QED  BY <1>2, <2>2, LimiterNumbers DEF LimiterInv, AddressInv, WindowCounts
<1> QED  BY <1>1, <1>2

-----------------------------------------------------------------------------
(* The layers in front of the handler, for any addresses, lists and sites. *)

\* Whatever is asked of the server, its limiter does what the limiter does.
LEMMA DoorStepIsLimiterStep == [DoorNext]_<<limiterVars, doorVars>> => [LimiterNext]_limiterVars
<1> SUFFICES ASSUME [DoorNext]_<<limiterVars, doorVars>> PROVE [LimiterNext]_limiterVars
  OBVIOUS
<1>1. CASE Tick
  BY <1>1 DEF LimiterNext
<1>2. ASSUME NEW r \in Calls, NEW a \in Addresses, Passes(a, r) PROVE LimiterNext
  BY <1>2 DEF Passes, TooMany, TurnedAway, Webhook, LimiterNext
<1>3. ASSUME NEW r \in Calls, NEW a \in Addresses, AtAdmin(a, r) PROVE UNCHANGED limiterVars
  BY <1>3 DEF AtAdmin, Barred, Admin, CreateRoute
<1>4. ASSUME NEW r \in Calls, AtSites(r) PROVE UNCHANGED limiterVars
  BY <1>4 DEF AtSites, NoSite, Redirect, Static, Proxy, AtSite
<1> QED  BY <1>1, <1>2, <1>3, <1>4 DEF DoorNext

\* The server implements the limiter: the layers around it neither bypass it for
\* the webhook route nor count what is not for it (push.rs:146-173).
THEOREM DoorImplementsLimiter == DoorSpec => LimiterSpec
<1>1. DoorInit => LimiterInit
  BY DEF DoorInit
<1> QED  BY <1>1, DoorStepIsLimiterStep, PTL DEF DoorSpec, LimiterSpec

\* push.rs:117-135: never more than twice the limit in a second, for any limit.
THEOREM NeverMoreThanTwice == DoorSpec => []TwiceTheLimit
<1> QED  BY DoorImplementsLimiter, LimiterInvariant, InvMeansTwice, PTL

\* push.rs:130-132: a refusal follows MaxPerSec requests let through in the second
\* before it.
THEOREM RefusedForCause == DoorSpec => []RefusalIsEarned
<1>1. LimiterInv => RefusalIsEarned
  BY DEF LimiterInv
<1> QED  BY <1>1, DoorImplementsLimiter, LimiterInvariant, PTL

\* The guard at prefix 0 is what makes the mask one of the first p bits.
LEMMA MaskIsPrefix ==
    ASSUME NEW w \in Nat \ {0}, NEW p \in 0..w
    PROVE  Mask(w, p) = 1..p
<1>1. \A i : (i \in 1..w /\ i + (w - p) \in 1..w) <=> i \in 1..p
  <2> SUFFICES ASSUME NEW i \in Nat
               PROVE  (i \in 1..w /\ i + (w - p) \in 1..w) <=> i \in 1..p
    OBVIOUS
  <2> QED  OBVIOUS
<1> QED  BY <1>1 DEF Mask, OnesShifted

LEMMA MatchIsWithin ==
    ASSUME NEW ip, IsIP(ip), NEW t, Parses(t), IsIP(t.net),
           t.prefix \in 0..255 \union {NoPrefix, BadPrefix}
    PROVE  IpMatches(ip, Network(t)) <=> Within(ip, t)
<1> DEFINE p == IF t.prefix = NoPrefix THEN Width[t.net.family] ELSE t.prefix
<1>1. Width[t.net.family] \in Nat \ {0} /\ p \in 0..Width[t.net.family]
  BY WidthAssumption DEF Parses, IsIP
<1>2. Network(t).net = t.net /\ Network(t).prefix = p
  BY DEF Network
<1>3. Mask(Width[t.net.family], p) = 1..p
  BY <1>1, MaskIsPrefix
<1>4. ip.family = t.net.family =>
        (IpMatches(ip, Network(t)) <=>
            ip.bits \intersect (1..p) = t.net.bits \intersect (1..p))
  BY <1>2, <1>3 DEF IpMatches
<1>5. ip.family = t.net.family =>
        (Within(ip, t) <=> \A i \in 1..p : i \in ip.bits <=> i \in t.net.bits)
  BY DEF Within
<1>6. (ip.bits \intersect (1..p) = t.net.bits \intersect (1..p))
        <=> \A i \in 1..p : i \in ip.bits <=> i \in t.net.bits
  OBVIOUS
<1>7. CASE ip.family # t.net.family
  BY <1>2, <1>7 DEF IpMatches, Within
<1> QED  BY <1>4, <1>5, <1>6, <1>7

\* So the lists mean what their entries say.
LEMMA ListsMean ==
    ASSUME NEW list, NEW ip, IsIP(ip),
           \A t \in list : /\ t.net # NoIp => IsIP(t.net)
                           /\ t.prefix \in 0..255 \union {NoPrefix, BadPrefix}
    PROVE  /\ Networks(list) = {} <=> NoList(list)
           /\ Listed(ip, list) <=> OnList(ip, list)
<1>1. Networks(list) = {} <=> NoList(list)
  BY DEF Networks, NoList
<1>2. Listed(ip, list) <=> \E t \in list : Parses(t) /\ IpMatches(ip, Network(t))
  BY DEF Listed, Networks
<1>3. ASSUME NEW t \in list, Parses(t) PROVE IpMatches(ip, Network(t)) <=> Within(ip, t)
  BY <1>3, MatchIsWithin DEF Parses
<1>4. \A t \in list : Within(ip, t) => Parses(t)
  BY DEF Within
<1> QED  BY <1>1, <1>2, <1>3, <1>4 DEF OnList

LEMMA ListsOfConfigs ==
    ASSUME config \in Configs, NEW a \in Addresses
    PROVE  /\ Allows(config.allowed, a) <=>
                 NoList(config.allowed) \/ OnList(a, config.allowed)
           /\ Allows(config.admin, a) <=> NoList(config.admin) \/ OnList(a, config.admin)
           /\ Blocks(config.blacklist, a) <=> OnList(a, config.blacklist)
BY ListAssumption, AddressAssumption, ListsMean DEF Allows, Blocks

LEMMA SingletonSeq == ASSUME NEW S, NEW s \in Seq(S), Len(s) = 1 PROVE s = <<s[1]>>
<1>1. s[1] \in S
  OBVIOUS
<1>2. <<s[1]>> \in Seq(S) /\ Len(<<s[1]>>) = 1 /\ <<s[1]>>[1] = s[1]
  BY <1>1
<1>3. \A i \in 1..Len(s) : s[i] = <<s[1]>>[i]
  BY <1>2
<1> QED  BY <1>2, <1>3, SeqEqual

LEMMA NameOfShort ==
    ASSUME NEW S, NEW host \in Seq(S), Len(host) \in {1, 2}
    PROVE  NameOf(host) = <<host[1]>>
<1>1. CASE Len(host) = 1
  BY <1>1, SingletonSeq DEF NameOf
<1>2. CASE Len(host) = 2
  <2>1. \A i \in 1..1 : host[i] \in S
    BY <1>2
  <2>2. SubSeq(host, 1, 1) \in Seq(S) /\ Len(SubSeq(host, 1, 1)) = 1
        /\ SubSeq(host, 1, 1)[1] = host[1]
    BY <2>1, SubSeqProperties
  <2>3. SubSeq(host, 1, 1) = <<host[1]>>
    BY <2>2, SingletonSeq
  <2> QED  BY <1>2, <2>3 DEF NameOf
<1> QED  BY <1>1, <1>2

\* A host text that means a name asks for it.
LEMMA MeansAsked ==
    ASSUME NEW r \in Calls, NEW name, Means(r, name), name # ""
    PROVE  Asked(r) = <<name>>
<1>1. NameOf(r.host) = <<name>>
  BY CallAssumption, NameOfShort DEF Means
<1>2. <<name>> # <<"">>
  OBVIOUS
<1> QED  BY <1>1, <1>2 DEF Asked, Means

DoorInv == /\ config \in Configs
           /\ ListsDecide /\ SiteIsNamed

LEMMA AnswerSays ==
    ASSUME NEW a, NEW r, NEW to, NEW site, NEW status,
           Answer(a, r, to, site, status)
    PROVE  /\ reply'.call = r /\ reply'.from = a /\ reply'.to = to
           /\ reply'.site = site /\ reply'.status = status
BY DEF Answer

LEMMA RefusedSays ==
    ASSUME NEW a, NEW r, NEW status, Refused(a, r, status)
    PROVE  /\ reply'.call = r /\ reply'.from = a /\ reply'.to = "nobody"
           /\ reply'.site = 0 /\ reply'.status = status
BY AnswerSays DEF Refused

\* What a request is answered establishes all three, whatever was answered before.
LEMMA WebhookAnswers ==
    ASSUME DoorInv, UNCHANGED config, NEW r \in Calls, NEW a \in Addresses, Passes(a, r)
    PROVE  DoorInv'
<1>1. ASSUME Webhook(a, r)
      PROVE  /\ reply'.call = r /\ reply'.from = a /\ reply'.status # "forbidden"
             /\ reply'.to \in {"nobody", "webhook"}
  <2>1. \/ Refused(a, r, "too large") \/ Refused(a, r, "bad request")
        \/ Answer(a, r, "webhook", 0, "ok")
    BY <1>1 DEF Webhook
  <2>2. CASE Refused(a, r, "too large") \/ Refused(a, r, "bad request")
    <3>1. /\ reply'.call = r /\ reply'.from = a /\ reply'.to = "nobody"
          /\ reply'.status \in {"too large", "bad request"}
      <4>1. CASE Refused(a, r, "too large")
        BY <4>1, RefusedSays
      <4>2. CASE Refused(a, r, "bad request")
        BY <4>2, RefusedSays
      <4> QED  BY <2>2, <4>1, <4>2
    <3> QED  BY <3>1
  <2>3. CASE Answer(a, r, "webhook", 0, "ok")
    BY <2>3, AnswerSays
  <2> QED  BY <2>1, <2>2, <2>3
<1>2. ASSUME TooMany(a, r) \/ TurnedAway(a, r)
      PROVE  /\ reply'.call = r /\ reply'.from = a /\ reply'.to = "nobody"
             /\ reply'.status = IF TooMany(a, r) THEN "too many requests" ELSE "forbidden"
  <2>1. CASE TooMany(a, r)
    <3>1. Refused(a, r, "too many requests")
      BY <2>1 DEF TooMany
    <3> QED  BY <2>1, <3>1, RefusedSays
  <2>2. CASE ~TooMany(a, r)
    <3>1. Refused(a, r, "forbidden")
      BY <1>2, <2>2 DEF TurnedAway
    <3> QED  BY <2>2, <3>1, RefusedSays
  <2> QED  BY <2>1, <2>2
<1>3. r.door = "webhook" /\ reply'.call = r /\ reply'.from = a
  <2>1. r.door = "webhook"
    BY DEF Passes, TooMany, TurnedAway, Webhook
  <2> QED  BY <1>1, <1>2, <2>1 DEF Passes
<1>4. ListsDecide'
  <2>1. CASE TooMany(a, r)
    BY <1>2, <2>1 DEF ListsDecide
  <2>2. CASE TurnedAway(a, r) /\ ~TooMany(a, r)
    <3>1. reply'.status = "forbidden"
      BY <1>2, <2>2
    <3>2. \/ ~NoList(config.allowed) /\ ~OnList(a, config.allowed)
          \/ OnList(a, config.blacklist)
      BY <2>2, ListsOfConfigs DEF TurnedAway, DoorInv
    <3> QED  BY <1>3, <3>1, <3>2 DEF ListsDecide, NoList, OnList, Within, Parses
  <2>3. CASE Webhook(a, r)
    <3>1. reply'.status # "forbidden"
      BY <1>1, <2>3
    <3>2. ~(\/ ~NoList(config.allowed) /\ ~OnList(a, config.allowed)
            \/ OnList(a, config.blacklist))
      BY <2>3, ListsOfConfigs DEF Webhook, DoorInv
    <3> QED  BY <1>3, <3>1, <3>2 DEF ListsDecide, NoList, OnList, Within, Parses
  <2> QED  BY <2>1, <2>2, <2>3 DEF Passes
<1>5. SiteIsNamed'
  BY <1>3 DEF SiteIsNamed
<1> QED  BY <1>4, <1>5 DEF DoorInv

LEMMA AdminAnswers ==
    ASSUME DoorInv, UNCHANGED config, NEW r \in Calls, NEW a \in Addresses, AtAdmin(a, r)
    PROVE  DoorInv'
<1>1. /\ r.door \in {"admin", "create"} /\ reply'.call = r /\ reply'.from = a
      /\ (reply'.status = "forbidden") <=> ~Allows(config.admin, a)
  <2>1. CASE Barred(a, r)
    <3>1. r.door \in {"admin", "create"} /\ ~Allows(config.admin, a)
          /\ Refused(a, r, "forbidden")
      BY <2>1 DEF Barred
    <3> QED  BY <3>1, RefusedSays
  <2>2. CASE Admin(a, r)
    <3>1. r.door = "admin" /\ Allows(config.admin, a) /\ Answer(a, r, "admin", 0, "ok")
      BY <2>2 DEF Admin
    <3> QED  BY <3>1, AnswerSays
  <2>3. CASE CreateRoute(a, r)
    <3>1. /\ r.door = "create" /\ Allows(config.admin, a)
          /\ \/ Answer(a, r, "admin", 0, "ok")
             \/ Refused(a, r, "too large")
             \/ Refused(a, r, "bad request")
      BY <2>3 DEF CreateRoute
    <3>2. /\ reply'.call = r /\ reply'.from = a
          /\ reply'.status \in {"ok", "too large", "bad request"}
      <4>1. CASE Answer(a, r, "admin", 0, "ok")
        BY <4>1, AnswerSays
      <4>2. CASE Refused(a, r, "too large")
        BY <4>2, RefusedSays
      <4>3. CASE Refused(a, r, "bad request")
        BY <4>3, RefusedSays
      <4> QED  BY <3>1, <4>1, <4>2, <4>3
    <3> QED  BY <3>1, <3>2
  <2> QED  BY <2>1, <2>2, <2>3 DEF AtAdmin
<1>2. ListsDecide'
  <2>1. Allows(config.admin, a) <=> NoList(config.admin) \/ OnList(a, config.admin)
    BY ListsOfConfigs DEF DoorInv
  <2> QED  BY <1>1, <2>1 DEF ListsDecide, NoList, OnList, Within, Parses
<1>3. SiteIsNamed'
  BY <1>1 DEF SiteIsNamed
<1> QED  BY <1>2, <1>3 DEF DoorInv

LEMMA SiteAnswers ==
    ASSUME DoorInv, UNCHANGED config, NEW r \in Calls, AtSites(r)
    PROVE  DoorInv'
<1>1. ASSUME NEW i \in First(r), Redirect(r, i) \/ Static(r, i) \/ Proxy(r, i)
      PROVE  /\ reply'.call = r /\ reply'.site = i
             /\ reply'.to \in {"redirect", "static", "proxy"}
  <2>1. CASE Redirect(r, i)
    BY <2>1, AnswerSays DEF Redirect
  <2>2. CASE Static(r, i)
    BY <2>2, AnswerSays DEF Static
  <2>3. CASE Proxy(r, i)
    <3>1. PICK status : Answer(NoIp, r, "proxy", i, status)
      BY <2>3 DEF Proxy
    <3> QED  BY <3>1, AnswerSays
  <2> QED  BY <1>1, <2>1, <2>2, <2>3
<1>2. ASSUME NoSite(r)
      PROVE  /\ Named(r) = {} /\ reply'.call = r /\ reply'.site = 0
             /\ reply'.to = "nobody" /\ reply'.status = "not found"
  BY <1>2 DEF NoSite, Refused, Answer
<1>3. r.door = "site" /\ reply'.call = r
  BY <1>1, <1>2 DEF AtSites
<1>4. ListsDecide'
  BY <1>3 DEF ListsDecide
<1>5. SiteIsNamed'
  <2> DEFINE name == r.host[1]
  <2> SUFFICES ASSUME Means(r, name), name # ""
               PROVE  \/ /\ reply'.site \in DOMAIN config.sites /\ Bears(reply'.site, name)
                         /\ \A i \in DOMAIN config.sites : Bears(i, name) => reply'.site <= i
                      \/ /\ reply'.site = 0 /\ reply'.status = "not found"
                         /\ \A i \in DOMAIN config.sites : ~Bears(i, name)
    BY <1>3 DEF SiteIsNamed, Bears, Means, Usable
  <2>1. Named(r) = {i \in DOMAIN config.sites : Bears(i, name)}
    BY MeansAsked DEF Named, Bears
  <2>2. CASE NoSite(r)
    BY <1>2, <2>1, <2>2
  <2>3. ASSUME NEW i \in First(r), Redirect(r, i) \/ Static(r, i) \/ Proxy(r, i)
        PROVE  /\ reply'.site \in DOMAIN config.sites /\ Bears(reply'.site, name)
               /\ \A j \in DOMAIN config.sites : Bears(j, name) => reply'.site <= j
    BY <1>1, <2>1, <2>3 DEF First
  <2> QED  BY <2>2, <2>3 DEF AtSites
<1> QED  BY <1>4, <1>5 DEF DoorInv

LEMMA DoorStep == DoorInv /\ [DoorNext]_<<limiterVars, doorVars>> => DoorInv'
<1> SUFFICES ASSUME DoorInv, [DoorNext]_<<limiterVars, doorVars>> PROVE DoorInv'
  OBVIOUS
<1>1. ASSUME UNCHANGED <<config, reply>> PROVE DoorInv'
  BY <1>1 DEF DoorInv, ListsDecide, SiteIsNamed, Bears
<1>2. CASE DoorNext
  BY <1>1, <1>2, WebhookAnswers, AdminAnswers, SiteAnswers DEF DoorNext
<1>3. CASE UNCHANGED <<limiterVars, doorVars>>
  BY <1>1, <1>3 DEF doorVars
<1> QED  BY <1>2, <1>3

\* What an answer says agrees with the settings and the request it is an answer to
\* (push.rs:146-173, admin.rs:77, vhost.rs:210-251).
THEOREM DoorInvariant == DoorSpec => []DoorInv
<1>1. DoorInit => DoorInv
  BY DEF DoorInit, DoorInv, ListsDecide, SiteIsNamed
<1> QED  BY <1>1, DoorStep, PTL DEF DoorSpec

\* security.rs:23-50, push.rs:62-100, admin.rs:77: for any width, any prefix and any
\* list, who is turned away is who the lists do not admit.
THEOREM ListsAreReadRight == DoorSpec => []ListsDecide
<1>1. DoorInv => ListsDecide
  BY DEF DoorInv
<1> QED  BY <1>1, DoorInvariant, PTL

\* vhost.rs:210-251: the first usable site of the name asked for answers.
THEOREM NamedSiteAnswers == DoorSpec => []SiteIsNamed
<1>1. DoorInv => SiteIsNamed
  BY DEF DoorInv
<1> QED  BY <1>1, DoorInvariant, PTL
=============================================================================
