---------------------------- MODULE RateLimiter ----------------------------
(***************************************************************************)
(* The per-address rate limiter of push mode (src/src/push.rs, check): a   *)
(* map from client address to the start of its window and the number of    *)
(* requests let through in it, behind one mutex, so a check is one step.   *)
(* Time is kept relative to now: an entry has an age in ticks, one second  *)
(* is Second ticks, and "later than" is strict, as in the code.            *)
(***************************************************************************)
EXTENDS Naturals

CONSTANTS
    Addresses,      \* client addresses
    MaxPerSec,      \* max_per_sec (0 would switch the limiter off)
    Second,         \* ticks in 1000 ms: the length of a window
    NoEntry         \* an address without an entry in the map

ASSUME RateAssumption == MaxPerSec \in Nat \ {0} /\ Second \in Nat \ {0}

VARIABLES
    window,     \* window[a]: [age, count] or NoEntry
    passed,     \* history: passed[a][k], the age of the k-th last request of a
                \* that was let through
    refused     \* history: the address refused in this step, as a set

limiterVars == <<window, passed, refused>>

Stale == 2 * Second                  \* 2000 ms
Ages == 0..(Stale + 1)               \* Stale + 1 stands for every greater age
Older(age) == IF age <= Stale THEN age + 1 ELSE age

(* The history goes back as far as the properties look.  LongAgo is the age of a
   request more than a second old, and of one that never was. *)
Recent == 1..(2 * MaxPerSec + 1)
LongAgo == Second + 1

Windows == [age : Ages, count : 1..MaxPerSec]
ASSUME EntryAssumption == NoEntry \notin Windows

LimiterTypeOK ==
    /\ window \in [Addresses -> Windows \union {NoEntry}]
    /\ passed \in [Addresses -> [Recent -> 0..LongAgo]]
    /\ refused \in SUBSET Addresses

LimiterInit ==
    /\ window = [a \in Addresses |-> NoEntry]
    /\ passed = [a \in Addresses |-> [k \in Recent |-> LongAgo]]
    /\ refused = {}

\* A tick of the clock.
Tick ==
    /\ window' = [a \in Addresses |->
                    IF window[a] = NoEntry THEN NoEntry
                    ELSE [window[a] EXCEPT !.age = Older(@)]]
    /\ passed' = [a \in Addresses |-> [k \in Recent |->
                    IF passed[a][k] < LongAgo THEN passed[a][k] + 1 ELSE LongAgo]]
    /\ refused' = {}

\* Entries that are stale now are dropped, whoever asks.
Swept == [a \in Addresses |->
            IF window[a] # NoEntry /\ window[a].age > Stale THEN NoEntry ELSE window[a]]

\* The request of a is let through, and its entry becomes e.
Pass(a, e) ==
    /\ window' = [Swept EXCEPT ![a] = e]
    /\ passed' = [passed EXCEPT ![a] =
                    [k \in Recent |-> IF k = 1 THEN 0 ELSE passed[a][k - 1]]]
    /\ refused' = {}

Fresh == [age |-> 0, count |-> 1]
Expired(a) == Swept[a] # NoEntry /\ Swept[a].age > Second
Current(a) == Swept[a] # NoEntry /\ Swept[a].age <= Second

PassFirst(a) == Swept[a] = NoEntry /\ Pass(a, Fresh)

\* A bug: the new window starts with a full count.
PassNewWindowFull(a) ==
    Expired(a) /\ Pass(a, [age |-> 0, count |-> MaxPerSec])

\* More than a second after its start, the window is replaced.
PassNewWindow(a) == Expired(a) /\ Pass(a, Fresh)

\* A bug: one more than the limit.
PassCountedLoose(a) ==
    /\ Current(a)
    /\ Swept[a].count <= MaxPerSec
    /\ Pass(a, [Swept[a] EXCEPT !.count = @ + 1])

PassCounted(a) ==
    /\ Current(a)
    /\ Swept[a].count < MaxPerSec
    /\ Pass(a, [Swept[a] EXCEPT !.count = @ + 1])

Refuse(a) ==
    /\ Current(a)
    /\ Swept[a].count >= MaxPerSec
    /\ window' = Swept
    /\ refused' = {a}
    /\ UNCHANGED passed

\* check() says yes, or no.
Admitted(a) == PassFirst(a) \/ PassNewWindow(a) \/ PassCounted(a)
Limited(a) == Refuse(a)

LimiterNext == Tick \/ \E a \in Addresses : Admitted(a) \/ Limited(a)

LimiterSpec == LimiterInit /\ [][LimiterNext]_limiterVars

-----------------------------------------------------------------------------
(* Properties. *)

\* What the windows bound: a burst at the end of one and another at the start
\* of the next, never more, however the sweep of stale entries falls.  Of
\* 2 * MaxPerSec + 1 requests let through, the first is more than a second older
\* than the last, and than now.
TwiceTheLimit == \A a \in Addresses : passed[a][2 * MaxPerSec + 1] > Second

\* Nobody is refused on account of requests older than a second, or of requests
\* that were refused themselves: MaxPerSec were let through in the last second.
RefusalIsEarned == \A a \in refused : passed[a][MaxPerSec] <= Second
=============================================================================
