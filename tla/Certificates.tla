---------------------------- MODULE Certificates ----------------------------
(***************************************************************************)
(* ACME certificates (src/src/acme.rs and the TLS set-up of main.rs): at   *)
(* its start the bridge reuses the pair of files in the cache or acquires  *)
(* a new one, loads it into the HTTPS server, or serves plain HTTP if that *)
(* fails; a background task renews the files.  "Fresh" is judged by the    *)
(* modification time of the certificate file alone.                        *)
(*                                                                         *)
(* std::fs::write truncates and then fills, so each write is two steps,    *)
(* and the process may die between any two.  Time passes in ticks of some  *)
(* weeks; the 12-hourly check of the renew task comes at least once a tick.*)
(***************************************************************************)
EXTENDS Naturals

CONSTANTS
    RenewAge,       \* a file older than this is renewed (60 days)
    Lifetime,       \* a certificate as old as this has expired (90 days)
    None, Torn,     \* a file that does not exist; one cut short
    Whole,          \* an account file with credentials
    MaxOrders,      \* bound: certificates issued
    MaxFailures,    \* bound: attempts that fail for an outside reason
    MaxCrashes      \* bound: ends of the process

ASSUME AgeAssumption == RenewAge \in Nat /\ Lifetime \in Nat /\ RenewAge < Lifetime
ASSUME BoundAssumption == {MaxOrders, MaxFailures, MaxCrashes} \subseteq Nat

Orders == 1..MaxOrders               \* a key pair and certificate, by its order
Files == Orders \union {None, Torn}
ASSUME FileAssumption == None # Torn /\ {None, Torn} \cap Orders = {}

VARIABLES
    account,    \* account.json
    key, cert,  \* <domain>.key.pem, <domain>.cert.pem
    mtime,      \* age of the certificate file
    age,        \* age[n] of certificate n
    orders,     \* certificates issued so far
    process,    \* "down", "starting" or "serving"
    tls,        \* the pair the server was given; None is plain HTTP
    renewing,   \* the renew task runs
    attempt,    \* where acquire_cert_inner is, "idle" if nowhere
    due,        \* no check of the renew task yet in this tick
    failures, crashes   \* for the bounds, and failures for RenewedInTime

cache == <<account, key, cert, mtime>>
vars == <<cache, age, orders, process, tls, renewing, attempt, due, failures, crashes>>

Ages == 0..Lifetime                  \* Lifetime stands for every greater age
Older(a) == IF a < Lifetime THEN a + 1 ELSE a

Attempts == {"idle", "account", "account fill", "order", "key", "key fill",
             "cert", "cert fill", "done"}

TypeOK ==
    /\ account \in {None, Torn, Whole}
    /\ key \in Files /\ cert \in Files
    /\ mtime \in Ages /\ age \in [Orders -> Ages]
    /\ orders \in 0..MaxOrders
    /\ process \in {"down", "starting", "serving"}
    /\ tls \in Orders \union {None}
    /\ renewing \in BOOLEAN /\ due \in BOOLEAN
    /\ attempt \in Attempts
    /\ failures \in 0..MaxFailures /\ crashes \in 0..MaxCrashes
    /\ process = "down" => attempt = "idle" /\ ~renewing
    /\ process = "starting" => attempt # "idle"

Init ==
    /\ account = None /\ key = None /\ cert = None
    /\ mtime = 0 /\ age = [n \in Orders |-> 0]
    /\ orders = 0
    /\ process = "down" /\ tls = None
    /\ renewing = FALSE /\ attempt = "idle" /\ due = FALSE
    /\ failures = 0 /\ crashes = 0

-----------------------------------------------------------------------------
(* The start. *)

\* check_existing_cert: both files exist, and the certificate file is fresh.
Reusable == key # None /\ cert # None /\ mtime <= RenewAge

\* build_tls_config_from_paths: rustls takes whole files that belong together.
Loaded == IF cert \in Orders /\ key = cert THEN cert ELSE None

Serve(pair, task) ==
    /\ process' = "serving"
    /\ tls' = pair
    /\ renewing' = task
    /\ due' = task

StartReusing ==
    /\ process = "down"
    /\ Reusable
    /\ Serve(Loaded, TRUE)
    /\ UNCHANGED <<cache, age, orders, attempt, failures, crashes>>

StartAcquiring ==
    /\ process = "down"
    /\ process' = "starting"
    /\ attempt' = "account"
    /\ UNCHANGED <<cache, age, orders, tls, renewing, due, failures, crashes>>

\* A bug: the cache is not looked at.
StartAfresh == StartAcquiring

Start == ~Reusable /\ StartAcquiring

-----------------------------------------------------------------------------
(* acquire_cert_inner, for the start and for the renew task. *)

\* Attempt goes from p to q and writes what is not listed here.
Advance(p, q) ==
    /\ attempt = p
    /\ attempt' = q
    /\ UNCHANGED <<age, process, tls, renewing, due, failures, crashes>>

RestoreAccount ==
    /\ account = Whole
    /\ Advance("account", "order")
    /\ UNCHANGED <<cache, orders>>

\* Registered with the CA; the credentials go to the file.
CreateAccount ==
    /\ account = None
    /\ Advance("account", "account fill")
    /\ account' = Torn
    /\ UNCHANGED <<key, cert, mtime, orders>>

FillAccount ==
    /\ Advance("account fill", "order")
    /\ account' = Whole
    /\ UNCHANGED <<key, cert, mtime, orders>>

\* A bug: the certificate is written before its key.
AfterSwapped(p) == CASE p = "order" -> "cert" [] p = "cert" -> "key" [] p = "key" -> "done"

\* The key is written first.
After(p) == CASE p = "order" -> "key" [] p = "key" -> "cert" [] p = "cert" -> "done"

\* Order, challenge, finalize: the CA issues a certificate.
PlaceOrder ==
    /\ orders < MaxOrders
    /\ attempt = "order"
    /\ attempt' = After("order")
    /\ orders' = orders + 1
    /\ age' = [age EXCEPT ![orders + 1] = 0]
    /\ UNCHANGED <<cache, process, tls, renewing, due, failures, crashes>>

TruncateKey ==
    /\ Advance("key", "key fill")
    /\ key' = Torn
    /\ UNCHANGED <<account, cert, mtime, orders>>

FillKey ==
    /\ Advance("key fill", After("key"))
    /\ key' = orders
    /\ UNCHANGED <<account, cert, mtime, orders>>

TruncateCert ==
    /\ Advance("cert", "cert fill")
    /\ cert' = Torn
    /\ mtime' = 0
    /\ UNCHANGED <<account, key, orders>>

FillCert ==
    /\ Advance("cert fill", After("cert"))
    /\ cert' = orders
    /\ mtime' = 0
    /\ UNCHANGED <<account, key, orders>>

\* The attempt is over.  The start goes on to the server; the renew task to its
\* next sleep, and the running server is not told.
EndAttempt(pair, task) ==
    /\ attempt' = "idle"
    /\ IF process = "starting" THEN Serve(pair, task)
                               ELSE UNCHANGED <<process, tls, renewing, due>>
    /\ UNCHANGED <<cache, age, orders, crashes>>

Succeed ==
    /\ attempt = "done"
    /\ EndAttempt(Loaded, TRUE)
    /\ UNCHANGED failures

Failing ==
    /\ attempt # "idle"
    /\ \/ attempt = "account" /\ account = Torn
       \/ failures < MaxFailures
    /\ failures' = IF failures < MaxFailures THEN failures + 1 ELSE failures

\* A bug: a start whose attempt failed does not go on to serve plain HTTP.
FailStuck ==
    /\ Failing
    /\ attempt' = "idle"
    /\ UNCHANGED <<cache, age, orders, process, tls, renewing, due, crashes>>

\* An account file that does not parse ends the attempt, always; the network,
\* the CA or the disk may end it anywhere, the last chmod of the key included.
\* A start without a certificate serves plain HTTP, and has no renew task.
Fail == Failing /\ EndAttempt(None, FALSE)

-----------------------------------------------------------------------------
(* The renew task, time, and the end of the process. *)

CheckFor(stale) ==
    /\ process = "serving"
    /\ renewing
    /\ attempt = "idle"
    /\ due' = FALSE
    /\ attempt' = IF stale THEN "account" ELSE "idle"
    /\ UNCHANGED <<cache, age, orders, process, tls, renewing, failures, crashes>>

\* A bug: the task waits until the certificate has expired.
CheckLate == CheckFor(cert = None \/ mtime >= Lifetime)

Check == CheckFor(cert = None \/ mtime > RenewAge)

Tick ==
    /\ attempt = "idle"
    /\ process # "starting"
    /\ ~(renewing /\ due)
    /\ mtime' = Older(mtime)
    /\ age' = [n \in Orders |-> Older(age[n])]
    /\ due' = renewing
    /\ UNCHANGED <<account, key, cert, orders, process, tls, renewing, attempt,
                   failures, crashes>>

\* A crash or a stop, at any point.
Crash ==
    /\ process # "down"
    /\ crashes < MaxCrashes
    /\ crashes' = crashes + 1
    /\ process' = "down"
    /\ tls' = None
    /\ renewing' = FALSE
    /\ attempt' = "idle"
    /\ due' = FALSE
    /\ UNCHANGED <<cache, age, orders, failures>>

Acquire == \/ RestoreAccount \/ CreateAccount \/ FillAccount \/ PlaceOrder
           \/ TruncateKey \/ FillKey \/ TruncateCert \/ FillCert
           \/ Succeed \/ Fail

Next == StartReusing \/ Start \/ Acquire \/ Check \/ Tick \/ Crash

Spec == Init /\ [][Next]_vars

-----------------------------------------------------------------------------
(* Properties. *)

\* A certificate file that counts as fresh has its own key beside it, wherever
\* the process died or a write failed (acme.rs:210-211: the key goes first).
FreshPairMatches == cert \in Orders /\ mtime <= RenewAge => key = cert

\* acme.rs:74, "avoid re-requesting on restart": no order is placed while a
\* pair that could be used is in the cache.
NoNeedlessOrders ==
    [][orders' # orders => ~(cert \in Orders /\ key = cert /\ mtime <= RenewAge)]_vars

\* The files are renewed in time: one that has expired under a running renew
\* task has seen an attempt fail in every tick from RenewAge on.
RenewedInTime ==
    process = "serving" /\ renewing /\ cert \in Orders /\ age[cert] >= Lifetime
        => failures >= Lifetime - RenewAge - 1
=============================================================================
