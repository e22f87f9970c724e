------------------------- MODULE CertificatesProofs -------------------------
(***************************************************************************)
(* The certificate cache, for any ages, number of orders, failures and     *)
(* crashes: a fresh certificate file has its own key beside it, and no     *)
(* order is placed while a good pair is there.  Both rest on the order of  *)
(* the writes, which CertInv spells out for each stage of an attempt.  And *)
(* no certificate expires under a renew task that has not failed for it.   *)
(***************************************************************************)
EXTENDS Certificates, TLAPS

\* A whole certificate file that counts as fresh.
Fresh == cert \in Orders /\ mtime <= RenewAge

\* Up to the new certificate there is no fresh one ...
NoneFreshBefore ==
    attempt \in {"account", "account fill", "order", "key", "key fill", "cert"} => ~Fresh

\* ... and from its order on the parts of the new pair appear one by one.
PairGrows ==
    /\ attempt \in {"key", "key fill", "cert", "cert fill"} => orders \in Orders
    /\ attempt \in {"cert", "cert fill"} => key = orders
    /\ attempt = "cert fill" => cert = Torn

CertInv == TypeOK /\ FreshPairMatches /\ NoneFreshBefore /\ PairGrows

LEMMA CertInit == Init => CertInv
<1> SUFFICES ASSUME Init PROVE CertInv
  OBVIOUS
<1>1. /\ Lifetime \in Nat /\ MaxOrders \in Nat /\ MaxFailures \in Nat /\ MaxCrashes \in Nat
      /\ None \notin Orders
  BY AgeAssumption, BoundAssumption, FileAssumption
<1>2. mtime \in Ages /\ age \in [Orders -> Ages]
  BY <1>1 DEF Init, Ages
<1>3. orders \in 0..MaxOrders /\ failures \in 0..MaxFailures /\ crashes \in 0..MaxCrashes
  BY <1>1 DEF Init
<1>4. TypeOK
  BY <1>2, <1>3 DEF Init, TypeOK, Files, Attempts
<1>5. FreshPairMatches /\ NoneFreshBefore /\ PairGrows
  BY <1>1 DEF Init, FreshPairMatches, NoneFreshBefore, PairGrows, Fresh
<1> QED  BY <1>4, <1>5 DEF CertInv

\* How the constants and counters are numbered.
LEMMA Numbers ==
    ASSUME TypeOK
    PROVE  /\ RenewAge \in Nat /\ Lifetime \in Nat /\ MaxOrders \in Nat
           /\ MaxFailures \in Nat /\ MaxCrashes \in Nat
           /\ mtime \in Nat /\ orders \in Nat /\ None \notin Orders /\ Torn \notin Orders
BY AgeAssumption, BoundAssumption, FileAssumption DEF TypeOK, Ages

\* A start or a check that finds nothing to use begins an attempt.
LEMMA BeginInv ==
    ASSUME CertInv, Start \/ StartReusing \/ Check
    PROVE  CertInv'
<1> USE Numbers DEF CertInv
<1>1. CASE Start
  <2>1. ~Fresh
    BY <1>1 DEF Start, Reusable, Fresh, FreshPairMatches
  <2> QED  BY <1>1, <2>1 DEF Start, StartAcquiring, cache, TypeOK, Attempts,
                             FreshPairMatches, NoneFreshBefore, PairGrows, Fresh
<1>2. CASE StartReusing
  <2>1. Loaded \in Orders \union {None}
    BY DEF Loaded
  <2> QED  BY <1>2, <2>1 DEF StartReusing, Serve, cache, TypeOK, FreshPairMatches,
                             NoneFreshBefore, PairGrows
<1>3. CASE Check
  <2>1. attempt' = "account" => ~Fresh
    BY <1>3 DEF Check, CheckFor, Fresh
  <2>2. TypeOK'
    BY <1>3 DEF Check, CheckFor, cache, TypeOK, Attempts
  <2>3. UNCHANGED <<cert, key, mtime, orders>> /\ attempt' \in {"account", "idle"}
    BY <1>3 DEF Check, CheckFor, cache
  <2> QED  BY <2>1, <2>2, <2>3 DEF FreshPairMatches, NoneFreshBefore, PairGrows, Fresh
<1> QED  BY <1>1, <1>2, <1>3

\* The steps of an attempt before a file of the pair is touched.
LEMMA OrderInv ==
    ASSUME CertInv, RestoreAccount \/ CreateAccount \/ FillAccount \/ PlaceOrder
    PROVE  CertInv'
<1> USE Numbers DEF CertInv
<1>1. attempt \in {"account", "account fill", "order"} /\ ~Fresh
  BY DEF RestoreAccount, CreateAccount, FillAccount, PlaceOrder, Advance, NoneFreshBefore
<1>2. UNCHANGED <<key, cert, mtime>>
  BY DEF RestoreAccount, CreateAccount, FillAccount, PlaceOrder, cache
<1>3. /\ attempt' \in {"account fill", "order", "key"}
      /\ attempt' = "key" => orders' \in Orders
  <2>1. CASE PlaceOrder
    <3>1. attempt' = "key" /\ orders' = orders + 1 /\ orders < MaxOrders
      BY <2>1 DEF PlaceOrder, After
    <3> QED  BY <3>1 DEF Orders
  <2>2. CASE RestoreAccount \/ CreateAccount \/ FillAccount
    BY <2>2 DEF RestoreAccount, CreateAccount, FillAccount, Advance
  <2> QED  BY <2>1, <2>2
<1>4. TypeOK'
  <2>1. CASE PlaceOrder
    <3>1. orders' \in 0..MaxOrders
      BY <2>1 DEF PlaceOrder, TypeOK
    <3>2. age' = [age EXCEPT ![orders + 1] = 0] /\ 0 \in Ages
      BY <2>1 DEF PlaceOrder, Ages
    <3>3. age' \in [Orders -> Ages]
      BY <3>2 DEF TypeOK
    <3>4. UNCHANGED <<account, key, cert, mtime, process, tls, renewing, due, failures, crashes>>
      BY <2>1 DEF PlaceOrder, cache
    <3> QED  BY <3>1, <3>3, <3>4, <1>1, <1>3 DEF TypeOK, Attempts
  <2>2. CASE RestoreAccount \/ CreateAccount \/ FillAccount
    BY <2>2 DEF RestoreAccount, CreateAccount, FillAccount, Advance, TypeOK, cache, Attempts
  <2> QED  BY <2>1, <2>2
<1>5. FreshPairMatches' /\ NoneFreshBefore' /\ PairGrows'
  BY <1>1, <1>2, <1>3 DEF FreshPairMatches, NoneFreshBefore, PairGrows, Fresh
<1> QED  BY <1>4, <1>5

\* The key is written while no certificate is fresh ...
LEMMA KeyInv ==
    ASSUME CertInv, TruncateKey \/ FillKey
    PROVE  CertInv'
<1> USE Numbers DEF CertInv
<1>1. ~Fresh /\ orders \in Orders
  BY DEF TruncateKey, FillKey, Advance, NoneFreshBefore, PairGrows
<1>2. /\ UNCHANGED <<account, cert, mtime, orders, age, process, tls, renewing, due, failures,
                     crashes>>
      /\ attempt \in {"key", "key fill"} /\ attempt' \in {"key fill", "cert"}
      /\ key' \in {Torn, orders}
      /\ attempt' = "cert" => key' = orders
  BY DEF TruncateKey, FillKey, Advance, After
<1>3. TypeOK'
  BY <1>1, <1>2 DEF TypeOK, Files, Attempts
<1> QED  BY <1>1, <1>2, <1>3 DEF FreshPairMatches, NoneFreshBefore, PairGrows, Fresh

\* ... and the certificate when its key is there.
LEMMA PairInv ==
    ASSUME CertInv, TruncateCert \/ FillCert
    PROVE  CertInv'
<1> USE Numbers DEF CertInv
<1>1. orders \in Orders /\ key = orders
  BY DEF TruncateCert, FillCert, Advance, PairGrows
<1>2. /\ UNCHANGED <<account, key, orders, age, process, tls, renewing, due, failures, crashes>>
      /\ attempt \in {"cert", "cert fill"} /\ mtime' = 0
      /\ \/ attempt' = "cert fill" /\ cert' = Torn
         \/ attempt' = "done" /\ cert' = orders
  BY DEF TruncateCert, FillCert, Advance, After
<1>3. mtime' \in Ages /\ cert' \in Files /\ attempt' \in Attempts
  <2>1. mtime' \in Ages
    <3>1. mtime' = 0
      BY <1>2
    <3>2. 0 \in Ages
      BY AgeAssumption DEF Ages
    <3> QED  BY <3>1, <3>2
  <2>2. cert' \in Files
    BY <1>1, <1>2 DEF Files
  <2>3. attempt' \in Attempts
    BY <1>2 DEF Attempts
  <2> QED  BY <2>1, <2>2, <2>3
<1>4. TypeOK'
  BY <1>1, <1>2, <1>3 DEF TypeOK
<1> QED  BY <1>1, <1>2, <1>4 DEF FreshPairMatches, NoneFreshBefore, PairGrows, Fresh

\* However the attempt or the process ends, the files are left as they are.
LEMMA EndInv ==
    ASSUME CertInv, Succeed \/ Fail \/ Crash
    PROVE  CertInv'
<1> USE Numbers DEF CertInv
<1>1. UNCHANGED <<account, key, cert, mtime, age, orders>> /\ attempt' = "idle"
  BY DEF Succeed, Fail, Failing, EndAttempt, Crash, cache
<1>2. TypeOK'
  <2>1. Loaded \in Orders \union {None}
    BY DEF Loaded
  <2>2. failures' \in 0..MaxFailures /\ crashes' \in 0..MaxCrashes
    <3>1. /\ failures' = failures \/ (failures < MaxFailures /\ failures' = failures + 1)
          /\ crashes' = crashes \/ (crashes < MaxCrashes /\ crashes' = crashes + 1)
      BY DEF Succeed, Fail, Failing, EndAttempt, Crash
    <3>2. failures \in 0..MaxFailures /\ crashes \in 0..MaxCrashes
      BY DEF TypeOK
    <3> QED  BY <3>1, <3>2
  <2>3. /\ process' \in {"down", "serving"} /\ tls' \in Orders \union {None}
        /\ renewing' \in BOOLEAN /\ due' \in BOOLEAN
        /\ process' = "down" => ~renewing'
    BY <2>1 DEF Succeed, Fail, Failing, EndAttempt, Serve, Crash, TypeOK
  <2> QED  BY <1>1, <2>2, <2>3 DEF TypeOK, Attempts
<1> QED  BY <1>1, <1>2 DEF FreshPairMatches, NoneFreshBefore, PairGrows, Fresh

\* With time a fresh file goes stale, never the other way.
LEMMA TickInv ==
    ASSUME CertInv, Tick
    PROVE  CertInv'
<1> USE Numbers DEF CertInv
<1>1. /\ UNCHANGED <<account, key, cert, orders, process, tls, renewing, attempt, failures,
                     crashes>>
      /\ attempt = "idle" /\ mtime' = Older(mtime) /\ due' = renewing
      /\ age' = [n \in Orders |-> Older(age[n])]
  BY DEF Tick
<1>2. \A a \in Ages : Older(a) \in Ages /\ (Older(a) <= RenewAge => a <= RenewAge)
  BY DEF Older, Ages
<1>3. TypeOK'
  BY <1>1, <1>2 DEF TypeOK
<1>4. mtime' <= RenewAge => mtime <= RenewAge
  BY <1>1, <1>2 DEF TypeOK
<1> QED  BY <1>1, <1>3, <1>4 DEF FreshPairMatches, NoneFreshBefore, PairGrows, Fresh

LEMMA CertStep == CertInv /\ [Next]_vars => CertInv'
<1> SUFFICES ASSUME CertInv, [Next]_vars PROVE CertInv'
  OBVIOUS
<1>1. CASE UNCHANGED vars
  BY <1>1 DEF CertInv, TypeOK, FreshPairMatches, NoneFreshBefore, PairGrows, Fresh, vars, cache
<1>2. CASE Next
  BY <1>2, BeginInv, OrderInv, KeyInv, PairInv, EndInv, TickInv DEF Next, Acquire
<1> QED  BY <1>1, <1>2

\* Stages and files fit together (acme.rs:63-216).
THEOREM CertInvariant == Spec => []CertInv
BY CertInit, CertStep, PTL DEF Spec

\* Files and attempts stay what they are taken for (acme.rs:63-222).
THEOREM CertTypes == Spec => []TypeOK
<1>1. CertInv => TypeOK
  BY DEF CertInv
<1> QED  BY <1>1, CertInvariant, PTL

\* Wherever an attempt breaks off, a fresh certificate has its own key beside it
\* (acme.rs:210-211).
THEOREM FreshPairs == Spec => []FreshPairMatches
<1>1. CertInv => FreshPairMatches
  BY DEF CertInv
<1> QED  BY <1>1, CertInvariant, PTL

\* A restart never orders a certificate it has (acme.rs:74).
THEOREM OrdersAreNeeded == Spec => NoNeedlessOrders
<1>1. CertInv /\ [Next]_vars =>
        [orders' # orders => ~(cert \in Orders /\ key = cert /\ mtime <= RenewAge)]_vars
  <2> SUFFICES ASSUME CertInv, Next, orders' # orders
               PROVE  ~(cert \in Orders /\ mtime <= RenewAge)
    BY DEF vars, cache
  <2>1. attempt = "order"
    BY DEF Next, Acquire, StartReusing, Start, StartAcquiring, RestoreAccount, CreateAccount,
           FillAccount, PlaceOrder, TruncateKey, FillKey, TruncateCert, FillCert, Succeed,
           Fail, EndAttempt, Check, CheckFor, Tick, Crash, Advance
  <2> QED  BY <2>1 DEF CertInv, NoneFreshBefore, Fresh
<1> QED  BY <1>1, CertInvariant, PTL DEF Spec, NoNeedlessOrders

-----------------------------------------------------------------------------
(* Renewal in time.  The age of the certificate is that of its file, and   *)
(* once the file is stale the count of failures keeps up with that age.    *)

\* A tick comes between attempts only, so a pair is installed as old as issued.
AgesAgree ==
    /\ cert \in Orders => cert <= orders /\ age[cert] = mtime
    /\ attempt \in {"key", "key fill", "cert", "cert fill"} => age[orders] = 0
    /\ attempt = "done" => cert \in Orders /\ mtime = 0

\* The age nobody need have failed for: one tick more while its attempt is ahead.
Allowed == IF due \/ attempt # "idle" THEN RenewAge + 1 ELSE RenewAge

\* At its bound the count can say no more.
FailuresKeepUp ==
    process = "serving" /\ renewing /\ cert \in Orders /\ mtime > RenewAge
        => failures = MaxFailures \/ failures + Allowed >= mtime

RenewInv == AgesAgree /\ FailuresKeepUp

LEMMA RenewInit == Init => RenewInv
BY FileAssumption DEF Init, RenewInv, AgesAgree, FailuresKeepUp

\* A server starts its renew task on a file that is fresh, and a check that does
\* not renew has found one.
LEMMA RenewBegins ==
    ASSUME CertInv, RenewInv, Start \/ StartReusing \/ Check
    PROVE  RenewInv'
<1> USE Numbers DEF CertInv, RenewInv
<1>1. UNCHANGED <<key, cert, mtime, age, orders, failures>>
  BY DEF Start, StartAcquiring, StartReusing, Serve, Check, CheckFor, cache
<1>2. attempt' \in {"idle", "account"} \/ attempt' = attempt
  BY DEF Start, StartAcquiring, StartReusing, Serve, Check, CheckFor
<1>3. AgesAgree'
  BY <1>1, <1>2 DEF AgesAgree
<1>4. FailuresKeepUp'
  <2>1. CASE Start
    BY <2>1 DEF Start, StartAcquiring, FailuresKeepUp
  <2>2. CASE StartReusing
    BY <2>2, <1>1 DEF StartReusing, Reusable, FailuresKeepUp
  <2>3. CASE Check
    <3>1. /\ process = "serving" /\ renewing /\ attempt = "idle" /\ due' = FALSE
          /\ UNCHANGED <<process, renewing>>
          /\ cert \in Orders /\ mtime > RenewAge => attempt' = "account"
      BY <2>3, FileAssumption DEF Check, CheckFor
    <3> SUFFICES ASSUME cert \in Orders, mtime > RenewAge
                 PROVE  failures = MaxFailures \/ failures + (RenewAge + 1) >= mtime
      BY <3>1, <1>1 DEF FailuresKeepUp, Allowed
    <3>2. Allowed \in {RenewAge, RenewAge + 1} /\ failures \in Nat
      BY DEF Allowed, TypeOK
    <3> QED  BY <3>1, <3>2 DEF FailuresKeepUp
  <2> QED  BY <2>1, <2>2, <2>3
<1> QED  BY <1>3, <1>4

\* The steps of an attempt but its last wait for nothing and count nothing.
LEMMA RenewGoesOn ==
    ASSUME CertInv, RenewInv,
           \/ RestoreAccount \/ CreateAccount \/ FillAccount \/ PlaceOrder
           \/ TruncateKey \/ FillKey \/ TruncateCert \/ FillCert
    PROVE  RenewInv'
<1> USE Numbers DEF CertInv, RenewInv
<1>1. UNCHANGED <<process, renewing, due, failures>>
  BY DEF RestoreAccount, CreateAccount, FillAccount, PlaceOrder, TruncateKey, FillKey,
         TruncateCert, FillCert, Advance
<1>2. attempt # "idle" /\ attempt' # "idle" /\ attempt \in Attempts
  BY DEF RestoreAccount, CreateAccount, FillAccount, PlaceOrder, TruncateKey, FillKey,
         TruncateCert, FillCert, Advance, After, TypeOK
<1>3. /\ cert' \in Orders => mtime' = 0 \/ UNCHANGED <<cert, mtime>>
  BY DEF RestoreAccount, CreateAccount, FillAccount, PlaceOrder, TruncateKey, FillKey,
         TruncateCert, FillCert, Advance, cache
<1>4. FailuresKeepUp'
  BY <1>1, <1>2, <1>3 DEF FailuresKeepUp, Allowed
<1>5. AgesAgree'
  <2>1. CASE PlaceOrder
    <3>1. /\ attempt' = "key" /\ orders' = orders + 1 /\ orders' \in Orders
          /\ age' = [age EXCEPT ![orders'] = 0] /\ age \in [Orders -> Ages]
          /\ UNCHANGED <<cert, mtime>>
      BY <2>1 DEF PlaceOrder, After, cache, TypeOK, Orders
    <3> SUFFICES ASSUME cert \in Orders
                 PROVE  cert <= orders' /\ age'[cert] = mtime
      BY <3>1 DEF AgesAgree
    <3>2. cert <= orders /\ age[cert] = mtime
      BY DEF AgesAgree
    <3>3. cert \in Nat /\ orders \in Nat
      BY DEF Orders, TypeOK
    <3>4. cert <= orders' /\ cert # orders'
      BY <3>1, <3>2, <3>3
    <3> QED  BY <3>1, <3>2, <3>4
  <2>2. CASE FillCert
    <3>1. /\ attempt = "cert fill" /\ attempt' = "done" /\ cert' = orders /\ mtime' = 0
          /\ UNCHANGED <<age, orders>> /\ orders \in Orders /\ age[orders] = 0
      BY <2>2 DEF FillCert, Advance, After, PairGrows, AgesAgree
    <3>2. cert' <= orders' /\ age'[cert'] = mtime' /\ cert' \in Orders
      <4>1. orders <= orders
        BY DEF TypeOK
      <4> QED  BY <3>1, <4>1
    <3> QED  BY <3>1, <3>2 DEF AgesAgree
  <2>3. CASE RestoreAccount \/ CreateAccount \/ FillAccount \/ TruncateKey \/ FillKey
             \/ TruncateCert
    <3>1. UNCHANGED <<age, orders>> /\ attempt' # "done"
      BY <2>3 DEF RestoreAccount, CreateAccount, FillAccount, TruncateKey, FillKey,
                  TruncateCert, Advance, After
    <3>2. attempt' \in {"key fill", "cert", "cert fill"} => age[orders] = 0
      BY <2>3 DEF RestoreAccount, CreateAccount, FillAccount, TruncateKey, FillKey,
                  TruncateCert, Advance, After, AgesAgree
    <3>3. attempt' # "key"
      BY <2>3 DEF RestoreAccount, CreateAccount, FillAccount, TruncateKey, FillKey,
                  TruncateCert, Advance, After
    <3>4. UNCHANGED <<cert, mtime>> \/ cert' = Torn
      BY <2>3 DEF RestoreAccount, CreateAccount, FillAccount, TruncateKey, FillKey,
                  TruncateCert, Advance, cache
    <3> QED  BY <3>1, <3>2, <3>3, <3>4 DEF AgesAgree
  <2> QED  BY <2>1, <2>2, <2>3
<1> QED  BY <1>4, <1>5

\* An attempt that succeeds leaves a new file, one that fails is counted.
LEMMA RenewEnds ==
    ASSUME CertInv, RenewInv, Succeed \/ Fail \/ Crash
    PROVE  RenewInv'
<1> USE Numbers DEF CertInv, RenewInv
<1>1. UNCHANGED <<key, cert, mtime, age, orders>> /\ attempt' = "idle"
  BY DEF Succeed, Fail, Failing, EndAttempt, Crash, cache
<1>2. AgesAgree'
  BY <1>1 DEF AgesAgree
<1>3. FailuresKeepUp'
  <2>1. CASE Succeed
    BY <2>1, <1>1 DEF Succeed, AgesAgree, FailuresKeepUp
  <2>2. CASE Crash
    BY <2>2 DEF Crash, FailuresKeepUp
  <2>3. CASE Fail
    <3>1. /\ attempt # "idle"
          /\ failures \in 0..MaxFailures
          /\ failures' = IF failures < MaxFailures THEN failures + 1 ELSE failures
          /\ (process' = "serving" /\ renewing') => (process = "serving" /\ renewing)
      BY <2>3 DEF Fail, Failing, EndAttempt, Serve, TypeOK
    <3> SUFFICES ASSUME process = "serving", renewing, cert \in Orders, mtime > RenewAge
                 PROVE  failures' = MaxFailures \/ failures' + RenewAge >= mtime
      BY <3>1, <1>1 DEF FailuresKeepUp, Allowed
    <3>2. failures = MaxFailures \/ failures + (RenewAge + 1) >= mtime
      BY <3>1 DEF FailuresKeepUp, Allowed
    <3> QED  BY <3>1, <3>2
  <2> QED  BY <2>1, <2>2, <2>3
<1> QED  BY <1>2, <1>3

\* Time waits for the check that is due, so a tick adds one to the age allowed.
LEMMA RenewWaits ==
    ASSUME CertInv, RenewInv, Tick
    PROVE  RenewInv'
<1> USE Numbers DEF CertInv, RenewInv
<1>1. /\ UNCHANGED <<cert, orders, process, renewing, attempt, failures>>
      /\ attempt = "idle" /\ mtime' = Older(mtime) /\ due' = renewing
      /\ ~(renewing /\ due)
      /\ age' = [n \in Orders |-> Older(age[n])]
  BY DEF Tick
<1>2. AgesAgree'
  BY <1>1 DEF AgesAgree
<1>3. FailuresKeepUp'
  <2> SUFFICES ASSUME process = "serving", renewing, cert \in Orders, mtime' > RenewAge
               PROVE  failures = MaxFailures \/ failures + (RenewAge + 1) >= mtime'
    BY <1>1 DEF FailuresKeepUp, Allowed
  <2>1. mtime' \in {mtime, mtime + 1} /\ failures \in Nat
    BY <1>1 DEF Older, TypeOK
  <2>2. mtime > RenewAge => failures = MaxFailures \/ failures + RenewAge >= mtime
    BY <1>1 DEF FailuresKeepUp, Allowed
  <2> QED  BY <2>1, <2>2
<1> QED  BY <1>2, <1>3

LEMMA RenewStep == CertInv /\ RenewInv /\ [Next]_vars => RenewInv'
<1> SUFFICES ASSUME CertInv, RenewInv, [Next]_vars PROVE RenewInv'
  OBVIOUS
<1>1. CASE UNCHANGED vars
  BY <1>1 DEF RenewInv, AgesAgree, FailuresKeepUp, Allowed, vars, cache
<1>2. CASE Next
  BY <1>2, RenewBegins, RenewGoesOn, RenewEnds, RenewWaits DEF Next, Acquire
<1> QED  BY <1>1, <1>2

\* A certificate past its renewal age has a failure beside each tick of it
\* (acme.rs:382-430).
THEOREM RenewInvariant == Spec => []RenewInv
BY RenewInit, RenewStep, CertInvariant, PTL DEF Spec

\* A certificate expires under a running renew task only after an attempt has
\* failed in every tick since it was due, when the bound on failures has room for
\* as many (acme.rs:382-428).
THEOREM ExpiredAfterFailures ==
    ASSUME MaxFailures >= Lifetime - RenewAge - 1
    PROVE  Spec => []RenewedInTime
<1>1. CertInv /\ RenewInv => RenewedInTime
  <2> SUFFICES ASSUME CertInv, RenewInv, process = "serving", renewing, cert \in Orders,
                      age[cert] >= Lifetime
               PROVE  failures >= Lifetime - RenewAge - 1
    BY DEF RenewedInTime
  <2>1. mtime >= Lifetime /\ mtime > RenewAge /\ failures \in Nat
    <3>1. TypeOK /\ age[cert] = mtime
      BY DEF CertInv, RenewInv, AgesAgree
    <3>2. failures \in Nat /\ Lifetime \in Nat /\ mtime \in Nat /\ RenewAge \in Nat
      BY <3>1, Numbers DEF TypeOK
    <3> QED  BY <3>1, <3>2, AgeAssumption
  <2>2. failures = MaxFailures \/ failures + Allowed >= mtime
    BY <2>1 DEF RenewInv, FailuresKeepUp
  <2>3. Allowed \in {RenewAge, RenewAge + 1}
    BY DEF Allowed
  <2> QED  BY <2>1, <2>2, <2>3, Numbers DEF CertInv
<1> QED  BY <1>1, CertInvariant, RenewInvariant, PTL
=============================================================================
