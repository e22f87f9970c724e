-------------------------- MODULE EndpointsProofs --------------------------
(***************************************************************************)
(* The forms of an endpoint, proved for every host, port, scheme and path: *)
(* what an agent registers, the file keeps and a pattern hands on is       *)
(* always a proper route, and a proper route survives being written and    *)
(* read back.                                                              *)
(***************************************************************************)
EXTENDS Endpoints, TLAPS

\* The three fields of a ProfileRoute agree (router.rs:159-217, :238-244): host
\* and port are those of the URL, and only a bare host can have a port glued on.
Proper(r) ==
    /\ r \in Routes
    /\ r.host = r.url.host
    /\ r.port = IF r.url.port = NoPort THEN 80 ELSE r.url.port
    /\ r.host \in Glued => EndsLikeDefault(r) /\ BeginsPlainly(r)

LEMMA NewIsProper ==
    ASSUME NEW h \in Hosts, NEW p \in Ports
    PROVE  Proper(New(h, p))
BY PortAssumption DEF Proper, New, Url, Routes, Paths, EndsLikeDefault, BeginsPlainly,
   DefaultPath

LEMMA FromUrlIsProper ==
    ASSUME NEW t \in Texts, IsUrl(t)
    PROVE  Proper(FromUrl(t))
<1>1. t.host \in Names \union Literals /\ t.host \notin Glued
  BY HostAssumption DEF Texts
<1>2. t.port \in Ports \union {NoPort} /\ t.path \in Paths
  BY DEF Texts
<1> QED  BY <1>1, <1>2, PortAssumption DEF Proper, FromUrl, Url, Routes, Hosts

\* Reading a text yields a proper route or, if it does not parse, none.
LEMMA LoadIsProper ==
    ASSUME NEW t \in Texts, Load(t) # NoTarget
    PROVE  Proper(Load(t))
<1>1. CASE IsUrl(t)
  BY <1>1, FromUrlIsProper DEF Load
<1>2. CASE ~IsUrl(t)
  <2>1. t.host \in Hosts \union {NoHost} /\ t.port \in Ports \union {NoPort}
    BY DEF Texts
  <2>2. {8645} \subseteq Ports /\ "127.0.0.1" \in Hosts
    BY PortAssumption, HostAssumption DEF Hosts
  <2>3. \E h \in Hosts, p \in Ports : Load(t) = New(h, p)
    <3>1. Load(t) = ParseAddr(t)
      BY <1>2 DEF Load
    <3>2. CASE t.host = NoHost
      BY <2>1, <2>2, <3>1, <3>2, HostAssumption DEF ParseAddr, Hosts
    <3>3. CASE t.host # NoHost
      BY <2>1, <2>2, <3>1, <3>3 DEF ParseAddr
    <3> QED  BY <3>2, <3>3
  <2> QED  BY <2>3, NewIsProper
<1> QED  BY <1>1, <1>2

LEMMA RegisteredIsProper ==
    ASSUME NEW t \in Texts, NEW p \in Ports, t.host # NoHost
    PROVE  Proper(Registered(t, p))
<1>1. t.host \in Hosts
  BY DEF Texts
<1> QED  BY <1>1, FromUrlIsProper, NewIsProper DEF Registered

LEMMA CopyIsProper ==
    ASSUME NEW r \in Routes
    PROVE  Proper(CopyOf(r))
BY NewIsProper DEF CopyOf, Routes

\* Both forms that write_current_routes chooses from can be read back.
LEMMA WrittenIsText ==
    ASSUME NEW r, Proper(r)
    PROVE  Written(r) \in Texts /\ Written(r) # NoTarget
<1>1. r.host \in Hosts /\ r.port \in Ports /\ r.url.host \in Hosts
      /\ r.url.port \in Ports \union {NoPort} /\ r.url.path \in Paths
      /\ r.url.scheme \in {"http", "https"}
  BY DEF Proper, Routes
<1>2. Plain(r.host, r.port) \in Texts
  BY <1>1 DEF Plain, Url, Texts, IsUrl, Paths
<1>3. CASE EndsLikeDefault(r) /\ BeginsPlainly(r)
  BY <1>2, <1>3, RouteAssumption DEF Written, Stored
<1>4. CASE ~(EndsLikeDefault(r) /\ BeginsPlainly(r))
  <2>1. r.url.host \in Names \union Literals
    BY <1>1, <1>4 DEF Proper, Hosts
  <2>2. r.url \in [scheme : {"", "http", "https"}, host : Hosts \union {NoHost},
                   port : Ports \union {NoPort}, path : Paths]
    BY DEF Proper, Routes
  <2>3. r.url \in Texts
    BY <2>1, <2>2 DEF Texts
  <2> QED  BY <1>4, <2>3, RouteAssumption DEF Written, Stored
<1> QED  BY <1>3, <1>4

\* What comes back: the route itself, or the plain route of its host and port.
LEMMA WhatComesBack ==
    ASSUME NEW r, Proper(r)
    PROVE  Load(Written(r)) = IF EndsLikeDefault(r) /\ BeginsPlainly(r)
                              THEN New(r.host, r.port) ELSE r
<1>1. r.host \in Hosts /\ r.port \in Ports /\ NoPort \notin Ports /\ NoHost \notin Hosts
  BY HostAssumption, PortAssumption DEF Proper, Routes
<1>2. CASE EndsLikeDefault(r) /\ BeginsPlainly(r)
  <2>1. Written(r) = Plain(r.host, r.port)
    BY <1>2 DEF Written, Stored
  <2>2. ~IsUrl(Plain(r.host, r.port))
    BY DEF IsUrl, Plain, Url
  <2>3. ParseAddr(Plain(r.host, r.port)) = New(r.host, r.port)
    BY <1>1 DEF ParseAddr, Plain, Url
  <2> QED  BY <1>2, <2>1, <2>2, <2>3 DEF Load
<1>3. CASE ~(EndsLikeDefault(r) /\ BeginsPlainly(r))
  <2>1. Written(r) = r.url
    BY <1>3 DEF Written, Stored
  <2>2. /\ r.url.scheme \in {"http", "https"}
        /\ r = [url |-> r.url, host |-> r.host, port |-> r.port]
        /\ r.url = [scheme |-> r.url.scheme, host |-> r.url.host,
                    port |-> r.url.port, path |-> r.url.path]
    BY DEF Proper, Routes
  <2>3. Load(r.url) = FromUrl(r.url)
    BY <2>2 DEF Load, IsUrl
  <2>4. FromUrl(r.url).url = r.url
    BY <2>2 DEF FromUrl, Url
  <2>5. FromUrl(r.url) = r
    BY <2>2, <2>4 DEF FromUrl, Proper
  <2> QED  BY <1>3, <2>1, <2>3, <2>5
<1> QED  BY <1>2, <1>3

\* Written and read back, any route leads where it led, by the same protocol, to
\* the same path, but for one that only ends like the default (router.rs:45-80,
\* :159-212, :297-319).
THEOREM RoundTrip == \A r : Proper(r) => AsGoodAs(Load(Written(r)), r)
<1> SUFFICES ASSUME NEW r, Proper(r) PROVE AsGoodAs(Load(Written(r)), r)
  OBVIOUS
<1>1. r \in Routes /\ NoTarget \notin Routes
  BY RouteAssumption DEF Proper
<1>2. CASE EndsLikeDefault(r) /\ BeginsPlainly(r)
  <2>1. New(r.host, r.port) \in Routes
    BY NewIsProper DEF Proper, Routes
  <2>2. r.port # NoPort
    BY PortAssumption DEF Proper, Routes
  <2>3. SameServer(New(r.host, r.port).url, r.url)
    BY <1>2, <2>2 DEF SameServer, Connects, New, Url, BeginsPlainly
  <2>4. r.url.path # SuffixPath => New(r.host, r.port).url.path = r.url.path
    BY <1>2 DEF New, Url, EndsLikeDefault
  <2> QED  BY <1>1, <1>2, <2>1, <2>3, <2>4, WhatComesBack DEF AsGoodAs
<1>3. CASE ~(EndsLikeDefault(r) /\ BeginsPlainly(r))
  BY <1>1, <1>3, WhatComesBack DEF AsGoodAs, SameServer
<1> QED  BY <1>2, <1>3

\* The second time the file says what it said: a reload after our own write ends
\* the matter (router.rs:321-325).
THEOREM RereadIsStable ==
    \A r : Proper(r) => LET s == Load(Written(r)) IN Load(Written(s)) = s
<1> SUFFICES ASSUME NEW r, Proper(r)
             PROVE  Load(Written(Load(Written(r)))) = Load(Written(r))
  OBVIOUS
<1>1. CASE EndsLikeDefault(r) /\ BeginsPlainly(r)
  <2>1. Proper(New(r.host, r.port))
    BY NewIsProper DEF Proper, Routes
  <2>2. New(New(r.host, r.port).host, New(r.host, r.port).port) = New(r.host, r.port)
    BY DEF New
  <2> QED  BY <1>1, <2>1, <2>2, WhatComesBack
<1>2. CASE ~(EndsLikeDefault(r) /\ BeginsPlainly(r))
  BY <1>2, WhatComesBack
<1> QED  BY <1>1, <1>2

\* The health checker's key of a route is where its POSTs connect, unless the
\* host is one it does not probe (health.rs:58-60, :131-158).
THEOREM ProbedWhereConnected ==
    \A r \in Routes : Probeable(TargetKey(r)) => TargetKey(r) = Connects(r.url)
<1> SUFFICES ASSUME NEW r \in Routes, Probeable(TargetKey(r))
             PROVE  TargetKey(r) = Connects(r.url)
  OBVIOUS
<1>1. r.url.host \in Names /\ r.url.host \notin Literals
  BY HostAssumption DEF Probeable, TargetKey
<1> QED  BY <1>1 DEF TargetKey, Connects
=============================================================================
