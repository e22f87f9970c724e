----------------------------- MODULE FrontDoor -----------------------------
(***************************************************************************)
(* The way of a request into the HTTP server: the layers around the webhook *)
(* route (push.rs: rate limit, allowlist, blacklist, body limit), the admin *)
(* API's own allowlist (admin.rs), and the virtual hosts, which are the    *)
(* fallback of push mode and stand outside the layers (vhost.rs).  What a  *)
(* webhook then does is PushDelivery's, what the admin API does to the     *)
(* table RouteTable's.                                                     *)
(*                                                                         *)
(* The layers share nothing but the limiter's map, and what happens to a   *)
(* request after the limiter concerns no other request: one step each.     *)
(***************************************************************************)
EXTENDS RateLimiter, Sequences, FiniteSets

CONSTANTS
    Families,       \* "v4" and "v6"
    Width,          \* Width[f]: bits of an address of family f (32 and 128)
    Configs,        \* the settings looked at: [allowed, blacklist, admin, sites]
    Calls,          \* the requests looked at: [door, host, uri, path, body]
    NoPrefix,       \* "10.0.0.1": an entry without a slash
    BadPrefix,      \* an entry whose prefix is no number below 256
    NoIp,           \* an entry whose address does not parse
    NoName,         \* no Host header, or a URI without an authority
    NoAnswer        \* no request has been answered

(* An address is the set of those of its bits that are 1; bit 1 is the highest. *)
IsIP(a) == a.family \in Families /\ a.bits \subseteq 1..Width[a.family]

ASSUME WidthAssumption == Width \in [Families -> Nat \ {0}]
ASSUME AddressAssumption == \A a \in Addresses : IsIP(a)
ASSUME ListAssumption ==
    \A c \in Configs : \A t \in c.allowed \union c.blacklist \union c.admin :
        /\ t.net # NoIp => IsIP(t.net)
        /\ t.prefix \in 0..255 \union {NoPrefix, BadPrefix}
ASSUME CallAssumption == \A r \in Calls : r.host # NoName => r.host \in Seq(STRING)

(* Bodies: how long they are against the limit, and whether they arrive. *)
Bodies == {"empty", "small", "large", "broken"}
Paths == {"/", "/file", "/missing", "/../file"}

VARIABLES
    config,     \* the settings, read at the start
    reply       \* the last answer: [to, site, call, from, status]

doorVars == <<config, reply>>

DoorTypeOK ==
    /\ LimiterTypeOK
    /\ config \in Configs
    /\ reply = NoAnswer \/
          /\ reply.to \in {"nobody", "webhook", "admin", "static", "proxy", "redirect"}
          /\ reply.call \in Calls

-----------------------------------------------------------------------------
(* Address lists. *)

\* parse_cidr; an entry that does not parse is skipped.
Parses(t) == /\ t.net # NoIp
             /\ t.prefix # BadPrefix
             /\ t.prefix # NoPrefix => t.prefix <= Width[t.net.family]

Network(t) == [net |-> t.net, prefix |-> IF t.prefix = NoPrefix THEN Width[t.net.family]
                                                                ELSE t.prefix]
Networks(list) == {Network(t) : t \in {t \in list : Parses(t)}}

\* !0 << n, in w bits.
OnesShifted(w, n) == {i \in 1..w : i + n \in 1..w}

\* A bug: the shift by the whole width, which a release build makes one by 0.
MaskUnguarded(w, p) == OnesShifted(w, (w - p) % w)

\* !0 << (w - p), but for p = 0.
Mask(w, p) == IF p = 0 THEN {} ELSE OnesShifted(w, w - p)

IpMatches(ip, e) ==
    /\ ip.family = e.net.family
    /\ LET mask == Mask(Width[ip.family], e.prefix)
       IN  ip.bits \intersect mask = e.net.bits \intersect mask

Listed(ip, list) == \E e \in Networks(list) : IpMatches(ip, e)

\* IpAllowlist and the admin filter: no valid entry is no list.
Allows(list, ip) == Networks(list) = {} \/ Listed(ip, list)
Blocks(list, ip) == Listed(ip, list)

-----------------------------------------------------------------------------
(* Virtual hosts.  A host text is the sequence of what its colons separate. *)

\* build_routes: exactly one of the three, and a root that exists.
Usable(site) == /\ Cardinality(site.kinds) = 1
                /\ "root" \in site.kinds => site.root # {}

\* A bug: the port is part of the name.
NameWithPort(text) == text

\* The text up to its last colon.
NameOf(text) == IF Len(text) > 1 THEN SubSeq(text, 1, Len(text) - 1) ELSE text

\* find_vhost: the Host header, and the URI's authority if that names nothing.
Asked(r) == IF r.host = NoName \/ NameOf(r.host) = <<"">> THEN r.uri ELSE NameOf(r.host)

\* The sites of that name, of which the first is taken.
Named(r) == {i \in DOMAIN config.sites :
                Usable(config.sites[i]) /\ config.sites[i].domain = Asked(r)}
First(r) == {i \in Named(r) : \A j \in Named(r) : i <= j}

\* The file a static site serves for a path, or a refusal.
Served(root, path) ==
    CASE path = "/../file"                 -> "forbidden"
      [] path # "/../file" /\ path \in root -> path
      [] path # "/../file" /\ path \notin root ->
            IF "/" \in root THEN "/" ELSE "not found"

-----------------------------------------------------------------------------
(* Answers. *)

Answer(a, r, to, site, status) ==
    reply' = [to |-> to, site |-> site, call |-> r, from |-> a, status |-> status]
Refused(a, r, status) == Answer(a, r, "nobody", 0, status)

\* A request of the webhook route passes the limiter, or does not.
TooMany(a, r) ==
    /\ r.door = "webhook"
    /\ Limited(a)
    /\ Refused(a, r, "too many requests")

\* Then the lists decide, the allowlist first.
TurnedAway(a, r) ==
    /\ r.door = "webhook"
    /\ Admitted(a)
    /\ ~Allows(config.allowed, a) \/ Blocks(config.blacklist, a)
    /\ Refused(a, r, "forbidden")

\* The handler gets a body as a whole, or is not called.
Webhook(a, r) ==
    /\ r.door = "webhook"
    /\ Admitted(a)
    /\ Allows(config.allowed, a) /\ ~Blocks(config.blacklist, a)
    /\ \/ r.body = "large" /\ Refused(a, r, "too large")
       \/ r.body = "broken" /\ Refused(a, r, "bad request")
       \/ r.body \notin {"large", "broken"} /\ Answer(a, r, "webhook", 0, "ok")

\* The admin API has a list of its own, and no limit.
Barred(a, r) ==
    /\ r.door \in {"admin", "create"}
    /\ ~Allows(config.admin, a)
    /\ Refused(a, r, "forbidden")
    /\ UNCHANGED limiterVars

\* health, list_routes and delete_route do not look at the body.
Admin(a, r) ==
    /\ r.door = "admin"
    /\ Allows(config.admin, a)
    /\ Answer(a, r, "admin", 0, "ok")
    /\ UNCHANGED limiterVars

\* create_route takes a body that arrives, is no longer than the server's own
\* limit (which need not be the webhook's) and says email, host and port; every
\* other answer of the extractor (400, 415, 422) counts as a bad request.
CreateRoute(a, r) ==
    /\ r.door = "create"
    /\ Allows(config.admin, a)
    /\ \/ r.body \in {"small", "large"} /\ Answer(a, r, "admin", 0, "ok")
       \/ r.body = "large" /\ Refused(a, r, "too large")
       \/ Refused(a, r, "bad request")
    /\ UNCHANGED limiterVars

\* What a request to the admin API meets.
AtAdmin(a, r) == Barred(a, r) \/ Admin(a, r) \/ CreateRoute(a, r)

\* Everything else is for the sites: no list, no limit, whoever asks.
NoSite(r) ==
    /\ config.sites # <<>>
    /\ Named(r) = {}
    /\ Refused(NoIp, r, "not found")
    /\ UNCHANGED limiterVars

AtSite(i, kind) ==
    /\ config.sites[i].kinds = {kind}
    /\ UNCHANGED limiterVars

Redirect(r, i) ==
    /\ AtSite(i, "redirect")
    /\ Answer(NoIp, r, "redirect", i, "moved")

Static(r, i) ==
    /\ AtSite(i, "root")
    /\ Answer(NoIp, r, "static", i, Served(config.sites[i].root, r.path))

\* The backend answers, or does not within 30 s.  A body that is over the limit or
\* breaks off is sent as an empty one, with the headers the request came with
\* (to_bytes(..).unwrap_or_default()): the answer is the backend's all the same.
Proxy(r, i) ==
    /\ AtSite(i, "proxy")
    /\ \E status \in {"ok", "bad gateway"} :
          Answer(NoIp, r, "proxy", i, status)

DoorInit == LimiterInit /\ config \in Configs /\ reply = NoAnswer

Passes(a, r) == TooMany(a, r) \/ TurnedAway(a, r) \/ Webhook(a, r)
AtSites(r) ==
    /\ r.door = "site"
    /\ \/ NoSite(r)
       \/ \E i \in First(r) : Redirect(r, i) \/ Static(r, i) \/ Proxy(r, i)

DoorNext == /\ UNCHANGED config
            /\ \/ Tick /\ UNCHANGED reply
               \/ \E r \in Calls :
                     \/ \E a \in Addresses : Passes(a, r) \/ AtAdmin(a, r)
                     \/ AtSites(r)

DoorSpec == DoorInit /\ [][DoorNext]_<<limiterVars, doorVars>>

-----------------------------------------------------------------------------
(* Properties. *)

\* The reference for address lists: the first bits of both addresses agree.
Within(ip, t) ==
    /\ Parses(t)
    /\ ip.family = t.net.family
    /\ \A i \in 1..(IF t.prefix = NoPrefix THEN Width[ip.family] ELSE t.prefix) :
          i \in ip.bits <=> i \in t.net.bits
OnList(ip, list) == \E t \in list : Within(ip, t)
NoList(list) == ~\E t \in list : Parses(t)

\* Who is turned away is who the lists, read bit by bit, do not admit
\* (security.rs:23-36, push.rs:62-67, :97-100, admin.rs:77): at prefix 0, at the
\* full width, and for lists without a valid entry.
ListsDecide ==
    reply # NoAnswer /\ reply.status # "too many requests" =>
        /\ reply.call.door = "webhook" =>
              (reply.status = "forbidden" <=>
                 \/ ~NoList(config.allowed) /\ ~OnList(reply.from, config.allowed)
                 \/ OnList(reply.from, config.blacklist))
        /\ reply.call.door \in {"admin", "create"} =>
              (reply.status = "forbidden" <=>
                 ~NoList(config.admin) /\ ~OnList(reply.from, config.admin))

\* A request that names a site, with or without a port, is answered by the first
\* usable site of that name, and by none if there is none (vhost.rs:210-251).
Means(r, name) == r.host # NoName /\ r.host[1] = name /\ Len(r.host) \in {1, 2}
Bears(i, name) == Usable(config.sites[i]) /\ config.sites[i].domain = <<name>>
SiteIsNamed ==
    reply # NoAnswer /\ reply.call.door = "site" /\ reply.call.host # NoName =>
        LET name == reply.call.host[1]
        IN  Means(reply.call, name) /\ name # "" =>
               \/ /\ reply.site \in DOMAIN config.sites /\ Bears(reply.site, name)
                  /\ \A i \in DOMAIN config.sites : Bears(i, name) => reply.site <= i
               \/ /\ reply.site = 0 /\ reply.status = "not found"
                  /\ \A i \in DOMAIN config.sites : ~Bears(i, name)
=============================================================================
