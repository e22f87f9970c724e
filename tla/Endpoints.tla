----------------------------- MODULE Endpoints -----------------------------
(***************************************************************************)
(* What a route's endpoint goes through (router.rs, health.rs): it is      *)
(* registered as a URL or as host and port, kept as a target URL, written  *)
(* to aimail_routes.toml in one of two forms, read back by one of two      *)
(* parsers, copied from a pattern to an address, and reduced to host:port  *)
(* for the health probe.  A text is a record of its parts here.            *)
(***************************************************************************)
EXTENDS Naturals

CONSTANTS
    Names,          \* host names and IPv4 addresses
    Literals,       \* bracketed IPv6 literals
    Glued,          \* "name:rest" given as a bare host, such as "h:x" or "h:80"
    Ports,          \* the ports an agent may name
    NoPort,         \* a text that names none
    NoHost,         \* a text that names no host
    NoTarget        \* no route

Hosts == Names \union Literals \union Glued

ASSUME HostAssumption == /\ NoHost \notin Hosts /\ "127.0.0.1" \in Names
                         /\ Names \intersect (Literals \union Glued) = {}
                         /\ Literals \intersect Glued = {}
ASSUME PortAssumption == {80, 443, 8645} \subseteq Ports /\ NoPort \notin Ports

(* Paths.  DefaultPath is the path of "host:port" values; one more ends like
   it, another does not. *)
DefaultPath == "/webhooks/amail-inbound"
SuffixPath == "/x/webhooks/amail-inbound"
CustomPath == "/hook"
Paths == {"", DefaultPath, SuffixPath, CustomPath}

Url(s, h, p, q) == [scheme |-> s, host |-> h, port |-> p, path |-> q]

\* The "host:port" form.
Plain(h, p) == Url("", h, p, "")

\* A text with a slash in it is taken for a URL.
IsUrl(t) == t.scheme # "" \/ t.path # ""

\* Texts, of which a URL names its host, and no port that is not a number.
Texts == {t \in [scheme : {"", "http", "https"}, host : Hosts \union {NoHost},
                 port : Ports \union {NoPort}, path : Paths] :
            IsUrl(t) => t.host \in Names \union Literals}

Routes == [url : [scheme : {"http", "https"}, host : Hosts, port : Ports \union {NoPort},
                  path : Paths],
           host : Hosts, port : Ports]
ASSUME RouteAssumption == NoTarget \notin Routes \union Texts

\* The ProfileRoute of a URL: http unless it says https, the rest verbatim.
FromUrl(t) == [url |-> Url(IF t.scheme = "https" THEN "https" ELSE "http",
                           t.host, t.port, t.path),
               host |-> t.host,
               port |-> IF t.port = NoPort THEN 80 ELSE t.port]

New(h, p) == [url |-> Url("http", h, p, DefaultPath), host |-> h, port |-> p]

\* Where parse_addr finds host and port: a literal needs its port, a port alone
\* is one of this machine, a host alone has the default port.
ParseAddr(t) ==
    CASE t.host \in Literals /\ t.port = NoPort -> NoTarget
      [] t.host = NoHost /\ t.port = NoPort     -> NoTarget
      [] t.host = NoHost /\ t.port # NoPort     -> New("127.0.0.1", t.port)
      [] t.host \notin Literals \union {NoHost} /\ t.port = NoPort -> New(t.host, 8645)
      [] OTHER                                  -> New(t.host, t.port)

\* load_routes_file; an entry that does not parse is skipped.
Load(t) == IF IsUrl(t) THEN FromUrl(t) ELSE ParseAddr(t)

\* update_route: the port counts for a bare host only.
Registered(t, p) == IF IsUrl(t) THEN FromUrl(t) ELSE New(t.host, p)

\* The route lookup makes of a pattern that matched: its host and port.
CopyOf(r) == New(r.host, r.port)

-----------------------------------------------------------------------------
(* What the file keeps. *)

EndsLikeDefault(r) == r.url.path \in {DefaultPath, SuffixPath}
\* The target URL begins with http://host:port.
BeginsPlainly(r) == r.url.scheme = "http" /\ r.url.host = r.host /\ r.url.port = r.port

Stored(r, short) == IF short THEN Plain(r.host, r.port) ELSE r.url

\* A bug (what AUDIT-1 A3 is about): the scheme is not looked at.
WrittenAnyScheme(r) == Stored(r, EndsLikeDefault(r))

Written(r) == Stored(r, EndsLikeDefault(r) /\ BeginsPlainly(r))

-----------------------------------------------------------------------------
(* Where requests and probes go. *)

\* Where an HTTP client connects for a target URL; a glued host makes no URL.
Connects(u) == [host |-> u.host,
                port |-> IF u.port # NoPort THEN u.port
                         ELSE IF u.scheme = "https" THEN 443 ELSE 80]

\* A bug: https is probed on the port field, 80 where the URL names none.
TargetKeyOfPort(r) == [host |-> r.url.host, port |-> r.port]

\* route_target_key.
TargetKey(r) ==
    [host |-> r.url.host,
     port |-> IF r.url.port # NoPort THEN r.url.port
              ELSE IF r.url.host \in Literals \/ r.url.scheme = "https" THEN 443 ELSE 80]

\* The health checker splits a key at its first ':' and skips it if what follows
\* is no port.
Probeable(k) == k.host \in Names

\* Two target URLs that lead to one server by one protocol.
SameServer(u, v) == /\ Connects(u) = Connects(v)
                    /\ (u.scheme = "https") = (v.scheme = "https")

\* r is as good as a: same server, same protocol, and the same path, but for one
\* that only ends like the default.  Or there is neither.
AsGoodAs(r, a) ==
    \/ r = NoTarget /\ a = NoTarget
    \/ /\ r # NoTarget /\ a # NoTarget
       /\ SameServer(r.url, a.url)
       /\ a.url.path # SuffixPath => r.url.path = a.url.path
=============================================================================
