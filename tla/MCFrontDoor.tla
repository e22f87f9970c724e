---------------------------- MODULE MCFrontDoor ----------------------------
(* A small instance of FrontDoor: two IPv4 addresses of three bits and an IPv6  *)
(* address of four, and settings that use every form of entry and of site.     *)
EXTENDS FrontDoor, TLC

\* The bits of n in w bits, as the set of those that are 1, the highest first.
Ones(n, w) == {i \in 1..w : (n \div 2 ^ (w - i)) % 2 = 1}
V4(n) == [family |-> "v4", bits |-> Ones(n, 3)]
V6(n) == [family |-> "v6", bits |-> Ones(n, 4)]
Bits == ("v4" :> 3) @@ ("v6" :> 4)
Clients == {V4(5), V6(5)}

Range4(n, p) == [net |-> V4(n), prefix |-> p]
Range6(n, p) == [net |-> V6(n), prefix |-> p]
Unparsable == [net |-> NoIp, prefix |-> NoPrefix]

Site(d, k, files) == [domain |-> d, kinds |-> k, root |-> files]
SomeSites == << Site(<<"a">>, {"root"}, {}),            \* its directory is missing
                Site(<<"a">>, {"proxy"}, {}),
                Site(<<"b">>, {"root"}, {"/", "/file"}),
                Site(<<"b">>, {"redirect"}, {}),
                Site(<<"c">>, {"root"}, {"/file"}),
                Site(<<"d">>, {"proxy", "redirect"}, {}),
                Site(<<"e">>, {"redirect"}, {}),
                Site(<<"[", "", "1]">>, {"redirect"}, {}) >>    \* "[::1]"

Config(l, b, m) == [allowed |-> l, blacklist |-> b, admin |-> m, sites |-> SomeSites]
SomeConfigs == {
    Config({}, {}, {Range4(5, NoPrefix)}),
    Config({Range4(0, 0)}, {Range4(4, 3)}, {Range4(5, 3), Range6(5, NoPrefix)}),
    Config({Range4(7, 1), Range6(2, 0)}, {Range6(4, 3)}, {Range4(6, 4)}),
    Config({Unparsable}, {Range4(5, BadPrefix), Range4(2, 0)}, {Range6(6, 2)}) }

Req(d, h, u, p, b) == [door |-> d, host |-> h, uri |-> u, path |-> p, body |-> b]
Hosts == {<<"a">>, <<"a", "443">>, <<"b">>, <<"c", "80">>, <<"d">>, <<"e">>,
          <<"[", "", "1]">>, <<"[", "", "1]", "443">>}
SomeCalls ==
    {Req("webhook", NoName, NoName, "/", b) : b \in Bodies}
    \union {Req("admin", NoName, NoName, "/", "empty")}
    \union {Req("create", NoName, NoName, "/", b) : b \in Bodies}
    \union {Req("site", h, NoName, "/", "small") : h \in Hosts}
    \union {Req("site", <<"b">>, NoName, p, "empty") : p \in Paths}
    \union {Req("site", <<"a">>, NoName, "/", b) : b \in Bodies}
    \union {Req("site", h, <<"b">>, "/", "empty") : h \in {NoName, <<"", "80">>}}
=============================================================================
