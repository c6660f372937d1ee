---------------------------- MODULE MCConnection ----------------------------
(* Instances of Connection: the upstream proxy's scripts in HTTP and SOCKS5,
   accepted, refused and broken, against an ordinary client; and the client's
   hellos, whole, cut, silent and not TLS, against an ordinary upstream. *)
EXTENDS Connection

Name(l) == [len |-> FoldSeq(+, Len(l) - 1, l), labels |-> ToSet(l), clean |-> TRUE]
Good == Name(<<7, 3>>)
Longest == Name(<<63, 63, 63, 61>>)
TooLong == Name(<<63, 63, 63, 63, 63>>)
Empty == Name(<<0>>)
Dirty == [Name(<<9>>) EXCEPT !.clean = FALSE]

Server(p, s, ok) == [protocol |-> p, handshake |-> s, grants |-> ok]

HttpServers ==
    {Server("http", <<200, 13, 10, 7>> \o CRLF2, TRUE),         \* as long as the buffer
     Server("http", <<200>> \o CRLF2, TRUE),                    \* payload in the same read
     Server("http", <<407>> \o CRLF2, FALSE),
     Server("http", <<200, 7, 7, 7, 7>> \o CRLF2, FALSE)}       \* too large

V4 == <<5, 0, 0, 1, 10, 0, 0, 1, 9, 9>>
SocksServers ==
    {Server("socks5", <<5, 0>> \o V4, TRUE),
     Server("socks5", <<5, 2, 1, 0>> \o V4, TRUE),
     Server("socks5", <<5, 2, 1, 1>> \o V4, FALSE),
     Server("socks5", <<5, 0>> \o <<5, 0, 0, 4>> \o [i \in 1..16 |-> 0] \o <<9, 9>>, TRUE),
     Server("socks5", <<5, 0>> \o <<5, 0, 0, 3, 2, 1, 1, 9, 9>>, TRUE),
     Server("socks5", <<5, 0>> \o <<5, 0, 0, 7>>, FALSE),
     Server("socks5", <<5, 0>> \o <<5, 2, 0, 1, 0, 0, 0, 0, 0, 0>>, FALSE),
     Server("socks5", <<5, 255>>, FALSE),
     Server("socks5", <<4, 0>>, FALSE)}

Whole == [bytes |-> <<22, 3, 1, 99, 0>>, host |-> Good]
Hellos ==
    {Whole,
     [bytes |-> <<22, 5, 1, 0, 0, 0, 99>>, host |-> Good],  \* named past MAX_CLIENT_HELLO
     [bytes |-> <<22, 2, 2, 99>>, host |-> Good],           \* not a ClientHello
     [bytes |-> <<22, 2, 1, 99>>, host |-> TooLong],
     [bytes |-> <<22, 2, 1, 99>>, host |-> Dirty],
     [bytes |-> <<71, 0>>, host |-> None]}
Quiet == [bytes |-> << >>, host |-> None]

Elsewhere == [ip |-> "203.0.113.5", port |-> 443]
Plain == [ip |-> "203.0.113.5", port |-> 80]
Itself == [ip |-> "192.168.1.1", port |-> 8443]

MakePlan(job, dest, auth, srv, hello, nat) ==
    [job |-> job, dest |-> dest, protocol |-> srv.protocol, auth |-> auth,
     handshake |-> srv.handshake, payload |-> <<101, 102>>, grants |-> srv.grants,
     hello |-> hello, nat |-> nat, sni |-> TRUE]

Ordinary == Server("socks5", <<5, 0>> \o V4, TRUE)

MCPlans ==
    {MakePlan("tcp", Plain, "valid", srv, Quiet, TRUE) : srv \in HttpServers}
    \cup {MakePlan(job, Plain, "valid", srv, Quiet, TRUE) :
              job \in {"tcp", "udp"}, srv \in SocksServers}
    \cup {MakePlan("udp", Plain, "valid", srv, Quiet, TRUE) : srv \in HttpServers}
    \cup {MakePlan("tcp", Plain, auth, Server("socks5", <<5, 2, 1, 0>> \o V4, FALSE), Quiet, TRUE) :
              auth \in {"none", "invalid"}}
    \cup {MakePlan("tcp", Elsewhere, "none", Ordinary, hello, TRUE) : hello \in Hellos}
    \cup {MakePlan("tcp", Plain, "none", Ordinary, Whole, nat) : nat \in BOOLEAN}
    \cup {MakePlan("tcp", Itself, "none", Ordinary, Whole, TRUE)}

MCTableHosts == {Good, Longest, TooLong, Empty}
MCListenAddr == Itself
=============================================================================
