------------------------------ MODULE MCDnsUdp ------------------------------
(* Instances of DnsUdp: two clients that use the same transaction id, two
   spellings of one name and a second name, and an address shared by both. *)
EXTENDS DnsUdp

MCNames == {"a", "A", "b"}
MCLower == [n \in MCNames |-> IF n = "A" THEN "a" ELSE n]

MCDatagrams ==
    {[client |-> "c1", id |-> 7, name |-> "a", qtype |-> 1, echoes |-> TRUE],
     [client |-> "c2", id |-> 7, name |-> "b", qtype |-> 1, echoes |-> TRUE],
     [client |-> "c2", id |-> 8, name |-> "A", qtype |-> 28, echoes |-> TRUE],
     [client |-> "c1", id |-> 9, name |-> NoName, qtype |-> 28, echoes |-> FALSE]}

(* A query for the name servers of the root, and another query. *)
MCRootDatagrams ==
    {[client |-> "c1", id |-> 7, name |-> NoName, qtype |-> 2, echoes |-> TRUE],
     [client |-> "c2", id |-> 7, name |-> "b", qtype |-> 1, echoes |-> TRUE]}

MCAnswers == {[ips |-> <<"x">>, ttl |-> NoTtl]}

MCForged ==
    {[id |-> 1, qr |-> TRUE, name |-> "A", qtype |-> 1, ips |-> <<"x", "y">>, ttl |-> 0],
     [id |-> 2, qr |-> FALSE, name |-> "a", qtype |-> 1, ips |-> <<"y">>, ttl |-> 0],
     [id |-> 2, qr |-> TRUE, name |-> NoName, qtype |-> 1, ips |-> <<"y">>, ttl |-> 0]}

(* A TCP client resolves an address that a UDP client gets as well. *)
MCOthers == {[ip |-> "x", name |-> "b", ttl |-> 0]}
=============================================================================
