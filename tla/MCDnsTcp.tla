------------------------------ MODULE MCDnsTcp ------------------------------
(* Two connections, a table that two addresses fill, and a third address that
   the UDP listener resolves meanwhile. *)
EXTENDS DnsTcp

QueryA == [name |-> "a", aaaa |-> FALSE, echoes |-> TRUE, short |-> FALSE]
QueryB == [name |-> "b", aaaa |-> FALSE, echoes |-> TRUE, short |-> FALSE]
Query6 == [name |-> "b", aaaa |-> TRUE, echoes |-> TRUE, short |-> FALSE]
BadQuery6 == [name |-> "", aaaa |-> TRUE, echoes |-> FALSE, short |-> FALSE]
ShortQuery == [name |-> "", aaaa |-> FALSE, echoes |-> FALSE, short |-> TRUE]

(* One connection pipelines, the other asks a single question. *)
MCConns == {"c1", "c2"}
MCQueries == [c \in MCConns |-> IF c = "c1" THEN {QueryA, Query6, BadQuery6} ELSE {QueryB, ShortQuery}]
MCMaxQueries == [c \in MCConns |-> IF c = "c1" THEN 2 ELSE 1]

MCAnswers == {[ips |-> <<"x", "y">>, ttl |-> NoTtl]}

MCOthers == {[ip |-> "z", name |-> "u", ttl |-> 9]}

=============================================================================
