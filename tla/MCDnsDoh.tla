------------------------------ MODULE MCDnsDoh ------------------------------
(* Instances of DnsDoh: two clients with the same question under different
   ids, and a question that cannot be echoed. *)
EXTENDS DnsDoh

KeyA == [name |-> "a", aaaa |-> FALSE, echoes |-> TRUE]
KeyBad == [name |-> "", aaaa |-> FALSE, echoes |-> FALSE]
Key6 == [name |-> "a", aaaa |-> TRUE, echoes |-> TRUE]

MCDatagrams ==
    {[client |-> "c1", id |-> 7, key |-> KeyA],
     [client |-> "c2", id |-> 8, key |-> KeyA],
     [client |-> "c1", id |-> 7, key |-> KeyBad],
     [client |-> "c2", id |-> 7, key |-> Key6]}

(* One answer granted as much as MIN_TTL; one granted less, and without an address. *)
MCAnswers == {[ips |-> <<"x">>, ttl |-> 2], [ips |-> << >>, ttl |-> 0]}
=============================================================================
