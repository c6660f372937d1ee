---------------------------- MODULE QueryService ----------------------------
(***************************************************************************)
(* What a DNS listener of src/dns.rs promises its clients, without a word  *)
(* about transaction ids, pending maps, connections or upstream servers:   *)
(* queries arrive one after the other; a query is answered at most once,   *)
(* with an answer to itself, or given up, and what has been settled stays  *)
(* as it is.  A listener that serves a TCP stream also keeps the order of  *)
(* the queries.                                                            *)
(***************************************************************************)
EXTENDS Naturals, Sequences

CONSTANTS Questions,        \* the queries clients may send
          Answers(_, _),    \* Answers(r, d): r is an answer to query d
          Ordered           \* answers leave in the order of the queries

VARIABLES asked,     \* every query so far, in order of arrival
          answers,   \* answers[q]: what was sent for query q, a sequence
          lost       \* queries given up

vars == <<asked, answers, lost>>

Init ==
    /\ asked = << >>
    /\ answers \in [DOMAIN answers -> {<< >>}]
    /\ lost = {}

Settled(q) == answers[q] # << >> \/ q \in lost

Ask(d) ==
    /\ asked' = Append(asked, d)
    /\ UNCHANGED <<answers, lost>>

(* A query may be settled on arrival, so q need not be in asked yet. *)
Answer(q) ==
    /\ q \in DOMAIN asked' /\ ~Settled(q)
    /\ Ordered => \A p \in DOMAIN asked : p < q => Settled(p)
    /\ DOMAIN answers' = DOMAIN answers
    /\ Len(answers'[q]) = 1 /\ Answers(answers'[q][1], asked'[q])
    /\ \A p \in DOMAIN answers : p # q => answers'[p] = answers[p]

GiveUp ==
    /\ lost \subseteq lost'
    /\ \A q \in lost' \ lost : q \in DOMAIN asked' /\ ~Settled(q)

Next ==
    \/ \E d \in Questions : Ask(d)
    \/ /\ \/ UNCHANGED asked
          \/ \E d \in Questions : asked' = Append(asked, d)
       /\ \/ (\E q \in DOMAIN answers : Answer(q)) /\ UNCHANGED lost
          \/ GiveUp /\ UNCHANGED answers

Spec == Init /\ [][Next]_vars
=============================================================================
