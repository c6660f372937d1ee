------------------------------- MODULE DnsTcp -------------------------------
(***************************************************************************)
(* The TCP listener of the DNS forwarder (RFC 7766): run_tcp,              *)
(* handle_tcp_dns_client and forward_tcp_dns_query of src/dns.rs, together *)
(* with the IP -> name table that it shares with the UDP listener.         *)
(*                                                                         *)
(* The accept loop spawns one task per connection.  The task reads a       *)
(* length prefix, the query behind it, forwards the query on an upstream   *)
(* connection of its own, records the addresses in the table one by one,   *)
(* writes the response and starts over.  Clients pipeline, stall in the    *)
(* middle of a query, stop and reset; the upstream fails or stays silent.  *)
(* A close for whatever reason ends every query of that connection.        *)
(***************************************************************************)
EXTENDS DnsMaps, Sequences

CONSTANTS
    Conns,       \* the client connections of a behaviour
    Names, Ips,
    Queries,     \* Queries[c]: what the client of c may send, see Query
    Answers,     \* what the upstream server returns: [ips, ttl]
    Others,      \* what the UDP listener resolves meanwhile: [ip, name, ttl]
    Ttls,        \* TTLs in Answers and Others
    StripAaaa,   \* --dns-strip-aaaa
    Window,      \* bound: responses that fit into the buffers of a client that does not read
    MaxQueries,  \* bound: MaxQueries[c]: queries on connection c
    MaxTime      \* bound: last instant of the model's clock

VARIABLES
    table, now, latest,   \* the shared table, see DnsTable
    resolved,    \* auxiliary: every <<name, ip>> an upstream answer has ever borne out
    listener,    \* "up", or "failed" once accept has returned an error
    pc,          \* where the task of each connection is
    todo,        \* the answer a task holds: addresses still to be recorded, and the TTL
    asked,       \* queries whose length prefix the client has sent
    whole,       \* how many of them have arrived to the last byte
    done,        \* how many of them the task's loop has got through
    unread,      \* responses that the client has not read
    replies,     \* replies[c][q]: what was written for query q
    lost         \* auxiliary: lost[c]: queries that will never be answered

conn == <<pc, todo, asked, whole, done, unread, replies, lost>>
vars == <<table, now, latest, resolved, listener, conn>>

Table == INSTANCE DnsTable

(* A query: `short` says its length prefix is below the size of a header,
   `echoes` that build_nodata can walk it; an unparsable name is "". *)
Query == [name : Names, aaaa : BOOLEAN, echoes : BOOLEAN, short : BOOLEAN]

ASSUME TcpAssumption ==
    /\ Queries \in [Conns -> SUBSET Query]
    /\ Answers \subseteq [ips : Seq(Ips), ttl : Ttls]
    /\ Others \subseteq [ip : Ips, name : Names, ttl : Ttls]
    /\ Ttls \subseteq Nat \cup {NoTtl}
    /\ StripAaaa \in BOOLEAN /\ Window \in Nat \ {0}
    /\ MaxQueries \in [Conns -> Nat] /\ MaxTime \in Nat

Idle == [ips |-> << >>, answer |-> << >>, ttl |-> NoTtl]

-----------------------------------------------------------------------------
Init ==
    /\ Table!Init
    /\ resolved = {}
    /\ listener = "up"
    /\ pc = [c \in Conns |-> "none"]
    /\ todo = [c \in Conns |-> Idle]
    /\ asked = [c \in Conns |-> << >>]
    /\ whole = [c \in Conns |-> 0]
    /\ done = [c \in Conns |-> 0]
    /\ unread = [c \in Conns |-> 0]
    /\ replies = [c \in Conns |-> [q \in 1..MaxQueries[c] |-> << >>]]
    /\ lost = [c \in Conns |-> {}]

(* The query a task is at: the next one in its stream. *)
Current(c) == done[c] + 1
CurrentQuery(c) == asked[c][Current(c)]

(***************************************************************************)
(* The environment: clients, the UDP listener's insertions, time.          *)
(***************************************************************************)
Connected(c) == pc[c] \notin {"none", "closed"}

ClientSendsLength(c, d) ==
    /\ Connected(c)
    /\ Len(asked[c]) < MaxQueries[c] /\ whole[c] = Len(asked[c])
    /\ asked' = [asked EXCEPT ![c] = Append(@, d)]
    /\ UNCHANGED <<table, now, latest, resolved, listener, pc, todo, whole, done,
                   unread, replies, lost>>

ClientSendsBody(c) ==
    /\ Connected(c) /\ whole[c] < Len(asked[c])
    /\ whole' = [whole EXCEPT ![c] = @ + 1]
    /\ UNCHANGED <<table, now, latest, resolved, listener, pc, todo, asked, done,
                   unread, replies, lost>>

ClientReads(c) ==
    /\ Connected(c) /\ unread[c] > 0
    /\ unread' = [unread EXCEPT ![c] = @ - 1]
    /\ UNCHANGED <<table, now, latest, resolved, listener, pc, todo, asked, whole,
                   done, replies, lost>>

OtherInserts(o) ==
    /\ Table!Insert(o.ip, o.name, o.ttl)
    /\ resolved' = resolved \cup {<<o.name, o.ip>>}
    /\ UNCHANGED <<listener, conn>>

Tick == Table!Tick /\ UNCHANGED <<resolved, listener, conn>>

(***************************************************************************)
(* The accept loop.  An error ends it, and with it dns::run.               *)
(***************************************************************************)
Accept(c) ==
    /\ listener = "up" /\ pc[c] = "none"
    /\ pc' = [pc EXCEPT ![c] = "length"]
    /\ UNCHANGED <<table, now, latest, resolved, listener, todo, asked, whole,
                   done, unread, replies, lost>>

AcceptFails ==
    /\ listener = "up"
    /\ listener' = "failed"
    /\ UNCHANGED <<table, now, latest, resolved, conn>>

(***************************************************************************)
(* A connection's task.                                                    *)
(***************************************************************************)
(* Return from handle_tcp_dns_client: the stream is dropped. *)
Close(c) ==
    /\ pc' = [pc EXCEPT ![c] = "closed"]
    /\ todo' = [todo EXCEPT ![c] = Idle]
    /\ lost' = [lost EXCEPT ![c] = DOMAIN asked[c] \ {q \in 1..MaxQueries[c] : replies[c][q] # << >>}]
    /\ UNCHANGED <<table, now, latest, resolved, listener, asked, whole, done, unread, replies>>

(* The length prefix of the next query is there; one that is too short ends
   the connection. *)
ReadLength(c) ==
    /\ pc[c] = "length" /\ Current(c) \in DOMAIN asked[c]
    /\ \/ CurrentQuery(c).short /\ Close(c)
       \/ /\ ~CurrentQuery(c).short
          /\ pc' = [pc EXCEPT ![c] = "body"]
          /\ UNCHANGED <<table, now, latest, resolved, listener, todo, asked, whole,
                         done, unread, replies, lost>>

(* No next query: TCP_DNS_IDLE_TIMEOUT, end of file or a read error. *)
ReadLengthEnds(c) ==
    /\ pc[c] = "length" /\ Current(c) \notin DOMAIN asked[c]
    /\ Close(c)

Stripped(d) == StripAaaa /\ d.aaaa

(* The whole query is there and goes to the upstream server. *)
ReadBody(c) ==
    /\ pc[c] = "body" /\ Current(c) <= whole[c] /\ ~Stripped(CurrentQuery(c))
    /\ pc' = [pc EXCEPT ![c] = "forward"]
    /\ UNCHANGED <<table, now, latest, resolved, listener, todo, asked, whole,
                   done, unread, replies, lost>>

(* An AAAA query under --dns-strip-aaaa goes no further: NODATA is written,
   or nothing at all if the query cannot be echoed, and the loop continues. *)
StripQuery(c) ==
    /\ pc[c] = "body" /\ Current(c) <= whole[c] /\ Stripped(CurrentQuery(c))
    /\ pc' = [pc EXCEPT ![c] = "length"]
    /\ done' = [done EXCEPT ![c] = @ + 1]
    /\ \/ /\ CurrentQuery(c).echoes /\ unread[c] < Window
          /\ replies' = [replies EXCEPT ![c][Current(c)] =
                             <<[name |-> CurrentQuery(c).name, ips |-> << >>]>>]
          /\ unread' = [unread EXCEPT ![c] = @ + 1]
          /\ UNCHANGED lost
       \/ /\ ~CurrentQuery(c).echoes
          /\ lost' = [lost EXCEPT ![c] = @ \cup {Current(c)}]
          /\ UNCHANGED <<replies, unread>>
    /\ UNCHANGED <<table, now, latest, resolved, listener, todo, asked, whole>>

(* The rest of the query does not come: TCP_DNS_QUERY_TIMEOUT, end of file or
   an error. *)
ReadBodyFails(c) ==
    /\ pc[c] = "body" /\ Current(c) > whole[c]
    /\ Close(c)

(* The upstream server's response to the query (external). *)
ForwardAnswered(c, a) ==
    /\ pc[c] = "forward"
    /\ pc' = [pc EXCEPT ![c] = "record"]
    /\ todo' = [todo EXCEPT ![c] = [ips |-> a.ips, answer |-> a.ips, ttl |-> a.ttl]]
    /\ resolved' = resolved \cup {<<CurrentQuery(c).name, ip>> : ip \in Range(a.ips)}
    /\ UNCHANGED <<table, now, latest, listener, asked, whole, done, unread,
                   replies, lost>>

ForwardWaits(c) ==                \* mutated: nothing ends the wait for the upstream server
    /\ pc[c] = "forward" /\ listener = "failed"
    /\ Close(c)

(* No connection, a response of invalid length, or TCP_DNS_QUERY_TIMEOUT. *)
ForwardFails(c) ==
    /\ pc[c] = "forward"
    /\ Close(c)

RecordUnderLast(c) ==             \* mutated: the name of the query read last
    /\ pc[c] = "record" /\ todo[c].ips # << >>
    /\ Table!Insert(Head(todo[c].ips), asked[c][Len(asked[c])].name, todo[c].ttl)
    /\ todo' = [todo EXCEPT ![c].ips = Tail(@)]
    /\ UNCHANGED <<resolved, listener, pc, asked, whole, done, unread, replies, lost>>

(* One address after the other, each under its own lock on the table. *)
Record(c) ==
    /\ pc[c] = "record" /\ todo[c].ips # << >>
    /\ Table!Insert(Head(todo[c].ips), CurrentQuery(c).name, todo[c].ttl)
    /\ todo' = [todo EXCEPT ![c].ips = Tail(@)]
    /\ UNCHANGED <<resolved, listener, pc, asked, whole, done, unread, replies, lost>>

RespondToLast(c) ==               \* mutated: addressed to the query that arrived last
    /\ pc[c] = "record" /\ todo[c].ips = << >> /\ unread[c] < Window
    /\ replies' = [replies EXCEPT ![c][Len(asked[c])] =
                       <<[name |-> CurrentQuery(c).name, ips |-> todo[c].answer]>>]
    /\ unread' = [unread EXCEPT ![c] = @ + 1]
    /\ todo' = [todo EXCEPT ![c] = Idle]
    /\ pc' = [pc EXCEPT ![c] = "length"]
    /\ done' = [done EXCEPT ![c] = @ + 1]
    /\ UNCHANGED <<table, now, latest, resolved, listener, asked, whole, lost>>

(* Written once the client's buffers take it: there is no timeout here. *)
Respond(c) ==
    /\ pc[c] = "record" /\ todo[c].ips = << >> /\ unread[c] < Window
    /\ replies' = [replies EXCEPT ![c][Current(c)] =
                       <<[name |-> CurrentQuery(c).name, ips |-> todo[c].answer]>>]
    /\ unread' = [unread EXCEPT ![c] = @ + 1]
    /\ todo' = [todo EXCEPT ![c] = Idle]
    /\ pc' = [pc EXCEPT ![c] = "length"]
    /\ done' = [done EXCEPT ![c] = @ + 1]
    /\ UNCHANGED <<table, now, latest, resolved, listener, asked, whole, lost>>

(* A task in write_all, of a response or of NODATA. *)
Writing(c) ==
    \/ pc[c] = "record" /\ todo[c].ips = << >>
    \/ /\ pc[c] = "body" /\ Current(c) <= whole[c]
       /\ Stripped(CurrentQuery(c)) /\ CurrentQuery(c).echoes

(* The client has reset the connection: the write fails. *)
WriteFails(c) == Writing(c) /\ Close(c)

-----------------------------------------------------------------------------
Task(c) ==
    \/ ReadLength(c) \/ ReadLengthEnds(c)
    \/ ReadBody(c) \/ ReadBodyFails(c) \/ StripQuery(c)
    \/ ForwardFails(c)
    \/ Record(c) \/ Respond(c)

Client(c) ==
    \/ \E d \in Queries[c] : ClientSendsLength(c, d)
    \/ ClientSendsBody(c) \/ ClientReads(c)

Next ==
    \/ AcceptFails
    \/ \E c \in Conns : Accept(c) \/ Task(c) \/ WriteFails(c) \/ Client(c)
    \/ \E c \in Conns, a \in Answers : ForwardAnswered(c, a)
    \/ \E o \in Others : OtherInserts(o)
    \/ Tick

(***************************************************************************)
(* The runtime keeps polling every task, and every wait of a task but the  *)
(* writes is bounded by a timeout.  Nothing is assumed about clients, the  *)
(* upstream server or the accept loop.                                     *)
(***************************************************************************)
Fairness == \A c \in Conns : WF_vars(Task(c))

Spec == Init /\ [][Next]_vars /\ Fairness

-----------------------------------------------------------------------------
TypeOK ==
    /\ Table!TypeOK
    /\ resolved \subseteq Names \X Ips
    /\ listener \in {"up", "failed"}
    /\ pc \in [Conns -> {"none", "length", "body", "forward", "record", "closed"}]
    /\ todo \in [Conns -> [ips : Seq(Ips), answer : Seq(Ips), ttl : Ttls \cup {NoTtl}]]
    /\ \A c \in Conns :
          /\ asked[c] \in Seq(Queries[c]) /\ whole[c] \in 0..Len(asked[c])
          /\ replies[c] \in [1..MaxQueries[c] -> Seq([name : Names, ips : Seq(Ips)])]
          /\ lost[c] \subseteq 1..MaxQueries[c]
    /\ done \in [Conns -> Nat]
    /\ unread \in [Conns -> 0..Window]

(***************************************************************************)
(* The table, shared by every connection's task and the UDP listener, each *)
(* of which inserts the addresses of one answer one by one.                *)
(***************************************************************************)
(* The table never outgrows its capacity, whatever is inserted by however
   many tasks and however little has expired when it is full
   (DnsTable::insert). *)
WithinCapacity == Table!WithinCapacity

(* A lookup never answers with anything but the name recorded last for the
   address, and never after that recording has expired: neither eviction nor
   the overwriting of an entry by another task brings an older name back
   (DnsTable::insert, DnsTable::lookup). *)
LookupIsLatest == Table!LookupIsLatest

(* A mapping that has not expired is forgotten only to make room in a table
   full of unexpired mappings, and then at most half of them go. *)
EvictionIsLastResort == Table!EvictionIsLastResort

(* What the proxy would send upstream for an address is a name that some
   upstream answer resolved to that address: queries pipelined on one
   connection, and answers arriving on several connections at once, never
   put an address under the name of another query
   (handle_tcp_dns_client). *)
TableTruthful == \A ip \in DOMAIN table : <<table[ip].name, ip>> \in resolved

(***************************************************************************)
(* A connection as a query service: see QueryService.                      *)
(***************************************************************************)
AnswersIt(r, d) == r.name = d.name

Service(c) ==
    INSTANCE QueryService WITH Questions <- Queries[c], Answers <- AnswersIt, Ordered <- TRUE,
                               asked <- asked[c], answers <- replies[c], lost <- lost[c]

(* Every connection, however its steps interleave with those of the others,
   answers its queries in the order in which they were sent, each at most
   once and each with an answer to itself; what has been given up, because
   the query could not be echoed or the connection was closed, is never
   answered later (handle_tcp_dns_client). *)
ImplementsService ==
    /\ \A c \in Conns : Service(c)!Init
    /\ [][\A c \in Conns : [Service(c)!Next]_(Service(c)!vars)]_vars

(* Every query is eventually answered or its connection is closed, whatever
   the client leaves unsent and however silent the upstream server is.  The
   one exception is a client whose full buffers a write waits for and that
   never reads again: nothing bounds that wait (handle_tcp_dns_client). *)
Settled(c) == {q \in DOMAIN asked[c] : replies[c][q] # << >> \/ q \in lost[c]}

WriteBlocked(c) == Writing(c) /\ unread[c] = Window

EventuallySettled ==
    \A c \in Conns : \A q \in 1..MaxQueries[c] :
        q \in DOMAIN asked[c] ~> (q \in Settled(c) \/ []WriteBlocked(c))
=============================================================================
