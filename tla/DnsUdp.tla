------------------------------- MODULE DnsUdp -------------------------------
(***************************************************************************)
(* The UDP listener of the DNS forwarder with a UDP upstream: run_udp,     *)
(* pending_insert and pending_take_match of src/dns.rs.                    *)
(*                                                                         *)
(* Two tasks share the map of pending queries.  The main loop takes a      *)
(* client's datagram, records it under a fresh upstream transaction id and *)
(* sends it on; the upstream reader matches each packet from upstream with *)
(* a pending query, records the addresses it carries in the IP -> name     *)
(* table and returns it to the client under the client's own id.  The TCP  *)
(* listener (module DnsTcp) records into the same table meanwhile.         *)
(*                                                                         *)
(* The steps of the two tasks interleave wherever the code releases a lock *)
(* or awaits.  UDP loses, duplicates and reorders: an answer to anything   *)
(* ever sent upstream may arrive at any time and any number of times, and  *)
(* so may the packets of the set Forged, which answer nothing.             *)
(* Datagrams shorter than a DNS header are skipped by both loops before    *)
(* they touch any state and are left out.                                  *)
(***************************************************************************)
EXTENDS DnsMaps, Sequences

CONSTANTS
    Names,                \* query names, as spelled
    NoName,               \* parse_query_name failed (the code's "")
    Lower,                \* [Names -> Names]: ASCII case folding
    Ips,
    Datagrams,            \* the client queries considered
    Answers,              \* what an upstream answer carries: [ips, ttl]
    Forged,               \* packets that answer no query of ours
    Others,               \* what the TCP listener resolves meanwhile: [ip, name, ttl]
    UpIds,                \* upstream transaction ids
    NoId, Idle,           \* distinguished values
    AAAA,                 \* DNS_TYPE_AAAA
    StripAaaa,            \* --dns-strip-aaaa
    PENDING_QUERY_TTL,
    MAX_PENDING_QUERIES,
    MaxQueries,           \* bound: client datagrams in a behaviour
    MaxTime               \* bound: last instant of the model's clock

VARIABLES
    now,       \* Instant::now()
    asked,     \* every client datagram so far, in order of arrival
    main,      \* what the main loop holds between two of its steps, or Idle
    pending,   \* HashMap<u16, PendingQuery>
    wire,      \* packets sent to the upstream server
    reader,    \* what the upstream reader holds, or Idle
    table,     \* the shared IP -> name table
    replies,   \* what was sent to the client for each element of asked
    lost       \* auxiliary: queries given up without an answer

vars == <<now, asked, main, pending, wire, reader, table, replies, lost>>

-----------------------------------------------------------------------------
(***************************************************************************)
(* A client datagram: `echoes` says whether build_empty_response can walk  *)
(* its question section.  A question without a parsable name or type is    *)
(* kept and forwarded under "" and 0.                                      *)
(***************************************************************************)
Datagram == [client : STRING, id : Nat, name : Names \cup {NoName},
             qtype : Nat, echoes : BOOLEAN]

(* A packet on the upstream socket; qr is the response bit. *)
Packet == [id : UpIds, qr : BOOLEAN, name : Names \cup {NoName}, qtype : Nat,
           ips : Seq(Ips), ttl : Nat \cup {NoTtl}]

(***************************************************************************)
(* PendingQuery.  `query` is auxiliary: the position in asked of the       *)
(* datagram this entry was made from.                                      *)
(***************************************************************************)
PendingQuery == [client : STRING, client_tx_id : Nat, name : Names \cup {NoName},
                 qtype : Nat, created : Nat, query : 1..MaxQueries]

Reply == [to : STRING, id : Nat, name : Names \cup {NoName}, qtype : Nat,
          ips : Seq(Ips)]

ASSUME UdpAssumption ==
    /\ NoName \notin Names /\ Lower \in [Names -> Names]
    /\ Datagrams \subseteq Datagram
    /\ Answers \subseteq [ips : Seq(Ips), ttl : Nat \cup {NoTtl}]
    /\ Forged \subseteq Packet
    /\ Others \subseteq [ip : Ips, name : Names, ttl : Nat \cup {NoTtl}]
    /\ NoId \notin UpIds
    /\ Idle \notin [entry : PendingQuery, up : UpIds \cup {NoId}]
    /\ Idle \notin [packet : Packet, entry : PendingQuery, todo : Seq(Ips)]
    /\ AAAA \in Nat
    /\ StripAaaa \in BOOLEAN
    /\ PENDING_QUERY_TTL \in Nat \ {0}
    /\ MAX_PENDING_QUERIES \in Nat \ {0}
    /\ MaxQueries \in Nat /\ MaxTime \in Nat

-----------------------------------------------------------------------------
Init ==
    /\ now = 0
    /\ asked = << >>
    /\ main = Idle
    /\ pending = << >>
    /\ wire = {}
    /\ reader = Idle
    /\ table = << >>
    /\ replies = [q \in 1..MaxQueries |-> << >>]
    /\ lost = {}

(* eq_ignore_ascii_case; a name that was not parsed only equals itself. *)
SameName(a, b) ==
    \/ a = NoName /\ b = NoName
    \/ a \in Names /\ b \in Names /\ Lower[a] = Lower[b]

Tick ==
    /\ now < MaxTime
    /\ now' = now + 1
    /\ UNCHANGED <<asked, main, pending, wire, reader, table, replies, lost>>

(* A task of the TCP listener records one of its addresses. *)
OtherInserts(o) ==
    /\ table' \in TableInsert(table, o.ip, o.name, o.ttl, now)
    /\ UNCHANGED <<now, asked, main, pending, wire, reader, replies, lost>>

(***************************************************************************)
(* Main loop.                                                              *)
(***************************************************************************)
Stripped(d) == StripAaaa /\ d.qtype = AAAA

(* An AAAA query under --dns-strip-aaaa: NODATA, or nothing when the query
   cannot be echoed; never forwarded. *)
StripQuery(d) ==
    /\ main = Idle
    /\ Len(asked) < MaxQueries
    /\ Stripped(d)
    /\ asked' = Append(asked, d)
    /\ LET q == Len(asked) + 1
           nodata == [to |-> d.client, id |-> d.id, name |-> d.name,
                      qtype |-> d.qtype, ips |-> << >>]
       IN  IF d.echoes
           THEN /\ replies' = [replies EXCEPT ![q] = Append(@, nodata)]
                /\ UNCHANGED lost
           ELSE /\ lost' = lost \cup {q}
                /\ UNCHANGED replies
    /\ UNCHANGED <<now, main, pending, wire, reader, table>>

(* Any other query: the entry is built (created = Instant::now()) before the
   lock on the pending map is taken.  (An error of recv_from ends the whole
   forwarder: DnsDies of module Service.) *)
ReceiveQuery(d) ==
    /\ main = Idle
    /\ Len(asked) < MaxQueries
    /\ ~Stripped(d)
    /\ asked' = Append(asked, d)
    /\ main' = [entry |-> [client |-> d.client, client_tx_id |-> d.id,
                           name |-> d.name, qtype |-> d.qtype,
                           created |-> now, query |-> Len(asked) + 1],
                up |-> NoId]
    /\ UNCHANGED <<now, pending, wire, reader, table, replies, lost>>

(* pending_insert: the sweep, and the oldest entries that then have to go so
   that the map stays below its cap. *)
Swept == {u \in DOMAIN pending : now - pending[u].created < PENDING_QUERY_TTL}

OldestIsNewest(S) ==                        \* mutated: comparison reversed
    {old \in SUBSET S :
        /\ Cardinality(old) = IF Cardinality(S) < MAX_PENDING_QUERIES THEN 0
                              ELSE Cardinality(S) - MAX_PENDING_QUERIES + 1
        /\ \A o \in old, k \in S \ old : pending[o].created >= pending[k].created}

Oldest(S) ==
    {old \in SUBSET S :
        /\ Cardinality(old) = IF Cardinality(S) < MAX_PENDING_QUERIES THEN 0
                              ELSE Cardinality(S) - MAX_PENDING_QUERIES + 1
        /\ \A o \in old, k \in S \ old : pending[o].created <= pending[k].created}

QueriesOf(S) == {pending[u].query : u \in S}

(* A random id turns out to be free. *)
PendingInsert ==
    /\ main # Idle /\ main.up = NoId
    /\ \E old \in Oldest(Swept), up \in UpIds :
        LET kept == Swept \ old
        IN  /\ up \notin kept
            /\ pending' = Put(Restrict(pending, kept), up, main.entry)
            /\ main' = [main EXCEPT !.up = up]
            /\ lost' = lost \cup QueriesOf(DOMAIN pending \ kept)
    /\ UNCHANGED <<now, asked, wire, reader, table, replies>>

(* All 64 random ids are taken: the query is dropped, the sweep stays. *)
PendingInsertFails ==
    /\ main # Idle /\ main.up = NoId
    /\ \E old \in Oldest(Swept) :
        LET kept == Swept \ old
        IN  /\ kept # {}
            /\ pending' = Restrict(pending, kept)
            /\ lost' = lost \cup QueriesOf(DOMAIN pending \ kept) \cup {main.entry.query}
    /\ main' = Idle
    /\ UNCHANGED <<now, asked, wire, reader, table, replies>>

(* The query goes upstream under the new id.  A send error is only logged: to
   the rest of the system it is a packet that was lost. *)
Forward ==
    /\ main # Idle /\ main.up # NoId
    /\ wire' = wire \cup {[id |-> main.up, name |-> main.entry.name,
                           qtype |-> main.entry.qtype]}
    /\ main' = Idle
    /\ UNCHANGED <<now, asked, pending, reader, table, replies, lost>>

(***************************************************************************)
(* Upstream reader.                                                        *)
(***************************************************************************)
(* An honest answer to a packet sent upstream. *)
AnswerTo(w, a) == [id |-> w.id, qr |-> TRUE, name |-> w.name, qtype |-> w.qtype,
                   ips |-> a.ips, ttl |-> a.ttl]

Arriving == Forged \cup {AnswerTo(w, a) : w \in wire, a \in Answers}

AcceptsUnparsed(p) ==                       \* mutated: names are not looked at
    /\ p.qr
    /\ p.id \in DOMAIN pending
    /\ pending[p.id].qtype = p.qtype

AcceptsAnyName(p) ==                        \* mutated: the name need not match
    AcceptsUnparsed(p) /\ p.name # NoName

(* The packet is a response, its name parses, and pending_take_match finds
   an entry under its id with the same question. *)
Accepts(p) ==
    /\ p.qr
    /\ p.name # NoName
    /\ p.id \in DOMAIN pending
    /\ SameName(pending[p.id].name, p.name)
    /\ pending[p.id].qtype = p.qtype

ReaderDropsEntry(p) ==                      \* mutated: a mismatch costs the entry
    /\ reader = Idle
    /\ ~Accepts(p)
    /\ pending' = Restrict(pending, DOMAIN pending \ {p.id})
    /\ UNCHANGED <<now, asked, main, wire, reader, table, replies, lost>>

ReaderDrops(p) ==
    /\ reader = Idle
    /\ ~Accepts(p)
    /\ UNCHANGED vars

ReaderPeeks(p) ==                           \* mutated: the entry stays pending
    /\ reader = Idle
    /\ Accepts(p)
    /\ reader' = [packet |-> p, entry |-> pending[p.id], todo |-> p.ips]
    /\ UNCHANGED <<now, asked, main, pending, wire, table, replies, lost>>

ReaderTakes(p) ==
    /\ reader = Idle
    /\ Accepts(p)
    /\ pending' = Restrict(pending, DOMAIN pending \ {p.id})
    /\ reader' = [packet |-> p, entry |-> pending[p.id], todo |-> p.ips]
    /\ UNCHANGED <<now, asked, main, wire, table, replies, lost>>

(* One address after the other goes into the table, each under its own lock,
   with the name spelled as in the response. *)
ReaderRecords ==
    /\ reader # Idle /\ reader.todo # << >>
    /\ table' \in TableInsert(table, Head(reader.todo), reader.packet.name,
                              reader.packet.ttl, now)
    /\ reader' = [reader EXCEPT !.todo = Tail(@)]
    /\ UNCHANGED <<now, asked, main, pending, wire, replies, lost>>

ReaderRepliesUpId ==                        \* mutated: the id is not restored
    /\ reader # Idle /\ reader.todo = << >>
    /\ replies' = [replies EXCEPT ![reader.entry.query] =
           Append(@, [to |-> reader.entry.client, id |-> reader.packet.id,
                      name |-> reader.packet.name, qtype |-> reader.packet.qtype,
                      ips |-> reader.packet.ips])]
    /\ reader' = Idle
    /\ UNCHANGED <<now, asked, main, pending, wire, table, lost>>

ReaderRepliesEarly ==                       \* mutated: does not wait for the records
    /\ reader # Idle
    /\ replies' = [replies EXCEPT ![reader.entry.query] =
           Append(@, [to |-> reader.entry.client, id |-> reader.entry.client_tx_id,
                      name |-> reader.packet.name, qtype |-> reader.packet.qtype,
                      ips |-> reader.packet.ips])]
    /\ reader' = Idle
    /\ UNCHANGED <<now, asked, main, pending, wire, table, lost>>

ReaderReplies ==
    /\ reader # Idle /\ reader.todo = << >>
    /\ replies' = [replies EXCEPT ![reader.entry.query] =
           Append(@, [to |-> reader.entry.client, id |-> reader.entry.client_tx_id,
                      name |-> reader.packet.name, qtype |-> reader.packet.qtype,
                      ips |-> reader.packet.ips])]
    /\ reader' = Idle
    /\ UNCHANGED <<now, asked, main, pending, wire, table, lost>>

-----------------------------------------------------------------------------
Next ==
    \/ Tick
    \/ \E o \in Others : OtherInserts(o)
    \/ \E d \in Datagrams : StripQuery(d) \/ ReceiveQuery(d)
    \/ PendingInsert
    \/ PendingInsertFails
    \/ Forward
    \/ \E p \in Arriving : ReaderDrops(p) \/ ReaderTakes(p)
    \/ ReaderRecords
    \/ ReaderReplies

(***************************************************************************)
(* Both tasks keep being scheduled, and the upstream server answers a      *)
(* query that it keeps being asked about (external): an answer to what is  *)
(* on the wire gets through again and again until it has been taken.       *)
(***************************************************************************)
HonestAnswer(up) ==
    \E w \in wire, a \in Answers : w.id = up /\ ReaderTakes(AnswerTo(w, a))

Fairness ==
    /\ WF_vars(PendingInsert \/ PendingInsertFails)
    /\ WF_vars(Forward)
    /\ WF_vars(ReaderRecords)
    /\ WF_vars(ReaderReplies)
    /\ \A up \in UpIds : SF_vars(HonestAnswer(up))

Spec == Init /\ [][Next]_vars /\ Fairness

-----------------------------------------------------------------------------
TableEntry == [name : Names, expires : Nat]

TypeOK ==
    /\ now \in Nat
    /\ asked \in Seq(Datagrams) /\ Len(asked) <= MaxQueries
    /\ main \in {Idle} \cup [entry : PendingQuery, up : UpIds \cup {NoId}]
    /\ IsMap(pending, UpIds, PendingQuery)
    /\ wire \subseteq [id : UpIds, name : Names \cup {NoName}, qtype : Nat]
    /\ reader \in {Idle} \cup [packet : Packet, entry : PendingQuery, todo : Seq(Ips)]
    /\ reader # Idle => reader.packet.name \in Names
    /\ IsMap(table, Ips, TableEntry)
    /\ replies \in [1..MaxQueries -> Seq(Reply)]
    /\ lost \subseteq 1..MaxQueries

(* Where a query can be. *)
InMain == IF main # Idle /\ main.up = NoId THEN {main.entry.query} ELSE {}
InPending == {pending[u].query : u \in DOMAIN pending}
InReader == IF reader # Idle THEN {reader.entry.query} ELSE {}
Answered == {q \in 1..MaxQueries : replies[q] # << >>}

(* No query vanishes and none is in two places: every datagram ever received
   is held by the main loop, pending, held by the reader, answered or
   recorded as given up, and exactly one of these; no two pending entries
   come from the same datagram, and no datagram is answered twice however
   often the network repeats a response (run_udp, pending_insert,
   pending_take_match). *)
Accounted ==
    /\ InMain \cup InPending \cup InReader \cup Answered \cup lost = 1..Len(asked)
    /\ InMain \cap (InPending \cup InReader \cup Answered \cup lost) = {}
    /\ InPending \cap (InReader \cup Answered \cup lost) = {}
    /\ InReader \cap (Answered \cup lost) = {}
    /\ Answered \cap lost = {}
    /\ \A u, v \in DOMAIN pending : pending[u].query = pending[v].query => u = v
    /\ \A q \in 1..MaxQueries : Len(replies[q]) <= 1

(* What a client gets is an answer to its own query: its address, the id it
   chose, the name it asked for up to case and the type it asked for,
   whatever ids were reused upstream and whatever packets came late, twice
   or from elsewhere. *)
AnswersIt(r, d) ==
    r.to = d.client /\ r.id = d.id /\ r.qtype = d.qtype /\ SameName(r.name, d.name)

Solicited ==
    \A q \in 1..Len(asked) : \A i \in DOMAIN replies[q] : AnswersIt(replies[q][i], asked[q])

(***************************************************************************)
(* The listener as a query service: see QueryService.                      *)
(***************************************************************************)
Service == INSTANCE QueryService WITH Questions <- Datagrams, Answers <- AnswersIt,
                                      Ordered <- FALSE, answers <- replies

(* Whatever the two tasks and the network do, the listener behaves like the
   abstract query service: queries arrive, each is answered at most once and
   with an answer to itself, or given up for good; no step answers a query
   that was given up, gives up one that was answered, or changes what was
   sent (run_udp, pending_insert, pending_take_match). *)
ImplementsService == Service!Spec

(* The links in between: what the main loop holds, what is pending and what
   the reader holds are copies of the datagram they were made from, and the
   reader holds a packet with the same question. *)
CopyIn(e, datagrams) ==
    /\ e.query \in DOMAIN datagrams
    /\ LET d == datagrams[e.query]
       IN  e.client = d.client /\ e.client_tx_id = d.id /\ e.name = d.name /\ e.qtype = d.qtype

Faithful ==
    /\ main # Idle => CopyIn(main.entry, asked)
    /\ \A u \in DOMAIN pending : CopyIn(pending[u], asked)
    /\ reader # Idle => /\ CopyIn(reader.entry, asked)
                        /\ SameName(reader.entry.name, reader.packet.name)
                        /\ reader.entry.qtype = reader.packet.qtype

(* The names that the TCP listener has for an address. *)
OtherNames(ip) == {o.name : o \in {p \in Others : p.ip = ip}}

(* Upstream packets cannot plant names: beside what the TCP listener resolves,
   a name gets into the table only if some client asked for it ("prevents the
   IP->domain table from being poisoned with mismatched names", dns.rs). *)
TableSolicited ==
    \A ip \in DOMAIN table :
        \/ table[ip].name \in OtherNames(ip)
        \/ \E q \in 1..Len(asked) : SameName(table[ip].name, asked[q].name)

(* A query is only given up for a reason the design names: it was too old, it
   was among the oldest of a full map, no id was found for it, or it could
   not be echoed.  In particular a packet that does not match leaves the
   genuine answer its chance. *)
GivenUpForCause ==
    [][\A u \in DOMAIN pending :
         pending[u].query \in lost' \ lost =>
            \/ now - pending[u].created >= PENDING_QUERY_TTL
            \/ /\ Cardinality(DOMAIN pending) >= MAX_PENDING_QUERIES
               /\ \A v \in DOMAIN pending' : pending'[v].created >= pending[u].created]_vars

(* The proxy knows the addresses of a response before the client does: when a
   reply leaves, each address in it is in the table, under the name in the
   reply or under a name that the TCP listener recorded for the address
   meanwhile, as long as the table never has to make room (run_udp). *)
MappedBeforeReply ==
    [][Cardinality(Ips) < MAX_CACHE_ENTRIES =>
         \A q \in 1..MaxQueries : replies'[q] # replies[q] =>
            LET reply == replies'[q][Len(replies'[q])]
            IN  \A ip \in Range(reply.ips) :
                  ip \in DOMAIN table /\ table[ip].name \in {reply.name} \cup OtherNames(ip)]_vars

(* A pending query is eventually answered or given up: no mismatching packet,
   reused id or repeated response can leave it waiting as long as the
   upstream server keeps answering.  (Queries for which parse_query_name
   finds no name are the exception, see NamelessSettled.) *)
EventuallySettled ==
    \A q \in 1..MaxQueries :
        (q \in InPending /\ asked[q].name # NoName) ~> (q \in Answered \cup lost)

(* "A mismatch leaves the entry in place so the genuine response can still be
   matched later" (pending_take_match): the genuine response settles every
   query, also one for the root name, which parse_query_name reports as no
   name at all. *)
NamelessSettled ==
    \A q \in 1..MaxQueries : (q \in InPending) ~> (q \in Answered \cup lost)
=============================================================================
