---------------------------- MODULE DnsUdpProofs ----------------------------
(***************************************************************************)
(* Proofs about the UDP forwarder of module DnsUdp, for every value of its *)
(* constants: any clients, names, upstream ids and forged packets, any     *)
(* capacity and lifetime of the pending map.                               *)
(***************************************************************************)
EXTENDS DnsUdp, TLAPS, FiniteSetTheorems

-----------------------------------------------------------------------------
(* Removing keys from a map, as the sweep and the matching reader do, leaves a
   map of the same type. *)
LEMMA RestrictIsMap ==
    ASSUME NEW K, NEW V, NEW m, IsMap(m, K, V), NEW S \in SUBSET DOMAIN m
    PROVE  /\ IsMap(Restrict(m, S), K, V)
           /\ DOMAIN Restrict(m, S) = S
           /\ \A x \in S : Restrict(m, S)[x] = m[x]
BY DEF IsMap, Restrict

(* HashMap::insert keeps the type of a map and sets exactly one key. *)
LEMMA PutIsMap ==
    ASSUME NEW K, NEW V, NEW m, IsMap(m, K, V), NEW k \in K, NEW v \in V
    PROVE  /\ IsMap(Put(m, k, v), K, V)
           /\ DOMAIN Put(m, k, v) = DOMAIN m \cup {k}
           /\ Put(m, k, v)[k] = v
           /\ \A x \in DOMAIN m : x # k => Put(m, k, v)[x] = m[x]
BY DEF IsMap, Put

(* Making room in a bounded map only takes entries away. *)
LEMMA MakeRoomRestricts ==
    ASSUME NEW K, NEW V, NEW m, IsMap(m, K, V), NEW t, NEW r \in MakeRoom(m, t)
    PROVE  \E S \in SUBSET DOMAIN m : r = Restrict(m, S)
<1>1. CASE r = m
  <2>1. m = Restrict(m, DOMAIN m)
    BY DEF Restrict, IsMap
  <2> QED
    BY <1>1, <2>1
<1>2. CASE r # m
  <2>1. Live(m, t) \subseteq DOMAIN m
    BY DEF Live
  <2>2. \/ r = Restrict(m, Live(m, t))
        \/ \E drop \in kSubset(MAX_CACHE_ENTRIES \div 2, Live(m, t)) :
              r = Restrict(m, Live(m, t) \ drop)
    BY <1>2 DEF MakeRoom
  <2> QED
    BY <2>1, <2>2
<1> QED
  BY <1>1, <1>2

(* A table insertion keeps the type of the table, and every name in the table
   was there before or is the one inserted. *)
LEMMA TableInsertIsMap ==
    ASSUME NEW m, IsMap(m, Ips, TableEntry), NEW ip \in Ips, NEW name \in Names,
           NEW ttl \in Nat \cup {NoTtl}, NEW t \in Nat,
           NEW r \in TableInsert(m, ip, name, ttl, t)
    PROVE  /\ IsMap(r, Ips, TableEntry)
           /\ \A x \in DOMAIN r :
                 \/ x = ip /\ r[x].name = name
                 \/ x \in DOMAIN m /\ r[x].name = m[x].name
<1> DEFINE v == [name |-> name, expires |-> t + table_ttl(ttl)]
<1>1. v \in TableEntry
  BY TtlAssumption DEF TableEntry, table_ttl, Clamp
<1>2. PICK m1 \in MakeRoom(m, t) : r = Put(m1, ip, v)
  BY DEF TableInsert, BoundedInsert
<1>3. PICK S \in SUBSET DOMAIN m : m1 = Restrict(m, S)
  BY MakeRoomRestricts
<1>4. /\ IsMap(m1, Ips, TableEntry)
      /\ DOMAIN m1 = S
      /\ \A x \in S : m1[x] = m[x]
  BY <1>3, RestrictIsMap
<1>5. /\ IsMap(r, Ips, TableEntry)
      /\ DOMAIN r = S \cup {ip}
      /\ r[ip] = v
      /\ \A x \in S : x # ip => r[x] = m1[x]
  <2> HIDE DEF v
  <2> QED
    BY <1>1, <1>2, <1>4, PutIsMap
<1>6. ASSUME NEW x \in DOMAIN r
      PROVE  \/ x = ip /\ r[x].name = name
             \/ x \in DOMAIN m /\ r[x].name = m[x].name
  BY <1>3, <1>4, <1>5
<1> QED
  BY <1>5, <1>6

-----------------------------------------------------------------------------
(* An answer that arrives on the upstream socket is a packet. *)
LEMMA ArrivingIsPacket ==
    ASSUME TypeOK, NEW p \in Arriving
    PROVE  p \in Packet
<1>1. CASE p \in Forged
  BY <1>1, UdpAssumption
<1>2. ASSUME NEW w \in wire, NEW a \in Answers, p = AnswerTo(w, a)
      PROVE  p \in Packet
  <2>1. w \in [id : UpIds, name : Names \cup {NoName}, qtype : Nat]
    BY DEF TypeOK
  <2>2. a \in [ips : Seq(Ips), ttl : Nat \cup {NoTtl}]
    BY UdpAssumption
  <2> QED
    BY <1>2, <2>1, <2>2 DEF AnswerTo, Packet
<1> QED
  BY <1>1, <1>2 DEF Arriving

(* What a client sends is a datagram. *)
LEMMA DatagramFields ==
    ASSUME NEW d \in Datagrams
    PROVE  /\ d.client \in STRING /\ d.id \in Nat /\ d.qtype \in Nat
           /\ d.name \in Names \cup {NoName} /\ d.echoes \in BOOLEAN
BY UdpAssumption DEF Datagram

(* The datagrams behind pending entries. *)
LEMMA QueriesOfType ==
    ASSUME TypeOK, NEW S \in SUBSET DOMAIN pending
    PROVE  QueriesOf(S) \subseteq 1..MaxQueries
BY DEF TypeOK, IsMap, QueriesOf, PendingQuery

(* Sending one more reply keeps the type of the replies. *)
LEMMA AppendReply ==
    ASSUME NEW R, NEW f \in [1..MaxQueries -> Seq(R)], NEW q \in 1..MaxQueries, NEW r \in R
    PROVE  [f EXCEPT ![q] = Append(@, r)] \in [1..MaxQueries -> Seq(R)]
<1>1. f[q] \in Seq(R)
  OBVIOUS
<1>2. Append(f[q], r) \in Seq(R)
  BY <1>1
<1> QED
  BY <1>2

(* What the main loop holds after it received a query. *)
LEMMA ReceivedEntry ==
    ASSUME TypeOK, NEW d \in Datagrams, ReceiveQuery(d)
    PROVE  main' \in [entry : PendingQuery, up : UpIds \cup {NoId}]
<1>1. /\ Len(asked) + 1 \in 1..MaxQueries
      /\ now \in Nat
  BY UdpAssumption DEF ReceiveQuery, TypeOK
<1> QED
  BY <1>1, DatagramFields DEF ReceiveQuery, PendingQuery

(* The type invariant of the forwarder is inductive. *)
LEMMA TypeStep == TypeOK /\ [Next]_vars => TypeOK'
<1> SUFFICES ASSUME TypeOK, [Next]_vars
             PROVE  TypeOK'
  OBVIOUS
<1>1. CASE Tick
  BY <1>1 DEF Tick, TypeOK
<1>2. ASSUME NEW d \in Datagrams, StripQuery(d)
      PROVE  TypeOK'
  <2> DEFINE nodata == [to |-> d.client, id |-> d.id, name |-> d.name,
                        qtype |-> d.qtype, ips |-> << >>]
             q == Len(asked) + 1
  <2>1. nodata \in Reply
    BY DatagramFields DEF Reply
  <2>2. q \in 1..MaxQueries
    BY <1>2, UdpAssumption DEF StripQuery, TypeOK
  <2>3. asked' \in Seq(Datagrams) /\ Len(asked') <= MaxQueries
    BY <1>2, UdpAssumption DEF StripQuery, TypeOK
  <2>4. replies' \in [1..MaxQueries -> Seq(Reply)]
    <3>1. \/ replies' = replies
          \/ replies' = [replies EXCEPT ![q] = Append(@, nodata)]
      BY <1>2 DEF StripQuery
    <3>2. replies \in [1..MaxQueries -> Seq(Reply)]
      BY DEF TypeOK
    <3>3. [replies EXCEPT ![q] = Append(@, nodata)] \in [1..MaxQueries -> Seq(Reply)]
      <4> HIDE DEF nodata, q
      <4> QED
        BY <3>2, <2>1, <2>2, AppendReply
    <3> QED
      BY <3>1, <3>2, <3>3
  <2>5. lost' \subseteq 1..MaxQueries
    BY <1>2, <2>2 DEF StripQuery, TypeOK
  <2> QED
    BY <1>2, <2>3, <2>4, <2>5 DEF StripQuery, TypeOK
<1>3. ASSUME NEW d \in Datagrams, ReceiveQuery(d)
      PROVE  TypeOK'
  <2>1. asked' \in Seq(Datagrams) /\ Len(asked') <= MaxQueries
    BY <1>3, UdpAssumption DEF ReceiveQuery, TypeOK
  <2>2. main' \in [entry : PendingQuery, up : UpIds \cup {NoId}]
    BY <1>3, ReceivedEntry
  <2> QED
    BY <1>3, <2>1, <2>2 DEF ReceiveQuery, TypeOK
<1>4. CASE PendingInsert
  <2>1. main \in [entry : PendingQuery, up : UpIds \cup {NoId}]
    BY <1>4 DEF PendingInsert, TypeOK
  <2>2. PICK old \in Oldest(Swept), up \in UpIds :
            /\ pending' = Put(Restrict(pending, Swept \ old), up, main.entry)
            /\ main' = [main EXCEPT !.up = up]
            /\ lost' = lost \cup QueriesOf(DOMAIN pending \ (Swept \ old))
    BY <1>4 DEF PendingInsert
  <2>3. Swept \ old \in SUBSET DOMAIN pending
    BY DEF Swept
  <2>4. IsMap(Restrict(pending, Swept \ old), UpIds, PendingQuery)
    BY <2>3, RestrictIsMap DEF TypeOK
  <2>5. IsMap(pending', UpIds, PendingQuery)
    BY <2>1, <2>2, <2>4, PutIsMap
  <2>6. main' \in [entry : PendingQuery, up : UpIds \cup {NoId}]
    BY <2>1, <2>2
  <2>7. lost' \subseteq 1..MaxQueries
    BY <2>2, QueriesOfType DEF TypeOK
  <2> QED
    BY <1>4, <2>5, <2>6, <2>7 DEF PendingInsert, TypeOK
<1>5. CASE PendingInsertFails
  <2>1. main \in [entry : PendingQuery, up : UpIds \cup {NoId}]
    BY <1>5 DEF PendingInsertFails, TypeOK
  <2>2. PICK old \in Oldest(Swept) :
            /\ pending' = Restrict(pending, Swept \ old)
            /\ lost' = lost \cup QueriesOf(DOMAIN pending \ (Swept \ old))
                           \cup {main.entry.query}
    BY <1>5 DEF PendingInsertFails
  <2>3. Swept \ old \in SUBSET DOMAIN pending
    BY DEF Swept
  <2>4. IsMap(pending', UpIds, PendingQuery)
    BY <2>2, <2>3, RestrictIsMap DEF TypeOK
  <2>5. main.entry.query \in 1..MaxQueries
    BY <2>1 DEF PendingQuery
  <2>6. lost' \subseteq 1..MaxQueries
    BY <2>2, <2>5, QueriesOfType DEF TypeOK
  <2> QED
    BY <1>5, <2>4, <2>6 DEF PendingInsertFails, TypeOK
<1>6. CASE Forward
  <2>1. main \in [entry : PendingQuery, up : UpIds \cup {NoId}] /\ main.up # NoId
    BY <1>6 DEF Forward, TypeOK
  <2>2. [id |-> main.up, name |-> main.entry.name, qtype |-> main.entry.qtype]
           \in [id : UpIds, name : Names \cup {NoName}, qtype : Nat]
    BY <2>1 DEF PendingQuery
  <2> QED
    BY <1>6, <2>2 DEF Forward, TypeOK
<1>7. ASSUME NEW p \in Arriving, ReaderTakes(p)
      PROVE  TypeOK'
  <2>1. p \in Packet
    BY ArrivingIsPacket
  <2>2. p.id \in DOMAIN pending /\ pending[p.id] \in PendingQuery
    BY <1>7 DEF ReaderTakes, Accepts, TypeOK, IsMap
  <2>3. reader' \in [packet : Packet, entry : PendingQuery, todo : Seq(Ips)]
    BY <1>7, <2>1, <2>2 DEF ReaderTakes, Packet
  <2>4. IsMap(pending', UpIds, PendingQuery)
    BY <1>7, RestrictIsMap DEF ReaderTakes, TypeOK
  <2>5. reader'.packet.name \in Names
    BY <1>7, <2>1 DEF ReaderTakes, Accepts, Packet
  <2> QED
    BY <1>7, <2>3, <2>4, <2>5 DEF ReaderTakes, TypeOK
<1>8. CASE ReaderRecords
  <2>1. reader \in [packet : Packet, entry : PendingQuery, todo : Seq(Ips)]
    BY <1>8 DEF ReaderRecords, TypeOK
  <2>2. Head(reader.todo) \in Ips /\ Tail(reader.todo) \in Seq(Ips)
    BY <1>8, <2>1 DEF ReaderRecords
  <2>3. reader.packet.name \in Names /\ reader.packet.ttl \in Nat \cup {NoTtl}
    BY <1>8, <2>1 DEF ReaderRecords, TypeOK, Packet
  <2>4. IsMap(table', Ips, TableEntry)
    BY <1>8, <2>2, <2>3, TableInsertIsMap DEF ReaderRecords, TypeOK
  <2>5. /\ reader' \in [packet : Packet, entry : PendingQuery, todo : Seq(Ips)]
        /\ reader'.packet.name \in Names
    BY <1>8, <2>1, <2>2, <2>3 DEF ReaderRecords
  <2> QED
    BY <1>8, <2>4, <2>5 DEF ReaderRecords, TypeOK
<1>9. CASE ReaderReplies
  <2> DEFINE r == [to |-> reader.entry.client, id |-> reader.entry.client_tx_id,
                   name |-> reader.packet.name, qtype |-> reader.packet.qtype,
                   ips |-> reader.packet.ips]
  <2>1. reader \in [packet : Packet, entry : PendingQuery, todo : Seq(Ips)]
    BY <1>9 DEF ReaderReplies, TypeOK
  <2>2. r \in Reply /\ reader.entry.query \in 1..MaxQueries
    BY <2>1 DEF Packet, PendingQuery, Reply
  <2>3. replies' = [replies EXCEPT ![reader.entry.query] = Append(@, r)]
    BY <1>9 DEF ReaderReplies
  <2>4. replies' \in [1..MaxQueries -> Seq(Reply)]
    <3> HIDE DEF r
    <3> QED
      BY <2>2, <2>3, AppendReply DEF TypeOK
  <2> QED
    BY <1>9, <2>4 DEF ReaderReplies, TypeOK
<1>10. CASE UNCHANGED vars
  BY <1>10 DEF vars, TypeOK
<1>11. ASSUME NEW o \in Others, OtherInserts(o)
       PROVE  TypeOK'
  <2>1. o.ip \in Ips /\ o.name \in Names /\ o.ttl \in Nat \cup {NoTtl}
    BY UdpAssumption
  <2>2. IsMap(table', Ips, TableEntry)
    BY <1>11, <2>1, TableInsertIsMap DEF OtherInserts, TypeOK
  <2> QED
    BY <1>11, <2>2 DEF OtherInserts, TypeOK
<1> QED
  BY <1>1, <1>2, <1>3, <1>4, <1>5, <1>6, <1>7, <1>8, <1>9, <1>10, <1>11 DEF Next, ReaderDrops

(* Initially the forwarder is well-typed. *)
LEMMA TypeInit == Init => TypeOK
<1> SUFFICES ASSUME Init PROVE TypeOK
  OBVIOUS
<1>1. asked \in Seq(Datagrams) /\ Len(asked) <= MaxQueries
  BY UdpAssumption DEF Init
<1>2. IsMap(pending, UpIds, PendingQuery) /\ IsMap(table, Ips, TableEntry)
  BY DEF Init, IsMap
<1>3. replies \in [1..MaxQueries -> Seq(Reply)]
  BY DEF Init
<1> QED
  BY <1>1, <1>2, <1>3 DEF Init, TypeOK

(* Whatever clients and network do, every variable of the forwarder stays in
   its type; in particular the reader never records a name it could not
   parse (run_udp). *)
THEOREM TypeCorrect == Spec => []TypeOK
<1>1. Init => TypeOK
  BY TypeInit
<1>2. TypeOK /\ [Next]_vars => TypeOK'
  BY TypeStep
<1> QED
  BY <1>1, <1>2, PTL DEF Spec

-----------------------------------------------------------------------------
(* A sequence that something was appended to is one longer, hence not empty. *)
LEMMA AppendGrows ==
    ASSUME NEW R, NEW s \in Seq(R), NEW r \in R
    PROVE  Len(Append(s, r)) = Len(s) + 1 /\ Append(s, r) # << >>
<1>1. Len(Append(s, r)) = Len(s) + 1 /\ Len(s) \in Nat
  OBVIOUS
<1>2. Len(<< >>) = 0
  OBVIOUS
<1> QED
  BY <1>1, <1>2

(* Sending a reply to a query that has none makes it answered, once, and
   changes nothing for the others. *)
LEMMA FirstReply ==
    ASSUME TypeOK, NEW q \in 1..MaxQueries, NEW r \in Reply,
           q \notin Answered,
           \A x \in 1..MaxQueries : Len(replies[x]) <= 1,
           replies' = [replies EXCEPT ![q] = Append(@, r)]
    PROVE  /\ Answered' = Answered \cup {q}
           /\ \A x \in 1..MaxQueries : Len(replies'[x]) <= 1
<1>1. replies \in [1..MaxQueries -> Seq(Reply)]
  BY DEF TypeOK
<1>2. replies[q] = << >>
  BY DEF Answered
<1>3. replies'[q] = Append(replies[q], r)
  BY <1>1
<1>4. replies'[q] # << >> /\ Len(replies'[q]) = 1
  <2>1. Len(replies[q]) = 0 /\ replies[q] \in Seq(Reply)
    BY <1>1, <1>2
  <2> QED
    BY <1>3, <2>1, AppendGrows
<1>5. \A x \in 1..MaxQueries : x # q => replies'[x] = replies[x]
  BY <1>1
<1>6. Answered' = Answered \cup {q}
  BY <1>4, <1>5 DEF Answered
<1>7. ASSUME NEW x \in 1..MaxQueries
      PROVE  Len(replies'[x]) <= 1
  <2>1. CASE x = q
    BY <2>1, <1>4
  <2>2. CASE x # q
    BY <2>2, <1>5
  <2> QED
    BY <2>1, <2>2
<1> QED
  BY <1>6, <1>7

(* The datagrams behind the entries of a map that was cut down and then given
   one new entry under a free id. *)
LEMMA PendingAfterInsert ==
    ASSUME TypeOK, NEW S \in SUBSET DOMAIN pending, NEW up \in UpIds, up \notin S,
           NEW e \in PendingQuery,
           pending' = Put(Restrict(pending, S), up, e)
    PROVE  /\ DOMAIN pending' = S \cup {up}
           /\ pending'[up] = e
           /\ \A u \in S : pending'[u] = pending[u]
           /\ InPending' = QueriesOf(S) \cup {e.query}
<1> DEFINE m == Restrict(pending, S)
<1>1. /\ IsMap(m, UpIds, PendingQuery)
      /\ DOMAIN m = S
      /\ \A u \in S : m[u] = pending[u]
  BY RestrictIsMap DEF TypeOK
<1>2. /\ DOMAIN pending' = S \cup {up}
      /\ pending'[up] = e
      /\ \A u \in S : pending'[u] = m[u]
  <2>1. pending' = Put(m, up, e)
    OBVIOUS
  <2> HIDE DEF m
  <2>2. /\ DOMAIN Put(m, up, e) = DOMAIN m \cup {up}
        /\ Put(m, up, e)[up] = e
        /\ \A x \in DOMAIN m : x # up => Put(m, up, e)[x] = m[x]
    BY DEF Put
  <2> QED
    BY <1>1, <2>1, <2>2
<1>3. InPending' = {pending'[u].query : u \in S} \cup {pending'[up].query}
  BY <1>2 DEF InPending
<1>4. {pending'[u].query : u \in S} = QueriesOf(S)
  BY <1>1, <1>2 DEF QueriesOf
<1> QED
  BY <1>1, <1>2, <1>3, <1>4

(* The same when entries are only taken away. *)
LEMMA PendingAfterRemoval ==
    ASSUME TypeOK, NEW S \in SUBSET DOMAIN pending,
           pending' = Restrict(pending, S)
    PROVE  /\ DOMAIN pending' = S
           /\ \A u \in S : pending'[u] = pending[u]
           /\ InPending' = QueriesOf(S)
<1>1. /\ DOMAIN pending' = S
      /\ \A u \in S : pending'[u] = pending[u]
  BY RestrictIsMap DEF TypeOK
<1> QED
  BY <1>1 DEF InPending, QueriesOf

(* No two pending entries share a datagram, so cutting the map down to S
   separates the datagrams of S from the others. *)
LEMMA QueriesSplit ==
    ASSUME Accounted, NEW S \in SUBSET DOMAIN pending
    PROVE  /\ InPending = QueriesOf(S) \cup QueriesOf(DOMAIN pending \ S)
           /\ QueriesOf(S) \cap QueriesOf(DOMAIN pending \ S) = {}
BY DEF Accounted, InPending, QueriesOf

(* Every step keeps the account of the queries. *)
LEMMA AccountedStep == TypeOK /\ Accounted /\ [Next]_vars => Accounted'
<1> SUFFICES ASSUME TypeOK, Accounted, [Next]_vars
             PROVE  Accounted'
  OBVIOUS
<1>1. CASE Tick
  BY <1>1 DEF Tick, Accounted, InMain, InPending, InReader, Answered
<1>2. ASSUME NEW d \in Datagrams, StripQuery(d)
      PROVE  Accounted'
  <2> DEFINE nodata == [to |-> d.client, id |-> d.id, name |-> d.name,
                        qtype |-> d.qtype, ips |-> << >>]
             q == Len(asked) + 1
  <2>1. /\ q \in 1..MaxQueries
        /\ 1..Len(asked') = (1..Len(asked)) \cup {q}
        /\ q \notin 1..Len(asked)
    BY <1>2, UdpAssumption DEF StripQuery, TypeOK
  <2>2. nodata \in Reply
    BY DatagramFields DEF Reply
  <2>3. /\ InMain' = InMain /\ InPending' = InPending /\ InReader' = InReader
        /\ pending' = pending
    BY <1>2 DEF StripQuery, InMain, InPending, InReader
  <2>4. \/ lost' = lost /\ replies' = [replies EXCEPT ![q] = Append(@, nodata)]
        \/ lost' = lost \cup {q} /\ replies' = replies
    BY <1>2 DEF StripQuery
  <2> HIDE DEF nodata, q
  <2>5. CASE lost' = lost /\ replies' = [replies EXCEPT ![q] = Append(@, nodata)]
    <3>1. /\ Answered' = Answered \cup {q}
          /\ \A x \in 1..MaxQueries : Len(replies'[x]) <= 1
      BY <2>1, <2>2, <2>5, FirstReply DEF Accounted
    <3> QED
      BY <2>1, <2>3, <2>5, <3>1 DEF Accounted
  <2>6. CASE lost' = lost \cup {q} /\ replies' = replies
    <3>1. Answered' = Answered
      BY <2>6 DEF Answered
    <3> QED
      BY <2>1, <2>3, <2>6, <3>1 DEF Accounted
  <2> QED
    BY <2>4, <2>5, <2>6
<1>3. ASSUME NEW d \in Datagrams, ReceiveQuery(d)
      PROVE  Accounted'
  <2> DEFINE q == Len(asked) + 1
  <2>1. /\ 1..Len(asked') = (1..Len(asked)) \cup {q}
        /\ q \notin 1..Len(asked)
    BY <1>3 DEF ReceiveQuery, TypeOK
  <2>2. InMain = {} /\ InMain' = {q}
    <3>1. main' \in [entry : PendingQuery, up : UpIds \cup {NoId}]
      BY <1>3, ReceivedEntry
    <3>2. main' # Idle
      BY <3>1, UdpAssumption
    <3>3. main'.up = NoId /\ main'.entry.query = q /\ main = Idle
      BY <1>3 DEF ReceiveQuery
    <3> QED
      BY <3>2, <3>3 DEF InMain
  <2>3. /\ InPending' = InPending /\ InReader' = InReader /\ Answered' = Answered
        /\ pending' = pending /\ replies' = replies /\ lost' = lost
    BY <1>3 DEF ReceiveQuery, InPending, InReader, Answered
  <2> QED
    BY <2>1, <2>2, <2>3 DEF Accounted
<1>4. CASE PendingInsert
  <2>1. main \in [entry : PendingQuery, up : UpIds \cup {NoId}] /\ main.up = NoId
    BY <1>4 DEF PendingInsert, TypeOK
  <2>2. PICK old \in Oldest(Swept), up \in UpIds :
            /\ up \notin Swept \ old
            /\ pending' = Put(Restrict(pending, Swept \ old), up, main.entry)
            /\ main' = [main EXCEPT !.up = up]
            /\ lost' = lost \cup QueriesOf(DOMAIN pending \ (Swept \ old))
    BY <1>4 DEF PendingInsert
  <2> DEFINE S == Swept \ old
             q == main.entry.query
  <2>3. S \in SUBSET DOMAIN pending
    BY DEF Swept
  <2>4. InMain = {q} /\ InMain' = {}
    <3>1. main'.up = up /\ up # NoId
      BY <2>1, <2>2, UdpAssumption
    <3> QED
      BY <1>4, <3>1 DEF PendingInsert, InMain
  <2>5. /\ InReader' = InReader /\ Answered' = Answered /\ replies' = replies
        /\ asked' = asked
    BY <1>4 DEF PendingInsert, InReader, Answered
  <2>6. main.entry \in PendingQuery
    BY <2>1
  <2> HIDE DEF S
  <2>7. /\ DOMAIN pending' = S \cup {up}
        /\ pending'[up] = main.entry
        /\ \A u \in S : pending'[u] = pending[u]
        /\ InPending' = QueriesOf(S) \cup {q}
    BY <2>2, <2>3, <2>6, PendingAfterInsert DEF S
  <2>8. /\ InPending = QueriesOf(S) \cup QueriesOf(DOMAIN pending \ S)
        /\ QueriesOf(S) \cap QueriesOf(DOMAIN pending \ S) = {}
    BY <2>3, QueriesSplit
  <2>9. lost' = lost \cup QueriesOf(DOMAIN pending \ S)
    BY <2>2 DEF S
  <2>10. \A u \in S : pending[u].query # q
    BY <2>3, <2>4 DEF Accounted, InPending
  <2>11. \A u, v \in DOMAIN pending' : pending'[u].query = pending'[v].query => u = v
    BY <2>3, <2>7, <2>10 DEF Accounted
  <2> HIDE DEF q
  <2> QED
    BY <2>4, <2>5, <2>7, <2>8, <2>9, <2>11 DEF Accounted
<1>5. CASE PendingInsertFails
  <2>1. main \in [entry : PendingQuery, up : UpIds \cup {NoId}] /\ main.up = NoId
    BY <1>5 DEF PendingInsertFails, TypeOK
  <2>2. PICK old \in Oldest(Swept) :
            /\ pending' = Restrict(pending, Swept \ old)
            /\ lost' = lost \cup QueriesOf(DOMAIN pending \ (Swept \ old))
                           \cup {main.entry.query}
    BY <1>5 DEF PendingInsertFails
  <2> DEFINE S == Swept \ old
             q == main.entry.query
  <2>3. S \in SUBSET DOMAIN pending
    BY DEF Swept
  <2>4. InMain = {q} /\ InMain' = {}
    BY <1>5 DEF PendingInsertFails, InMain
  <2>5. /\ InReader' = InReader /\ Answered' = Answered /\ replies' = replies
        /\ asked' = asked
    BY <1>5 DEF PendingInsertFails, InReader, Answered
  <2> HIDE DEF S
  <2>6. /\ DOMAIN pending' = S
        /\ \A u \in S : pending'[u] = pending[u]
        /\ InPending' = QueriesOf(S)
    BY <2>2, <2>3, PendingAfterRemoval DEF S
  <2>7. /\ InPending = QueriesOf(S) \cup QueriesOf(DOMAIN pending \ S)
        /\ QueriesOf(S) \cap QueriesOf(DOMAIN pending \ S) = {}
    BY <2>3, QueriesSplit
  <2>8. lost' = lost \cup QueriesOf(DOMAIN pending \ S) \cup {q}
    BY <2>2 DEF S
  <2>9. \A u, v \in DOMAIN pending' : pending'[u].query = pending'[v].query => u = v
    BY <2>3, <2>6 DEF Accounted
  <2> HIDE DEF q
  <2> QED
    BY <2>4, <2>5, <2>6, <2>7, <2>8, <2>9 DEF Accounted
<1>6. CASE Forward
  <2>1. InMain = {} /\ InMain' = {}
    BY <1>6 DEF Forward, InMain
  <2>2. /\ InPending' = InPending /\ InReader' = InReader /\ Answered' = Answered
        /\ pending' = pending /\ replies' = replies /\ lost' = lost /\ asked' = asked
    BY <1>6 DEF Forward, InPending, InReader, Answered
  <2> QED
    BY <2>1, <2>2 DEF Accounted
<1>7. ASSUME NEW p \in Arriving, ReaderTakes(p)
      PROVE  Accounted'
  <2> DEFINE S == DOMAIN pending \ {p.id}
             q == pending[p.id].query
  <2>1. p.id \in DOMAIN pending /\ pending[p.id] \in PendingQuery
    BY <1>7 DEF ReaderTakes, Accepts, TypeOK, IsMap
  <2>2. S \in SUBSET DOMAIN pending /\ pending' = Restrict(pending, S)
    BY <1>7 DEF ReaderTakes
  <2>3. InReader = {} /\ InReader' = {q}
    <3>1. reader' # Idle
      <4>1. p \in Packet
        BY ArrivingIsPacket
      <4>2. reader' \in [packet : Packet, entry : PendingQuery, todo : Seq(Ips)]
        BY <1>7, <2>1, <4>1 DEF ReaderTakes, Packet
      <4> QED
        BY <4>2, UdpAssumption
    <3> QED
      BY <1>7, <3>1 DEF ReaderTakes, InReader
  <2>4. /\ InMain' = InMain /\ Answered' = Answered
        /\ replies' = replies /\ lost' = lost /\ asked' = asked
    BY <1>7 DEF ReaderTakes, InMain, Answered
  <2>5. QueriesOf(DOMAIN pending \ S) = {q}
    BY <2>1 DEF QueriesOf
  <2> HIDE DEF S
  <2>6. /\ DOMAIN pending' = S
        /\ \A u \in S : pending'[u] = pending[u]
        /\ InPending' = QueriesOf(S)
    BY <2>2, PendingAfterRemoval
  <2>7. /\ InPending = QueriesOf(S) \cup QueriesOf(DOMAIN pending \ S)
        /\ QueriesOf(S) \cap QueriesOf(DOMAIN pending \ S) = {}
    BY <2>2, QueriesSplit
  <2>8. \A u, v \in DOMAIN pending' : pending'[u].query = pending'[v].query => u = v
    BY <2>2, <2>6 DEF Accounted
  <2> HIDE DEF q
  <2> QED
    BY <2>3, <2>4, <2>5, <2>6, <2>7, <2>8 DEF Accounted
<1>8. CASE ReaderRecords
  <2>1. reader \in [packet : Packet, entry : PendingQuery, todo : Seq(Ips)]
    BY <1>8 DEF ReaderRecords, TypeOK
  <2>2. reader'.entry = reader.entry /\ reader' # Idle
    <3>1. Tail(reader.todo) \in Seq(Ips)
      BY <1>8, <2>1 DEF ReaderRecords
    <3>2. reader' \in [packet : Packet, entry : PendingQuery, todo : Seq(Ips)]
      BY <1>8, <2>1, <3>1 DEF ReaderRecords
    <3> QED
      BY <1>8, <2>1, <3>2, UdpAssumption DEF ReaderRecords
  <2>3. InReader' = InReader
    BY <1>8, <2>2 DEF ReaderRecords, InReader
  <2>4. /\ InMain' = InMain /\ InPending' = InPending /\ Answered' = Answered
        /\ pending' = pending /\ replies' = replies /\ lost' = lost /\ asked' = asked
    BY <1>8 DEF ReaderRecords, InMain, InPending, Answered
  <2> QED
    BY <2>3, <2>4 DEF Accounted
<1>9. CASE ReaderReplies
  <2> DEFINE r == [to |-> reader.entry.client, id |-> reader.entry.client_tx_id,
                   name |-> reader.packet.name, qtype |-> reader.packet.qtype,
                   ips |-> reader.packet.ips]
             q == reader.entry.query
  <2>1. reader \in [packet : Packet, entry : PendingQuery, todo : Seq(Ips)]
    BY <1>9 DEF ReaderReplies, TypeOK
  <2>2. r \in Reply /\ q \in 1..MaxQueries
    BY <2>1 DEF Packet, PendingQuery, Reply
  <2>3. replies' = [replies EXCEPT ![q] = Append(@, r)]
    BY <1>9 DEF ReaderReplies
  <2>4. InReader = {q} /\ InReader' = {}
    BY <1>9 DEF ReaderReplies, InReader
  <2>5. /\ InMain' = InMain /\ InPending' = InPending
        /\ pending' = pending /\ lost' = lost /\ asked' = asked
    BY <1>9 DEF ReaderReplies, InMain, InPending
  <2> HIDE DEF r, q
  <2>6. /\ Answered' = Answered \cup {q}
        /\ \A x \in 1..MaxQueries : Len(replies'[x]) <= 1
    <3>1. q \notin Answered
      BY <2>4 DEF Accounted
    <3> QED
      BY <2>2, <2>3, <3>1, FirstReply DEF Accounted
  <2> QED
    BY <2>4, <2>5, <2>6 DEF Accounted
<1>10. CASE UNCHANGED vars
  BY <1>10 DEF vars, Accounted, InMain, InPending, InReader, Answered
<1>11. ASSUME NEW o \in Others, OtherInserts(o)
       PROVE  Accounted'
  BY <1>11 DEF OtherInserts, Accounted, InMain, InPending, InReader, Answered
<1> QED
  BY <1>1, <1>2, <1>3, <1>4, <1>5, <1>6, <1>7, <1>8, <1>9, <1>10, <1>11 DEF Next, ReaderDrops

(* No datagram is lost without account, held twice or answered twice, however
   the two tasks interleave and whatever the network repeats (run_udp,
   pending_insert, pending_take_match). *)
THEOREM AccountedAlways == Spec => []Accounted
<1>1. Init => Accounted
  <2> SUFFICES ASSUME Init PROVE Accounted
    OBVIOUS
  <2>1. InMain = {} /\ InPending = {} /\ InReader = {} /\ Answered = {} /\ lost = {}
    BY DEF Init, InMain, InPending, InReader, Answered
  <2>2. 1..Len(asked) = {}
    BY DEF Init
  <2>3. \A q \in 1..MaxQueries : Len(replies[q]) <= 1
    BY DEF Init
  <2>4. DOMAIN pending = {}
    BY DEF Init
  <2> QED
    BY <2>1, <2>2, <2>3, <2>4 DEF Accounted
<1>2. TypeOK /\ Accounted /\ [Next]_vars => Accounted'
  BY AccountedStep
<1> QED
  BY <1>1, <1>2, TypeCorrect, PTL DEF Spec

-----------------------------------------------------------------------------
(* The log of datagrams only grows. *)
LEMMA AskedGrows ==
    ASSUME TypeOK, [Next]_vars
    PROVE  /\ DOMAIN asked = 1..Len(asked) /\ DOMAIN asked' = 1..Len(asked')
           /\ DOMAIN asked \subseteq DOMAIN asked'
           /\ \A q \in DOMAIN asked : asked'[q] = asked[q]
<1>1. asked \in Seq(Datagrams)
  BY DEF TypeOK
<1>2. asked' = asked \/ \E d \in Datagrams : asked' = Append(asked, d)
  BY DEF Next, Tick, OtherInserts, StripQuery, ReceiveQuery, PendingInsert, PendingInsertFails,
         Forward, ReaderDrops, ReaderTakes, ReaderRecords, ReaderReplies, vars
<1> QED
  BY <1>1, <1>2

(* Hence a copy of a datagram stays one. *)
LEMMA CopyStays ==
    ASSUME TypeOK, [Next]_vars, NEW e, CopyIn(e, asked)
    PROVE  CopyIn(e, asked')
BY AskedGrows DEF CopyIn

(* Every step keeps the held entries copies of the datagrams they stand for. *)
LEMMA FaithfulStep == TypeOK /\ Faithful /\ [Next]_vars => Faithful'
<1> SUFFICES ASSUME TypeOK, Faithful, [Next]_vars
             PROVE  Faithful'
  OBVIOUS
<1> DEFINE SameQuestion(r) == /\ SameName(r.entry.name, r.packet.name)
                              /\ r.entry.qtype = r.packet.qtype
           HeldOK == main' # Idle => CopyIn(main'.entry, asked')
           PendingOK == \A u \in DOMAIN pending' : CopyIn(pending'[u], asked')
           ReaderOK == reader' # Idle => CopyIn(reader'.entry, asked') /\ SameQuestion(reader')
<1>1. main' = main => HeldOK
  BY CopyStays DEF Faithful
<1>2. pending' = pending => PendingOK
  BY CopyStays DEF Faithful
<1>3. reader' = reader => ReaderOK
  BY CopyStays DEF Faithful
<1>4. HeldOK /\ PendingOK /\ ReaderOK => Faithful'
  BY DEF Faithful
<1> HIDE DEF HeldOK, PendingOK, ReaderOK
<1>5. CASE Tick
  BY <1>1, <1>2, <1>3, <1>4, <1>5 DEF Tick
<1>6. ASSUME NEW d \in Datagrams, StripQuery(d)
      PROVE  Faithful'
  BY <1>1, <1>2, <1>3, <1>4, <1>6 DEF StripQuery
<1>7. ASSUME NEW d \in Datagrams, ReceiveQuery(d)
      PROVE  Faithful'
  <2>1. asked \in Seq(Datagrams) /\ asked' = Append(asked, d)
    BY <1>7 DEF ReceiveQuery, TypeOK
  <2>2. asked'[Len(asked) + 1] = d /\ Len(asked) + 1 \in DOMAIN asked'
    BY <2>1
  <2>3. CopyIn(main'.entry, asked')
    BY <1>7, <2>2 DEF ReceiveQuery, CopyIn
  <2> QED
    BY <1>2, <1>3, <1>4, <1>7, <2>3 DEF ReceiveQuery, HeldOK
<1>8. CASE PendingInsert
  <2>1. /\ main \in [entry : PendingQuery, up : UpIds \cup {NoId}]
        /\ CopyIn(main.entry, asked) /\ asked' = asked
    BY <1>8 DEF PendingInsert, TypeOK, Faithful
  <2>2. PICK old \in Oldest(Swept), up \in UpIds :
            /\ up \notin Swept \ old
            /\ pending' = Put(Restrict(pending, Swept \ old), up, main.entry)
            /\ main' = [main EXCEPT !.up = up]
    BY <1>8 DEF PendingInsert
  <2>3. HeldOK
    BY <2>1, <2>2 DEF HeldOK
  <2> DEFINE S == Swept \ old
  <2>4. S \in SUBSET DOMAIN pending
    BY DEF Swept
  <2>5. main.entry \in PendingQuery
    BY <2>1
  <2>6. /\ DOMAIN pending' = S \cup {up}
        /\ pending'[up] = main.entry
        /\ \A u \in S : pending'[u] = pending[u]
    <3>1. up \in UpIds /\ up \notin S /\ pending' = Put(Restrict(pending, S), up, main.entry)
      BY <2>2
    <3> HIDE DEF S
    <3> QED
      BY <2>4, <2>5, <3>1, PendingAfterInsert
  <2>7. PendingOK
    <3> HIDE DEF S
    <3> QED
      BY <2>1, <2>4, <2>6 DEF PendingOK, Faithful
  <2> QED
    BY <1>3, <1>4, <1>8, <2>3, <2>7 DEF PendingInsert
<1>9. CASE PendingInsertFails
  <2>1. PICK old \in Oldest(Swept) : pending' = Restrict(pending, Swept \ old)
    BY <1>9 DEF PendingInsertFails
  <2> DEFINE S == Swept \ old
  <2>2. S \in SUBSET DOMAIN pending
    BY DEF Swept
  <2>3. DOMAIN pending' = S /\ \A u \in S : pending'[u] = pending[u]
    <3> HIDE DEF S
    <3> QED
      BY <2>1, <2>2, PendingAfterRemoval DEF S
  <2>4. PendingOK
    <3> HIDE DEF S
    <3> QED
      BY <2>2, <2>3, CopyStays DEF PendingOK, Faithful
  <2>5. HeldOK
    BY <1>9 DEF PendingInsertFails, HeldOK
  <2> QED
    BY <1>3, <1>4, <1>9, <2>4, <2>5 DEF PendingInsertFails
<1>10. CASE Forward
  <2>1. HeldOK
    BY <1>10 DEF Forward, HeldOK
  <2> QED
    BY <1>2, <1>3, <1>4, <1>10, <2>1 DEF Forward
<1>11. ASSUME NEW p \in Arriving, ReaderTakes(p)
      PROVE  Faithful'
  <2> DEFINE S == DOMAIN pending \ {p.id}
  <2>1. /\ p.id \in DOMAIN pending
        /\ SameName(pending[p.id].name, p.name) /\ pending[p.id].qtype = p.qtype
        /\ reader' = [packet |-> p, entry |-> pending[p.id], todo |-> p.ips]
        /\ asked' = asked /\ pending' = Restrict(pending, S)
    BY <1>11 DEF ReaderTakes, Accepts
  <2>2. ReaderOK
    BY <2>1 DEF ReaderOK, Faithful
  <2>3. S \in SUBSET DOMAIN pending
    OBVIOUS
  <2> HIDE DEF S
  <2>4. DOMAIN pending' = S /\ \A u \in S : pending'[u] = pending[u]
    BY <2>1, <2>3, PendingAfterRemoval
  <2>5. PendingOK
    BY <2>1, <2>3, <2>4 DEF PendingOK, Faithful
  <2> QED
    BY <1>1, <1>4, <1>11, <2>2, <2>5 DEF ReaderTakes
<1>12. CASE ReaderRecords
  <2>1. reader \in [packet : Packet, entry : PendingQuery, todo : Seq(Ips)]
    BY <1>12 DEF ReaderRecords, TypeOK
  <2>2. reader'.entry = reader.entry /\ reader'.packet = reader.packet
    BY <1>12, <2>1 DEF ReaderRecords
  <2>3. ReaderOK
    BY <1>12, <2>2 DEF ReaderRecords, ReaderOK, Faithful
  <2> QED
    BY <1>1, <1>2, <1>4, <1>12, <2>3 DEF ReaderRecords
<1>13. CASE ReaderReplies
  <2>1. ReaderOK
    BY <1>13 DEF ReaderReplies, ReaderOK
  <2> QED
    BY <1>1, <1>2, <1>4, <1>13, <2>1 DEF ReaderReplies
<1>14. CASE UNCHANGED vars
  BY <1>1, <1>2, <1>3, <1>4, <1>14 DEF vars
<1>15. ASSUME NEW o \in Others, OtherInserts(o)
       PROVE  Faithful'
  BY <1>1, <1>2, <1>3, <1>4, <1>15 DEF OtherInserts
<1> QED
  BY <1>5, <1>6, <1>7, <1>8, <1>9, <1>10, <1>11, <1>12, <1>13, <1>14, <1>15
  DEF Next, ReaderDrops

(* Entries never drift from the datagrams they stand for, although upstream
   ids are reused and entries are evicted (run_udp, pending_insert). *)
THEOREM FaithfulAlways == Spec => []Faithful
<1>1. Init => Faithful
  BY DEF Init, Faithful
<1>2. TypeOK /\ Faithful /\ [Next]_vars => Faithful'
  BY FaithfulStep
<1> QED
  BY <1>1, <1>2, TypeCorrect, PTL DEF Spec

-----------------------------------------------------------------------------
(* One more reply, if it answers its query, keeps all replies solicited. *)
LEMMA SolicitedReply ==
    ASSUME TypeOK, TypeOK', [Next]_vars, Solicited,
           NEW q \in 1..MaxQueries, NEW r \in Reply, AnswersIt(r, asked'[q]),
           q \notin DOMAIN asked => replies[q] = << >>,
           \A x \in DOMAIN asked' : x = q \/ x \in DOMAIN asked,
           replies' = [replies EXCEPT ![q] = Append(@, r)]
    PROVE  Solicited'
<1>1. replies \in [1..MaxQueries -> Seq(Reply)]
  BY DEF TypeOK
<1>2. /\ DOMAIN asked = 1..Len(asked) /\ DOMAIN asked' = 1..Len(asked')
      /\ \A x \in DOMAIN asked : asked'[x] = asked[x]
  BY AskedGrows
<1> SUFFICES ASSUME NEW x \in DOMAIN asked', NEW i \in DOMAIN replies'[x]
             PROVE  AnswersIt(replies'[x][i], asked'[x])
  BY <1>2 DEF Solicited
<1>3. x \in 1..MaxQueries
  <2>1. Len(asked') \in Nat /\ Len(asked') <= MaxQueries
    BY DEF TypeOK
  <2> QED
    BY <1>2, <2>1, UdpAssumption
<1>4. CASE x # q
  <2>1. replies'[x] = replies[x] /\ x \in DOMAIN asked
    BY <1>1, <1>3, <1>4
  <2> QED
    BY <1>2, <2>1 DEF Solicited
<1>5. CASE x = q
  <2>1. replies[q] \in Seq(Reply) /\ replies'[q] = Append(replies[q], r)
    BY <1>1
  <2>2. CASE i = Len(replies[q]) + 1
    BY <1>5, <2>1, <2>2
  <2>3. CASE i # Len(replies[q]) + 1
    <3>1. i \in DOMAIN replies[q] /\ replies'[q][i] = replies[q][i]
      BY <1>5, <2>1, <2>3
    <3>2. q \in DOMAIN asked
      BY <3>1
    <3> QED
      BY <1>2, <1>5, <3>1, <3>2 DEF Solicited
  <2> QED
    BY <2>2, <2>3
<1> QED
  BY <1>4, <1>5

(* Every step keeps the replies solicited. *)
LEMMA SolicitedStep ==
    TypeOK /\ TypeOK' /\ Accounted /\ Faithful /\ Solicited /\ [Next]_vars => Solicited'
<1> SUFFICES ASSUME TypeOK, TypeOK', Accounted, Faithful, Solicited, [Next]_vars
             PROVE  Solicited'
  OBVIOUS
<1>1. /\ DOMAIN asked = 1..Len(asked) /\ DOMAIN asked' = 1..Len(asked')
      /\ \A x \in DOMAIN asked : asked'[x] = asked[x]
  BY AskedGrows
<1>2. ASSUME replies' = replies
      PROVE  Solicited'
  <2>1. ASSUME NEW x \in DOMAIN asked', x \notin DOMAIN asked
        PROVE  replies[x] = << >>
    <3>1. Len(asked') \in Nat /\ Len(asked') <= MaxQueries
      BY DEF TypeOK
    <3>2. x \in 1..MaxQueries
      BY <1>1, <3>1, UdpAssumption
    <3> QED
      BY <1>1, <2>1, <3>2 DEF Accounted, Answered
  <2>2. ASSUME NEW x \in DOMAIN asked', NEW i \in DOMAIN replies[x]
        PROVE  AnswersIt(replies[x][i], asked'[x])
    <3>1. x \in DOMAIN asked
      BY <2>1, <2>2
    <3> QED
      BY <1>1, <2>2, <3>1 DEF Solicited
  <2> QED
    BY <1>1, <1>2, <2>2 DEF Solicited
<1>3. ASSUME NEW d \in Datagrams, StripQuery(d)
      PROVE  Solicited'
  <2> DEFINE nodata == [to |-> d.client, id |-> d.id, name |-> d.name,
                        qtype |-> d.qtype, ips |-> << >>]
             q == Len(asked) + 1
  <2>1. \/ replies' = replies
        \/ replies' = [replies EXCEPT ![q] = Append(@, nodata)]
    BY <1>3 DEF StripQuery
  <2>2. asked \in Seq(Datagrams) /\ asked' = Append(asked, d)
    BY <1>3 DEF StripQuery, TypeOK
  <2>3. q \in 1..MaxQueries /\ asked'[q] = d /\ q \notin DOMAIN asked
    BY <1>3, <2>2, UdpAssumption DEF StripQuery, TypeOK
  <2>4. nodata \in Reply /\ AnswersIt(nodata, d)
    BY DatagramFields, UdpAssumption DEF Reply, AnswersIt, SameName
  <2>5. replies[q] = << >>
    BY <1>1, <2>3 DEF Accounted, Answered
  <2>6. \A x \in DOMAIN asked' : x = q \/ x \in DOMAIN asked
    BY <2>2
  <2> HIDE DEF nodata, q
  <2> QED
    BY <1>2, <2>1, <2>3, <2>4, <2>5, <2>6, SolicitedReply
<1>4. CASE ReaderReplies
  <2> DEFINE r == [to |-> reader.entry.client, id |-> reader.entry.client_tx_id,
                   name |-> reader.packet.name, qtype |-> reader.packet.qtype,
                   ips |-> reader.packet.ips]
             q == reader.entry.query
  <2>1. reader \in [packet : Packet, entry : PendingQuery, todo : Seq(Ips)]
    BY <1>4 DEF ReaderReplies, TypeOK
  <2>2. r \in Reply /\ q \in 1..MaxQueries
    BY <2>1 DEF Packet, PendingQuery, Reply
  <2>3. replies' = [replies EXCEPT ![q] = Append(@, r)] /\ asked' = asked
    BY <1>4 DEF ReaderReplies
  <2>4. q \in DOMAIN asked /\ AnswersIt(r, asked[q])
    BY <1>4 DEF ReaderReplies, Faithful, CopyIn, AnswersIt, SameName
  <2> HIDE DEF r, q
  <2> QED
    BY <2>2, <2>3, <2>4, SolicitedReply
<1> QED
  BY <1>2, <1>3, <1>4
  DEF Next, Tick, OtherInserts, ReceiveQuery, PendingInsert, PendingInsertFails, Forward,
      ReaderDrops, ReaderTakes, ReaderRecords, vars

(* For any number of clients, any forged packets and any reuse of upstream
   ids, a client only ever receives answers to its own questions, under the
   id it chose (run_udp, pending_take_match). *)
THEOREM SolicitedAlways == Spec => []Solicited
<1>1. Init => Solicited
  BY DEF Init, Solicited
<1>2. TypeOK /\ TypeOK' /\ Accounted /\ Faithful /\ Solicited /\ [Next]_vars => Solicited'
  BY SolicitedStep
<1> QED
  BY <1>1, <1>2, TypeCorrect, AccountedAlways, FaithfulAlways, PTL DEF Spec

(* A name gets into the table only when the reader records an accepted
   packet, whose name some client asked for, or from the TCP listener. *)
LEMMA TableSolicitedStep ==
    TypeOK /\ Faithful /\ TableSolicited /\ [Next]_vars => TableSolicited'
<1> SUFFICES ASSUME TypeOK, Faithful, TableSolicited, [Next]_vars
             PROVE  TableSolicited'
  OBVIOUS
<1> DEFINE Asked(name) == \E q \in DOMAIN asked : SameName(name, asked[q].name)
<1>1. /\ DOMAIN asked = 1..Len(asked) /\ DOMAIN asked' = 1..Len(asked')
      /\ DOMAIN asked \subseteq DOMAIN asked'
      /\ \A q \in DOMAIN asked : asked'[q] = asked[q]
  BY AskedGrows
<1>2. ASSUME \A ip \in DOMAIN table' : Asked(table'[ip].name) \/ table'[ip].name \in OtherNames(ip)
      PROVE  TableSolicited'
  BY <1>1, <1>2 DEF TableSolicited
<1>3. \A ip \in DOMAIN table : Asked(table[ip].name) \/ table[ip].name \in OtherNames(ip)
  BY <1>1 DEF TableSolicited
<1>4. table' = table => TableSolicited'
  BY <1>2, <1>3
<1>5. ASSUME NEW ip \in Ips, NEW name \in Names, NEW ttl \in Nat \cup {NoTtl},
             table' \in TableInsert(table, ip, name, ttl, now),
             Asked(name) \/ name \in OtherNames(ip)
      PROVE  TableSolicited'
  <2>1. IsMap(table, Ips, TableEntry) /\ now \in Nat
    BY DEF TypeOK
  <2>2. ASSUME NEW x \in DOMAIN table'
        PROVE  \/ x = ip /\ table'[x].name = name
               \/ x \in DOMAIN table /\ table'[x].name = table[x].name
    BY <1>5, <2>1, TableInsertIsMap
  <2> HIDE DEF Asked
  <2> QED
    BY <1>2, <1>3, <1>5, <2>2
<1>6. CASE ReaderRecords
  <2>1. reader \in [packet : Packet, entry : PendingQuery, todo : Seq(Ips)]
    BY <1>6 DEF ReaderRecords, TypeOK
  <2>2. Head(reader.todo) \in Ips
    BY <1>6, <2>1 DEF ReaderRecords
  <2>3. reader.packet.name \in Names /\ reader.packet.ttl \in Nat \cup {NoTtl}
    BY <1>6, <2>1 DEF ReaderRecords, TypeOK, Packet
  <2>4. Asked(reader.packet.name)
    BY <1>6 DEF ReaderRecords, Faithful, CopyIn, SameName
  <2>5. table' \in TableInsert(table, Head(reader.todo), reader.packet.name,
                               reader.packet.ttl, now)
    BY <1>6 DEF ReaderRecords
  <2> HIDE DEF Asked
  <2> QED
    BY <1>5, <2>2, <2>3, <2>4, <2>5
<1>7. ASSUME NEW o \in Others, OtherInserts(o)
      PROVE  TableSolicited'
  <2>1. o.ip \in Ips /\ o.name \in Names /\ o.ttl \in Nat \cup {NoTtl}
    BY UdpAssumption
  <2>2. o.name \in OtherNames(o.ip)
    BY DEF OtherNames
  <2>3. table' \in TableInsert(table, o.ip, o.name, o.ttl, now)
    BY <1>7 DEF OtherInserts
  <2> HIDE DEF Asked
  <2> QED
    BY <1>5, <2>1, <2>2, <2>3
<1> QED
  BY <1>4, <1>6, <1>7 DEF Next, Tick, StripQuery, ReceiveQuery, PendingInsert, PendingInsertFails,
     Forward, ReaderDrops, ReaderTakes, ReaderReplies, vars

(* No sequence of upstream packets, forged ones included, puts a name into the
   IP -> name table that no client asked for, or that the TCP listener did not
   resolve (run_udp). *)
THEOREM TableSolicitedAlways == Spec => []TableSolicited
<1>1. Init => TableSolicited
  BY DEF Init, TableSolicited
<1>2. TypeOK /\ Faithful /\ TableSolicited /\ [Next]_vars => TableSolicited'
  BY TableSolicitedStep
<1> QED
  BY <1>1, <1>2, TypeCorrect, FaithfulAlways, PTL DEF Spec

-----------------------------------------------------------------------------
(***************************************************************************)
(* The forwarder implements the abstract query service of module           *)
(* QueryService.  The refinement mapping is the one of DnsUdp: asked and   *)
(* lost are themselves, answers is replies.                                *)
(***************************************************************************)
(* A query that is neither answered nor given up is open for the service. *)
LEMMA OpenIsUnsettled ==
    ASSUME NEW q \in 1..MaxQueries, q \notin Answered \cup lost
    PROVE  ~Service!Settled(q)
BY DEF Service!Settled, Answered

(* What is held or pending belongs to an open query. *)
LEMMA HeldIsOpen ==
    ASSUME TypeOK, Accounted, NEW q \in InMain \cup InPending \cup InReader
    PROVE  /\ q \in 1..MaxQueries /\ q \in DOMAIN asked
           /\ q \notin Answered \cup lost
<1>1. q \in 1..Len(asked) /\ q \notin Answered \cup lost
  BY DEF Accounted
<1>2. asked \in Seq(Datagrams) /\ Len(asked) <= MaxQueries
  BY DEF TypeOK
<1> QED
  BY <1>1, <1>2, UdpAssumption

(* Giving up what is held or pending is a step of the service. *)
LEMMA LosingIsAStep ==
    ASSUME TypeOK, Accounted, UNCHANGED <<asked, replies>>,
           lost \subseteq lost', lost' \ lost \subseteq InMain \cup InPending
    PROVE  Service!Next
<1>1. ASSUME NEW q \in lost' \ lost
      PROVE  q \in DOMAIN asked' /\ ~Service!Settled(q)
  BY HeldIsOpen, OpenIsUnsettled
<1>2. Service!GiveUp
  BY <1>1 DEF Service!GiveUp
<1> QED
  BY <1>2 DEF Service!Next

(* One reply that answers an open query is an answer of the service. *)
LEMMA ReplyIsAnAnswer ==
    ASSUME TypeOK, NEW q \in 1..MaxQueries, q \notin Answered \cup lost,
           q \in DOMAIN asked', NEW r \in Reply, AnswersIt(r, asked'[q]),
           replies' = [replies EXCEPT ![q] = Append(@, r)]
    PROVE  q \in DOMAIN replies /\ Service!Answer(q)
<1>1. replies \in [1..MaxQueries -> Seq(Reply)]
  BY DEF TypeOK
<1>2. replies[q] = << >>
  BY DEF Answered
<1>3. replies'[q] = <<r>>
  <2>1. replies'[q] = Append(replies[q], r)
    BY <1>1
  <2> QED
    BY <1>2, <2>1
<1>4. Len(replies'[q]) = 1 /\ replies'[q][1] = r
  BY <1>3
<1>5. /\ DOMAIN replies = 1..MaxQueries /\ DOMAIN replies' = DOMAIN replies
      /\ \A p \in DOMAIN replies : p # q => replies'[p] = replies[p]
  BY <1>1
<1>6. ~Service!Settled(q)
  BY OpenIsUnsettled
<1> QED
  BY <1>4, <1>5, <1>6 DEF Service!Answer

(* Every step of the forwarder is a step of the service, or none. *)
LEMMA ServiceStep ==
    TypeOK /\ Accounted /\ Accounted' /\ Faithful /\ [Next]_vars
        => [Service!Next]_(Service!vars)
<1> SUFFICES ASSUME TypeOK, Accounted, Accounted', Faithful, [Next]_vars
             PROVE  Service!Next \/ UNCHANGED <<asked, replies, lost>>
  BY DEF Service!vars
<1>1. ASSUME NEW d \in Datagrams, StripQuery(d)
      PROVE  Service!Next
  <2> DEFINE q == Len(asked) + 1
             nodata == [to |-> d.client, id |-> d.id, name |-> d.name,
                        qtype |-> d.qtype, ips |-> << >>]
  <2>1. asked \in Seq(Datagrams) /\ asked' = Append(asked, d) /\ Len(asked) < MaxQueries
    BY <1>1 DEF StripQuery, TypeOK
  <2>2. q \in 1..MaxQueries /\ q \in DOMAIN asked' /\ asked'[q] = d
    BY <2>1, UdpAssumption
  <2>3. q \notin Answered \cup lost
    BY <2>1 DEF Accounted
  <2>4. CASE d.echoes
    <3>1. replies' = [replies EXCEPT ![q] = Append(@, nodata)] /\ UNCHANGED lost
      BY <1>1, <2>4 DEF StripQuery
    <3>2. nodata \in Reply /\ AnswersIt(nodata, d)
      BY DatagramFields, UdpAssumption DEF Reply, AnswersIt, SameName
    <3> HIDE DEF q, nodata
    <3>3. q \in DOMAIN replies /\ Service!Answer(q)
      BY <2>2, <2>3, <3>1, <3>2, ReplyIsAnAnswer
    <3> QED
      BY <2>1, <3>1, <3>3 DEF Service!Next
  <2>5. CASE ~d.echoes
    <3>1. lost' = lost \cup {q} /\ UNCHANGED replies
      BY <1>1, <2>5 DEF StripQuery
    <3> HIDE DEF q
    <3>2. Service!GiveUp
      BY <2>2, <2>3, <3>1, OpenIsUnsettled DEF Service!GiveUp
    <3> QED
      BY <2>1, <3>1, <3>2 DEF Service!Next
  <2> QED
    BY <2>4, <2>5
<1>2. ASSUME NEW d \in Datagrams, ReceiveQuery(d)
      PROVE  Service!Next
  <2>1. Service!Ask(d)
    BY <1>2 DEF ReceiveQuery, Service!Ask
  <2> QED
    BY <2>1 DEF Service!Next
<1>3. CASE PendingInsert
  <2>1. UNCHANGED <<asked, replies>>
    BY <1>3 DEF PendingInsert
  <2>2. PICK old \in Oldest(Swept) : lost' = lost \cup QueriesOf(DOMAIN pending \ (Swept \ old))
    BY <1>3 DEF PendingInsert
  <2>3. QueriesOf(DOMAIN pending \ (Swept \ old)) \subseteq InPending
    BY DEF QueriesOf, InPending
  <2> QED
    BY <2>1, <2>2, <2>3, LosingIsAStep
<1>4. CASE PendingInsertFails
  <2>1. UNCHANGED <<asked, replies>> /\ main.entry.query \in InMain
    BY <1>4 DEF PendingInsertFails, InMain
  <2>2. PICK old \in Oldest(Swept) :
            lost' = lost \cup QueriesOf(DOMAIN pending \ (Swept \ old)) \cup {main.entry.query}
    BY <1>4 DEF PendingInsertFails
  <2>3. QueriesOf(DOMAIN pending \ (Swept \ old)) \subseteq InPending
    BY DEF QueriesOf, InPending
  <2> QED
    BY <2>1, <2>2, <2>3, LosingIsAStep
<1>5. CASE ReaderReplies
  <2> DEFINE r == [to |-> reader.entry.client, id |-> reader.entry.client_tx_id,
                   name |-> reader.packet.name, qtype |-> reader.packet.qtype,
                   ips |-> reader.packet.ips]
             q == reader.entry.query
  <2>1. reader \in [packet : Packet, entry : PendingQuery, todo : Seq(Ips)]
    BY <1>5 DEF ReaderReplies, TypeOK
  <2>2. r \in Reply
    BY <2>1 DEF Packet, PendingQuery, Reply
  <2>3. replies' = [replies EXCEPT ![q] = Append(@, r)] /\ UNCHANGED <<asked, lost>>
    BY <1>5 DEF ReaderReplies
  <2>4. AnswersIt(r, asked[q])
    BY <1>5 DEF ReaderReplies, Faithful, CopyIn, AnswersIt, SameName
  <2>5. q \in InReader
    BY <1>5 DEF ReaderReplies, InReader
  <2> HIDE DEF r, q
  <2>6. q \in DOMAIN replies /\ Service!Answer(q)
    BY <2>2, <2>3, <2>4, <2>5, HeldIsOpen, ReplyIsAnAnswer
  <2> QED
    BY <2>3, <2>6 DEF Service!Next
<1> QED
  BY <1>1, <1>2, <1>3, <1>4, <1>5 DEF Next, Tick, OtherInserts, Forward, ReaderDrops, ReaderTakes,
     ReaderRecords, vars

(* Whatever the two tasks and the network do, the forwarder does what the
   abstract query service does: queries arrive, each is answered at most once,
   by an answer to itself, or given up, and what is settled stays as it is
   (run_udp, pending_insert, pending_take_match). *)
THEOREM ImplementsServiceAlways == Spec => ImplementsService
<1>1. Init => Service!Init
  BY DEF Init, Service!Init
<1>2. TypeOK /\ Accounted /\ Accounted' /\ Faithful /\ [Next]_vars
          => [Service!Next]_(Service!vars)
  BY ServiceStep
<1> QED
  BY <1>1, <1>2, TypeCorrect, AccountedAlways, FaithfulAlways, PTL
     DEF Spec, ImplementsService, Service!Spec

-----------------------------------------------------------------------------
(***************************************************************************)
(* What evictions cannot take away: pending queries for no reason, and     *)
(* addresses that a client is about to learn.                              *)
(*                                                                         *)
(* Aged adds to TypeOK and Accounted what the sweep of pending_insert      *)
(* relies on: the map is finite, so that it has a size and oldest entries, *)
(* and what the main loop is about to insert is no older than what is      *)
(* pending, although the lock is taken later than the clock is read.       *)
(***************************************************************************)

Aged ==
    /\ IsFiniteSet(DOMAIN pending)
    /\ \A u \in DOMAIN pending : pending[u].created <= now
    /\ main # Idle /\ main.up = NoId =>
          /\ main.entry.created <= now
          /\ \A u \in DOMAIN pending : pending[u].created <= main.entry.created

(* An entry is added to what is left of the map. *)
LEMMA InsertedEntry ==
    ASSUME TypeOK, PendingInsert
    PROVE  \E old \in Oldest(Swept), up \in UpIds :
              LET kept == Swept \ old
              IN  /\ kept \subseteq DOMAIN pending
                  /\ main # Idle /\ main.up = NoId
                  /\ DOMAIN pending' = kept \cup {up}
                  /\ pending'[up] = main.entry
                  /\ \A u \in kept : pending'[u] = pending[u]
                  /\ main'.up # NoId
                  /\ lost' = lost \cup QueriesOf(DOMAIN pending \ kept)
<1>1. /\ main # Idle /\ main \in [entry : PendingQuery, up : UpIds \cup {NoId}] /\ main.up = NoId
  BY DEF PendingInsert, TypeOK
<1>2. PICK old \in Oldest(Swept), up \in UpIds :
          /\ up \notin Swept \ old
          /\ pending' = Put(Restrict(pending, Swept \ old), up, main.entry)
          /\ main' = [main EXCEPT !.up = up]
          /\ lost' = lost \cup QueriesOf(DOMAIN pending \ (Swept \ old))
  BY DEF PendingInsert
<1> DEFINE S == Swept \ old
<1>3. S \in SUBSET DOMAIN pending
  BY DEF Swept
<1>4. main.entry \in PendingQuery
  BY <1>1
<1>5. main'.up # NoId
  BY <1>1, <1>2, UdpAssumption
<1>6. /\ DOMAIN pending' = S \cup {up}
      /\ pending'[up] = main.entry
      /\ \A u \in S : pending'[u] = pending[u]
  <2>1. up \notin S /\ pending' = Put(Restrict(pending, S), up, main.entry)
    BY <1>2
  <2> HIDE DEF S
  <2> QED
    BY <1>3, <1>4, <2>1, PendingAfterInsert
<1> QED
  BY <1>1, <1>2, <1>3, <1>5, <1>6

LEMMA AgedInit == Init => Aged
BY FS_EmptySet DEF Init, Aged

LEMMA AgedStep == TypeOK /\ Aged /\ [Next]_vars => Aged'
<1> SUFFICES ASSUME TypeOK, Aged, [Next]_vars
             PROVE  Aged'
  OBVIOUS
<1>0. /\ now \in Nat
      /\ \A u \in DOMAIN pending : pending[u].created \in Nat
      /\ main # Idle => main.entry.created \in Nat
  <2>1. /\ pending \in [DOMAIN pending -> PendingQuery]
        /\ main \in {Idle} \cup [entry : PendingQuery, up : UpIds \cup {NoId}]
    BY DEF TypeOK, IsMap
  <2> QED
    BY <2>1 DEF TypeOK, PendingQuery
<1>1. CASE Tick
  BY <1>0, <1>1 DEF Tick, Aged
<1>2. ASSUME NEW d \in Datagrams, StripQuery(d)
      PROVE  Aged'
  BY <1>2 DEF StripQuery, Aged
<1>3. ASSUME NEW d \in Datagrams, ReceiveQuery(d)
      PROVE  Aged'
  <2>1. main'.entry.created = now /\ UNCHANGED <<now, pending>>
    BY <1>3 DEF ReceiveQuery
  <2> QED
    BY <1>0, <2>1 DEF Aged
<1>4. CASE PendingInsert
  <2>1. PICK old \in Oldest(Swept), up \in UpIds :
            /\ Swept \ old \subseteq DOMAIN pending
            /\ main # Idle /\ main.up = NoId
            /\ DOMAIN pending' = (Swept \ old) \cup {up}
            /\ pending'[up] = main.entry
            /\ \A u \in Swept \ old : pending'[u] = pending[u]
            /\ main'.up # NoId
    BY <1>4, InsertedEntry
  <2>2. IsFiniteSet(DOMAIN pending')
    BY <2>1, FS_Subset, FS_AddElement DEF Aged
  <2>3. now' = now
    BY <1>4 DEF PendingInsert
  <2> QED
    BY <2>1, <2>2, <2>3 DEF Aged
<1>5. CASE PendingInsertFails
  <2>1. PICK old \in Oldest(Swept) : pending' = Restrict(pending, Swept \ old)
    BY <1>5 DEF PendingInsertFails
  <2> DEFINE S == Swept \ old
  <2>2. S \in SUBSET DOMAIN pending
    BY DEF Swept
  <2>3. DOMAIN pending' = S /\ \A u \in S : pending'[u] = pending[u]
    <3> HIDE DEF S
    <3> QED
      BY <2>1, <2>2, PendingAfterRemoval DEF S
  <2>4. IsFiniteSet(S)
    BY <2>2, FS_Subset DEF Aged
  <2>5. main' = Idle /\ now' = now
    BY <1>5 DEF PendingInsertFails
  <2> HIDE DEF S
  <2> QED
    BY <2>2, <2>3, <2>4, <2>5 DEF Aged
<1>6. CASE Forward
  BY <1>6 DEF Forward, Aged
<1>7. ASSUME NEW p \in Arriving, ReaderTakes(p)
      PROVE  Aged'
  <2> DEFINE S == DOMAIN pending \ {p.id}
  <2>1. S \in SUBSET DOMAIN pending /\ pending' = Restrict(pending, S)
    BY <1>7 DEF ReaderTakes
  <2>2. IsFiniteSet(S)
    BY <2>1, FS_Subset DEF Aged
  <2>3. UNCHANGED <<now, main>>
    BY <1>7 DEF ReaderTakes
  <2> HIDE DEF S
  <2>4. DOMAIN pending' = S /\ \A u \in S : pending'[u] = pending[u]
    BY <2>1, PendingAfterRemoval
  <2> QED
    BY <2>1, <2>2, <2>3, <2>4 DEF Aged
<1>8. CASE ReaderRecords \/ ReaderReplies \/ UNCHANGED vars
  BY <1>8 DEF ReaderRecords, ReaderReplies, vars, Aged
<1>9. ASSUME NEW p \in Arriving, ReaderDrops(p)
      PROVE  Aged'
  BY <1>9 DEF ReaderDrops, vars, Aged
<1>10. ASSUME NEW o \in Others, OtherInserts(o)
       PROVE  Aged'
  BY <1>10 DEF OtherInserts, Aged
<1> QED
  BY <1>1, <1>2, <1>3, <1>4, <1>5, <1>6, <1>7, <1>8, <1>9, <1>10 DEF Next

(* The reasons for which an insertion gives a pending query up: it is not
   kept, so it was swept or is one of the oldest of a full map. *)
LEMMA EvictedForCause ==
    ASSUME TypeOK, Aged, NEW old \in Oldest(Swept), NEW u \in DOMAIN pending,
           u \notin Swept \ old
    PROVE  \/ now - pending[u].created >= PENDING_QUERY_TTL
           \/ /\ Cardinality(DOMAIN pending) >= MAX_PENDING_QUERIES
              /\ \A v \in Swept \ old : pending[v].created >= pending[u].created
<1>1. CASE u \notin Swept
  <2>1. pending[u].created \in Nat /\ now \in Nat
    BY DEF TypeOK, IsMap, PendingQuery
  <2> QED
    BY <1>1, <2>1, UdpAssumption DEF Swept
<1>2. CASE u \in old
  <2>1. Swept \subseteq DOMAIN pending /\ IsFiniteSet(DOMAIN pending)
    BY DEF Swept, Aged
  <2>2. /\ IsFiniteSet(Swept) /\ Cardinality(Swept) \in Nat
        /\ Cardinality(DOMAIN pending) \in Nat
        /\ Cardinality(Swept) <= Cardinality(DOMAIN pending)
    BY <2>1, FS_Subset, FS_CardinalityType
  <2>3. /\ old \subseteq Swept
        /\ Cardinality(old) = IF Cardinality(Swept) < MAX_PENDING_QUERIES THEN 0
                              ELSE Cardinality(Swept) - MAX_PENDING_QUERIES + 1
        /\ \A o \in old, k \in Swept \ old : pending[o].created <= pending[k].created
    BY DEF Oldest
  <2>4. Cardinality(old) # 0
    <3>1. IsFiniteSet(old)
      BY <2>2, <2>3, FS_Subset
    <3> QED
      BY <1>2, <3>1, FS_EmptySet
  <2>5. Cardinality(DOMAIN pending) >= MAX_PENDING_QUERIES
    BY <2>2, <2>3, <2>4, UdpAssumption
  <2>6. \A v \in Swept \ old : pending[v].created >= pending[u].created
    <3>1. \A v \in DOMAIN pending : pending[v].created \in Nat
      BY DEF TypeOK, IsMap, PendingQuery
    <3> QED
      BY <1>2, <2>1, <2>3, <3>1
  <2> QED
    BY <2>5, <2>6
<1> QED
  BY <1>1, <1>2

(* A pending query is lost only for a cause: expired, or among the oldest of a
   full map.  Nothing that arrives from upstream, matching or not, and no
   other client's query takes it away (pending_insert, pending_take_match). *)
THEOREM GivenUpForCauseAlways == Spec => GivenUpForCause
<1> DEFINE Cause(u) ==
        \/ now - pending[u].created >= PENDING_QUERY_TTL
        \/ /\ Cardinality(DOMAIN pending) >= MAX_PENDING_QUERIES
           /\ \A v \in DOMAIN pending' : pending'[v].created >= pending[u].created
<1>1. ASSUME TypeOK, Accounted, Aged, [Next]_vars, NEW u \in DOMAIN pending,
             pending[u].query \in lost' \ lost
      PROVE  Cause(u)
  <2>1. pending[u].query \in InPending
    BY DEF InPending
  <2>2. \A S \in SUBSET DOMAIN pending : pending[u].query \in QueriesOf(S) => u \in S
    BY <1>1 DEF QueriesOf, Accounted
  <2>3. ASSUME NEW d \in Datagrams, StripQuery(d)
        PROVE  FALSE
    <3>1. lost' \subseteq lost \cup {Len(asked) + 1}
      BY <2>3 DEF StripQuery
    <3>2. pending[u].query \in 1..Len(asked)
      BY <1>1, <2>1 DEF Accounted
    <3>3. Len(asked) \in Nat
      BY <1>1 DEF TypeOK
    <3> QED
      BY <1>1, <3>1, <3>2, <3>3
  <2>4. CASE PendingInsert
    <3>1. PICK old \in Oldest(Swept), up \in UpIds :
              /\ Swept \ old \subseteq DOMAIN pending
              /\ main # Idle /\ main.up = NoId
              /\ DOMAIN pending' = (Swept \ old) \cup {up}
              /\ pending'[up] = main.entry
              /\ \A v \in Swept \ old : pending'[v] = pending[v]
              /\ lost' = lost \cup QueriesOf(DOMAIN pending \ (Swept \ old))
      BY <1>1, <2>4, InsertedEntry
    <3>2. u \notin Swept \ old
      BY <1>1, <2>2, <3>1
    <3>3. \/ now - pending[u].created >= PENDING_QUERY_TTL
          \/ /\ Cardinality(DOMAIN pending) >= MAX_PENDING_QUERIES
             /\ \A v \in Swept \ old : pending[v].created >= pending[u].created
      BY <1>1, <3>2, EvictedForCause
    <3>4. main.entry.created >= pending[u].created
      <4>1. main.entry.created \in Nat /\ pending[u].created \in Nat
        BY <1>1, <3>1 DEF TypeOK, IsMap, PendingQuery
      <4> QED
        BY <1>1, <3>1, <4>1 DEF Aged
    <3> QED
      BY <3>1, <3>3, <3>4
  <2>5. CASE PendingInsertFails
    <3>1. PICK old \in Oldest(Swept) :
              /\ pending' = Restrict(pending, Swept \ old)
              /\ main # Idle /\ main.up = NoId
              /\ lost' = lost \cup QueriesOf(DOMAIN pending \ (Swept \ old))
                             \cup {main.entry.query}
      BY <2>5 DEF PendingInsertFails
    <3>2. pending[u].query # main.entry.query
      BY <1>1, <2>1, <3>1 DEF Accounted, InMain
    <3>3. u \notin Swept \ old
      BY <1>1, <2>2, <3>1, <3>2
    <3>4. DOMAIN pending' = Swept \ old /\ \A v \in Swept \ old : pending'[v] = pending[v]
      <4>1. Swept \ old \in SUBSET DOMAIN pending
        BY DEF Swept
      <4> QED
        BY <1>1, <3>1, <4>1, PendingAfterRemoval
    <3> QED
      BY <1>1, <3>3, <3>4, EvictedForCause
  <2>6. CASE lost' = lost
    BY <1>1, <2>6
  <2>7. \/ \E d \in Datagrams : StripQuery(d)
        \/ PendingInsert \/ PendingInsertFails
        \/ lost' = lost
    BY <1>1 DEF Next, vars, Tick, OtherInserts, ReceiveQuery, Forward, ReaderDrops, ReaderTakes,
       ReaderRecords, ReaderReplies
  <2> HIDE DEF Cause
  <2> QED
    BY <2>3, <2>4, <2>5, <2>6, <2>7
<1>2. TypeOK /\ Accounted /\ Aged /\ [Next]_vars =>
        (\A u \in DOMAIN pending : pending[u].query \in lost' \ lost => Cause(u))
  BY <1>1
<1>3. Spec => []Aged
  BY AgedInit, AgedStep, TypeCorrect, PTL DEF Spec
<1> QED
  BY <1>2, <1>3, TypeCorrect, AccountedAlways, PTL DEF Spec, GivenUpForCause
-----------------------------------------------------------------------------
(* Of the addresses the reader holds, those that are no longer to be recorded
   are in the table, under the name of the response or one of the TCP
   listener's. *)
Mapped ==
    reader # Idle =>
        \A ip \in Range(reader.packet.ips) :
            \/ ip \in Range(reader.todo)
            \/ ip \in DOMAIN table /\ table[ip].name \in {reader.packet.name} \cup OtherNames(ip)

(* An insertion into a table with room adds one mapping and keeps the others. *)
LEMMA InsertedWithRoom ==
    ASSUME IsFiniteSet(Ips), Cardinality(Ips) < MAX_CACHE_ENTRIES, TypeOK,
           NEW ip, NEW name, NEW ttl, table' \in TableInsert(table, ip, name, ttl, now)
    PROVE  /\ DOMAIN table' = DOMAIN table \cup {ip} /\ table'[ip].name = name
           /\ \A x \in DOMAIN table : x # ip => table'[x] = table[x]
<1>1. Cardinality(DOMAIN table) < MAX_CACHE_ENTRIES
  <2>1. DOMAIN table \subseteq Ips
    BY DEF TypeOK, IsMap
  <2>2. /\ Cardinality(DOMAIN table) <= Cardinality(Ips)
        /\ Cardinality(DOMAIN table) \in Nat /\ Cardinality(Ips) \in Nat
    BY <2>1, FS_Subset, FS_CardinalityType
  <2> QED
    BY <2>2, CapacityAssumption
<1> DEFINE v == [name |-> name, expires |-> now + table_ttl(ttl)]
<1>2. table' = Put(table, ip, v)
  BY <1>1 DEF TableInsert, BoundedInsert, MakeRoom
<1>3. v.name = name
  OBVIOUS
<1> HIDE DEF v
<1>4. /\ DOMAIN table' = DOMAIN table \cup {ip} /\ table'[ip] = v
      /\ \A x \in DOMAIN table : x # ip => table'[x] = table[x]
  BY <1>2 DEF Put
<1> QED
  BY <1>3, <1>4

LEMMA MappedStep ==
    ASSUME IsFiniteSet(Ips), Cardinality(Ips) < MAX_CACHE_ENTRIES,
           TypeOK, Mapped, [Next]_vars
    PROVE  Mapped'
<1>1. ASSUME NEW p \in Arriving, ReaderTakes(p)
      PROVE  Mapped'
  <2>1. reader'.todo = reader'.packet.ips
    BY <1>1 DEF ReaderTakes
  <2> QED
    BY <2>1 DEF Mapped
<1>2. CASE ReaderRecords
  <2>1. /\ reader \in [packet : Packet, entry : PendingQuery, todo : Seq(Ips)]
        /\ reader.todo \in Seq(Ips) /\ reader.todo # << >> /\ reader # Idle
    BY <1>2 DEF ReaderRecords, TypeOK
  <2> DEFINE ip == Head(reader.todo)
  <2>2. \A x \in Range(reader.todo) : x = ip \/ x \in Range(Tail(reader.todo))
    <3> DEFINE q == reader.todo
    <3>1. q \in Seq(Ips) /\ q # << >>
      BY <2>1
    <3> HIDE DEF q
    <3>2. Head(q) = q[1]
      BY <3>1
    <3>3. ASSUME NEW i \in DOMAIN q, i # 1
          PROVE  q[i] \in Range(Tail(q))
      <4>1. i - 1 \in DOMAIN Tail(q) /\ Tail(q)[i - 1] = q[i]
        BY <3>1, <3>3
      <4> QED
        BY <4>1 DEF Range
    <3>4. \A x \in Range(q) : x = Head(q) \/ x \in Range(Tail(q))
      BY <3>2, <3>3 DEF Range
    <3> QED
      BY <3>4 DEF q
  <2>3. /\ table' \in TableInsert(table, ip, reader.packet.name, reader.packet.ttl, now)
        /\ reader'.todo = Tail(reader.todo) /\ reader'.packet = reader.packet
    BY <1>2, <2>1 DEF ReaderRecords
  <2> HIDE DEF ip
  <2>4. /\ DOMAIN table' = DOMAIN table \cup {ip} /\ table'[ip].name = reader.packet.name
        /\ \A x \in DOMAIN table : x # ip => table'[x] = table[x]
    BY <2>3, InsertedWithRoom
  <2>5. ASSUME NEW x \in Range(reader.packet.ips)
        PROVE  \/ x \in Range(reader'.todo)
               \/ /\ x \in DOMAIN table'
                  /\ table'[x].name \in {reader.packet.name} \cup OtherNames(x)
    <3>1. \/ x = ip
          \/ x \in Range(Tail(reader.todo))
          \/ /\ x # ip /\ x \in DOMAIN table
             /\ table[x].name \in {reader.packet.name} \cup OtherNames(x)
      BY <2>1, <2>2, <2>5 DEF Mapped
    <3> QED
      BY <2>3, <2>4, <3>1
  <2> QED
    BY <2>3, <2>5 DEF Mapped
<1>3. ASSUME NEW o \in Others, OtherInserts(o)
      PROVE  Mapped'
  <2>1. /\ DOMAIN table' = DOMAIN table \cup {o.ip} /\ table'[o.ip].name = o.name
        /\ \A x \in DOMAIN table : x # o.ip => table'[x] = table[x]
    BY <1>3, InsertedWithRoom DEF OtherInserts
  <2>2. o.name \in OtherNames(o.ip)
    BY DEF OtherNames
  <2>3. reader' = reader
    BY <1>3 DEF OtherInserts
  <2> QED
    BY <2>1, <2>2, <2>3 DEF Mapped
<1>4. CASE ReaderReplies
  BY <1>4 DEF ReaderReplies, Mapped
<1>5. CASE UNCHANGED <<reader, table>>
  BY <1>5 DEF Mapped
<1> QED
  BY <1>1, <1>2, <1>3, <1>4, <1>5 DEF Next, vars, Tick, StripQuery, ReceiveQuery, PendingInsert,
     PendingInsertFails, Forward, ReaderDrops

(* A reply that leaves is the one of StripQuery, which has no addresses, or
   the one of the reader, whose addresses have all been recorded. *)
LEMMA ReplySent ==
    ASSUME TypeOK, Mapped, [Next]_vars, NEW q \in 1..MaxQueries, replies'[q] # replies[q],
           NEW ip \in Range(replies'[q][Len(replies'[q])].ips)
    PROVE  /\ ip \in DOMAIN table
           /\ table[ip].name \in {replies'[q][Len(replies'[q])].name} \cup OtherNames(ip)
<1>1. ASSUME NEW r \in Reply, NEW x \in 1..MaxQueries,
             replies' = [replies EXCEPT ![x] = Append(@, r)]
      PROVE  replies'[q][Len(replies'[q])] = r
  <2>1. replies[q] \in Seq(Reply) /\ replies'[q] = Append(replies[q], r)
    BY <1>1 DEF TypeOK
  <2> QED
    BY <2>1
<1>2. ASSUME NEW d \in Datagrams, StripQuery(d)
      PROVE  FALSE
  <2> DEFINE nodata == [to |-> d.client, id |-> d.id, name |-> d.name,
                        qtype |-> d.qtype, ips |-> << >>]
             x == Len(asked) + 1
  <2>1. nodata \in Reply /\ nodata.ips = << >>
    BY DatagramFields DEF Reply
  <2>2. replies' = [replies EXCEPT ![x] = Append(@, nodata)] \/ replies' = replies
    BY <1>2 DEF StripQuery
  <2>3. x \in 1..MaxQueries
    BY <1>2, UdpAssumption DEF StripQuery, TypeOK
  <2> HIDE DEF nodata, x
  <2>4. replies'[q][Len(replies'[q])].ips = << >>
    BY <1>1, <2>1, <2>2, <2>3
  <2> QED
    BY <2>4 DEF Range
<1>3. CASE ReaderReplies
  <2> DEFINE r == [to |-> reader.entry.client, id |-> reader.entry.client_tx_id,
                   name |-> reader.packet.name, qtype |-> reader.packet.qtype,
                   ips |-> reader.packet.ips]
             x == reader.entry.query
  <2>1. /\ reader \in [packet : Packet, entry : PendingQuery, todo : Seq(Ips)]
        /\ reader # Idle /\ reader.todo = << >>
    BY <1>3 DEF ReaderReplies, TypeOK
  <2>2. r \in Reply /\ x \in 1..MaxQueries
    BY <2>1 DEF Packet, PendingQuery, Reply
  <2>3. replies' = [replies EXCEPT ![x] = Append(@, r)]
    BY <1>3 DEF ReaderReplies
  <2>4. r.ips = reader.packet.ips /\ r.name = reader.packet.name
    OBVIOUS
  <2> HIDE DEF r, x
  <2>5. replies'[q][Len(replies'[q])] = r
    BY <1>1, <2>2, <2>3
  <2>6. Range(reader.todo) = {}
    BY <2>1 DEF Range
  <2> QED
    BY <2>1, <2>4, <2>5, <2>6 DEF Mapped
<1> QED
  BY <1>2, <1>3 DEF Next, vars, Tick, OtherInserts, ReceiveQuery, PendingInsert,
     PendingInsertFails, Forward, ReaderDrops, ReaderTakes, ReaderRecords

(* By the time a client learns an address the proxy knows its name, as long as
   the table never has to make room: no reply leaves before its addresses have
   been recorded, and neither another response nor the TCP listener takes one
   of them away without putting a name of its own in its place (run_udp, the
   upstream reader). *)
THEOREM MappedBeforeReplyAlways ==
    ASSUME IsFiniteSet(Ips)
    PROVE  Spec => MappedBeforeReply
<1> DEFINE Told == Cardinality(Ips) < MAX_CACHE_ENTRIES =>
             \A q \in 1..MaxQueries : replies'[q] # replies[q] =>
                LET reply == replies'[q][Len(replies'[q])]
                IN  \A ip \in Range(reply.ips) :
                      ip \in DOMAIN table /\ table[ip].name \in {reply.name} \cup OtherNames(ip)
<1>1. CASE Cardinality(Ips) < MAX_CACHE_ENTRIES
  <2>1. Init => Mapped
    BY DEF Init, Mapped
  <2>2. TypeOK /\ Mapped /\ [Next]_vars => Mapped'
    BY <1>1, MappedStep
  <2>3. TypeOK /\ Mapped /\ [Next]_vars => Told
    BY ReplySent
  <2> QED
    BY <2>1, <2>2, <2>3, TypeCorrect, PTL DEF Spec, MappedBeforeReply
<1>2. CASE ~(Cardinality(Ips) < MAX_CACHE_ENTRIES)
  <2>1. Told
    BY <1>2
  <2> QED
    BY <2>1, PTL DEF MappedBeforeReply
<1> QED
  BY <1>1, <1>2
=============================================================================
