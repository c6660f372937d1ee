---------------------------- MODULE DnsTcpProofs ----------------------------
(***************************************************************************)
(* Proofs about the TCP listener of module DnsTcp, for every value of its  *)
(* constants: any connections, queries, answers and TTLs, any capacity of  *)
(* the table that the tasks share.                                         *)
(***************************************************************************)
EXTENDS DnsTcp, TLAPS, FiniteSetTheorems, SequenceTheorems

-----------------------------------------------------------------------------
(* The entries of a table. *)
Entry == [name : Names, expires : Nat]

(* Room in a table that respects its capacity is made by taking entries away:
   a place is free afterwards, and live entries go only if the table is full of
   them, at most half of them. *)
LEMMA RoomIsMade ==
    ASSUME NEW m, IsFiniteSet(DOMAIN m), Cardinality(DOMAIN m) <= MAX_CACHE_ENTRIES,
           NEW t, NEW r \in MakeRoom(m, t)
    PROVE  \E S \in SUBSET DOMAIN m :
              /\ DOMAIN r = S /\ \A x \in S : r[x] = m[x]
              /\ Cardinality(S) < MAX_CACHE_ENTRIES
              /\ Live(m, t) \ S # {} =>
                    /\ Cardinality(Live(m, t)) = MAX_CACHE_ENTRIES
                    /\ 2 * Cardinality(Live(m, t) \ S) <= MAX_CACHE_ENTRIES
<1> DEFINE L == Live(m, t)
<1>1. /\ L \in SUBSET DOMAIN m /\ IsFiniteSet(L)
      /\ Cardinality(L) \in Nat /\ Cardinality(L) <= Cardinality(DOMAIN m)
  <2>1. L \in SUBSET DOMAIN m
    BY DEF Live
  <2> QED
    BY <2>1, FS_Subset, FS_CardinalityType
<1>2. Cardinality(DOMAIN m) \in Nat
  BY FS_CardinalityType
<1>3. CASE Cardinality(DOMAIN m) < MAX_CACHE_ENTRIES
  <2>1. r = m
    BY <1>3 DEF MakeRoom
  <2> QED
    BY <1>1, <1>3, <2>1
<1>4. CASE ~(Cardinality(DOMAIN m) < MAX_CACHE_ENTRIES) /\ Cardinality(L) < MAX_CACHE_ENTRIES
  <2>1. r = Restrict(m, L)
    BY <1>4 DEF MakeRoom
  <2>2. DOMAIN r = L /\ \A x \in L : r[x] = m[x]
    BY <2>1 DEF Restrict
  <2> HIDE DEF L
  <2> QED
    BY <1>1, <1>4, <2>2 DEF L
<1>5. CASE ~(Cardinality(DOMAIN m) < MAX_CACHE_ENTRIES) /\ ~(Cardinality(L) < MAX_CACHE_ENTRIES)
  <2>1. PICK drop \in kSubset(MAX_CACHE_ENTRIES \div 2, L) : r = Restrict(m, L \ drop)
    BY <1>5 DEF MakeRoom
  <2>2. drop \in SUBSET L /\ Cardinality(drop) = MAX_CACHE_ENTRIES \div 2
    BY <2>1 DEF kSubset
  <2> DEFINE S == L \ drop
  <2>3. DOMAIN r = S /\ \A x \in S : r[x] = m[x]
    BY <2>1 DEF Restrict
  <2>4. Cardinality(L) = MAX_CACHE_ENTRIES
    BY <1>1, <1>2, <1>5, CapacityAssumption
  <2>5. L \ S = drop
    BY <2>2
  <2>6. 2 * Cardinality(drop) <= MAX_CACHE_ENTRIES /\ Cardinality(drop) > 0
    BY <2>2, CapacityAssumption
  <2>7. S \in SUBSET L /\ S # L
    <3>1. drop # {}
      BY <2>6, FS_EmptySet
    <3> QED
      BY <2>2, <3>1
  <2>8. Cardinality(S) < MAX_CACHE_ENTRIES
    <3> HIDE DEF S, L
    <3>1. /\ Cardinality(S) <= Cardinality(L) /\ Cardinality(S) # Cardinality(L)
          /\ IsFiniteSet(S)
      BY <1>1, <2>7, FS_Subset
    <3>2. Cardinality(S) \in Nat
      BY <3>1, FS_CardinalityType
    <3> QED
      BY <1>1, <2>4, <3>1, <3>2
  <2>9. S \in SUBSET DOMAIN m
    BY <1>1, <2>7
  <2> HIDE DEF S
  <2> QED
    BY <2>3, <2>4, <2>5, <2>6, <2>8, <2>9
<1> QED
  BY <1>3, <1>4, <1>5

(* What r lacks of the live entries of m is at most half of a full table. *)
LastResort(m, r, t) ==
    Live(m, t) \ DOMAIN r # {} =>
       /\ Cardinality(Live(m, t)) = MAX_CACHE_ENTRIES
       /\ 2 * Cardinality(Live(m, t) \ DOMAIN r) <= MAX_CACHE_ENTRIES

(* DnsTable::insert sets one entry of the table and keeps within its capacity;
   any other entry stays as it was or is evicted, a live one in extremity. *)
LEMMA Inserted ==
    ASSUME NEW m, IsMap(m, Ips, Entry),
           IsFiniteSet(DOMAIN m), Cardinality(DOMAIN m) <= MAX_CACHE_ENTRIES,
           NEW ip \in Ips, NEW v \in Entry, NEW t \in Nat,
           NEW r \in BoundedInsert(m, ip, v, t)
    PROVE  /\ IsMap(r, Ips, Entry)
           /\ ip \in DOMAIN r /\ r[ip] = v
           /\ \A x \in DOMAIN r : x # ip => x \in DOMAIN m /\ r[x] = m[x]
           /\ IsFiniteSet(DOMAIN r) /\ Cardinality(DOMAIN r) <= MAX_CACHE_ENTRIES
           /\ LastResort(m, r, t)
<1> DEFINE L == Live(m, t)
<1>2. PICK m1 \in MakeRoom(m, t) : r = Put(m1, ip, v)
  BY DEF BoundedInsert
<1>3. PICK S \in SUBSET DOMAIN m :
              /\ DOMAIN m1 = S /\ \A x \in S : m1[x] = m[x]
              /\ Cardinality(S) < MAX_CACHE_ENTRIES
              /\ L \ S # {} =>
                    /\ Cardinality(L) = MAX_CACHE_ENTRIES
                    /\ 2 * Cardinality(L \ S) <= MAX_CACHE_ENTRIES
  BY RoomIsMade
<1>4. r = [x \in S \cup {ip} |-> IF x = ip THEN v ELSE m1[x]]
  BY <1>2, <1>3 DEF Put
<1>5. DOMAIN r = S \cup {ip} /\ r[ip] = v /\ \A x \in S : x # ip => r[x] = m[x]
  BY <1>3, <1>4
<1>6. IsMap(r, Ips, Entry)
  <2>1. \A x \in DOMAIN m : x \in Ips /\ m[x] \in Entry
    BY DEF IsMap
  <2>2. \A x \in S \cup {ip} : x \in Ips /\ r[x] \in Entry
    BY <1>5, <2>1
  <2> QED
    BY <1>4, <1>5, <2>2 DEF IsMap
<1>7. IsFiniteSet(S) /\ Cardinality(S) \in Nat
  BY FS_Subset, FS_CardinalityType
<1>8. IsFiniteSet(DOMAIN r) /\ Cardinality(DOMAIN r) <= MAX_CACHE_ENTRIES
  <2>1. IsFiniteSet(S \cup {ip}) /\ Cardinality(S \cup {ip}) <= Cardinality(S) + 1
    <3>1. /\ IsFiniteSet(S \cup {ip})
          /\ Cardinality(S \cup {ip}) = IF ip \in S THEN Cardinality(S) ELSE Cardinality(S) + 1
      BY <1>7, FS_AddElement, Zenon
    <3> QED
      BY <1>7, <3>1
  <2>2. Cardinality(S \cup {ip}) \in Nat
    BY <2>1, FS_CardinalityType
  <2> QED
    BY <1>3, <1>5, <1>7, <2>1, <2>2, CapacityAssumption
<1>9. ASSUME L \ DOMAIN r # {}
      PROVE  /\ Cardinality(L) = MAX_CACHE_ENTRIES
             /\ 2 * Cardinality(L \ DOMAIN r) <= MAX_CACHE_ENTRIES
  <2>1. L \ DOMAIN r \in SUBSET (L \ S) /\ L \ S # {}
    BY <1>5, <1>9
  <2>2. IsFiniteSet(L \ S)
    <3>1. L \ S \in SUBSET DOMAIN m
      BY DEF Live
    <3> QED
      BY <3>1, FS_Subset
  <2> HIDE DEF L
  <2>3. /\ Cardinality(L \ DOMAIN r) <= Cardinality(L \ S)
        /\ Cardinality(L \ DOMAIN r) \in Nat /\ Cardinality(L \ S) \in Nat
    BY <2>1, <2>2, FS_Subset, FS_CardinalityType
  <2> QED
    BY <1>3, <2>1, <2>3, CapacityAssumption
<1> QED
  BY <1>3, <1>5, <1>6, <1>8, <1>9 DEF LastResort

-----------------------------------------------------------------------------
(* The table holds a bounded number of entries, each of them the latest for its
   address. *)
Capped ==
    /\ IsFiniteSet(DOMAIN table) /\ Cardinality(DOMAIN table) <= MAX_CACHE_ENTRIES
    /\ \A ip \in DOMAIN table : ip \in DOMAIN latest /\ table[ip] = latest[ip]

(* The table that the listeners share is a map of DnsMaps. *)
LEMMA TableIsMap ==
    Table!TypeOK <=> IsMap(table, Ips, Entry) /\ now \in Nat /\ IsMap(latest, Ips, Entry)
BY DEF Table!TypeOK, Table!IsMap, Table!Entry, IsMap, Entry

(* The table's cardinalities are cardinalities. *)
LEMMA SameCardinality == \A S : Table!Cardinality(S) = Cardinality(S)
BY DEF Table!Cardinality, Cardinality

(* The table's insertion is HashMap::insert into a bounded map. *)
LEMMA InsertIsInsert ==
    ASSUME NEW ip \in Ips, NEW name \in Names, NEW ttl \in Nat \cup {NoTtl},
           Table!TypeOK, Table!Insert(ip, name, ttl)
    PROVE  \E v \in Entry : /\ v.name = name
                            /\ table' \in BoundedInsert(table, ip, v, now)
                            /\ latest' = Put(latest, ip, v)
                            /\ now' = now
<1>1. ASSUME NEW m, NEW t PROVE Table!MakeRoom(m, t) = MakeRoom(m, t)
  <2>1. Table!Live(m, t) = Live(m, t)
    BY DEF Table!Live, Live
  <2>2. ASSUME NEW S PROVE Table!Restrict(m, S) = Restrict(m, S)
    BY DEF Table!Restrict, Restrict
  <2>3. ASSUME NEW k, NEW S PROVE Table!kSubset(k, S) = kSubset(k, S)
    BY SameCardinality DEF Table!kSubset, kSubset
  <2> QED
    BY <2>1, <2>2, <2>3, SameCardinality, Zenon DEF Table!MakeRoom, MakeRoom
<1>2. ASSUME NEW m, NEW k, NEW v PROVE Table!Put(m, k, v) = Put(m, k, v)
  BY DEF Table!Put, Put
<1>3. PICK v : v = [name |-> name, expires |-> now + Table!table_ttl(ttl)]
  OBVIOUS
<1>4. v \in Entry /\ v.name = name
  BY <1>3, TableIsMap, TtlAssumption DEF Entry, Table!table_ttl, Table!Clamp
<1>5. /\ table' \in Table!BoundedInsert(table, ip, v, now)
      /\ latest' = Table!Put(latest, ip, v) /\ now' = now
  BY <1>3 DEF Table!Insert, Table!TableInsert
<1>6. Table!BoundedInsert(table, ip, v, now) = BoundedInsert(table, ip, v, now)
  BY <1>1, <1>2, Zenon DEF Table!BoundedInsert, BoundedInsert
<1> QED
  BY <1>2, <1>4, <1>5, <1>6

(* An insertion keeps the types of the table. *)
LEMMA InsertTyped ==
    ASSUME Table!TypeOK, Capped,
           NEW ip \in Ips, NEW name \in Names, NEW ttl \in Nat \cup {NoTtl},
           Table!Insert(ip, name, ttl)
    PROVE  Table!TypeOK'
<1>1. IsMap(table, Ips, Entry) /\ IsMap(latest, Ips, Entry) /\ now \in Nat
  BY TableIsMap
<1>2. PICK v \in Entry : /\ table' \in BoundedInsert(table, ip, v, now)
                         /\ latest' = Put(latest, ip, v)
                         /\ now' = now
  BY InsertIsInsert
<1>3. IsMap(table', Ips, Entry)
  BY <1>1, <1>2, Inserted DEF Capped
<1>4. IsMap(latest', Ips, Entry)
  BY <1>1, <1>2 DEF IsMap, Put
<1> QED
  BY <1>1, <1>2, <1>3, <1>4
  DEF Table!TypeOK, Table!IsMap, Table!Entry, IsMap, Entry

(* One more reply keeps the type of the replies. *)
LEMMA RepliesTyped ==
    ASSUME DOMAIN replies = Conns, NEW c \in Conns, NEW q, NEW R,
           \A x \in Conns : replies[x] \in [1..MaxQueries[x] -> Seq(R)],
           NEW r \in R, replies' = [replies EXCEPT ![c][q] = <<r>>]
    PROVE  /\ DOMAIN replies' = Conns
           /\ \A x \in Conns : replies'[x] \in [1..MaxQueries[x] -> Seq(R)]
<1>1. <<r>> \in Seq(R)
  OBVIOUS
<1> DEFINE one == <<r>>
<1> HIDE DEF one
<1>2. replies' = [replies EXCEPT ![c] = [replies[c] EXCEPT ![q] = one]]
  BY DEF one
<1>3. [replies[c] EXCEPT ![q] = one] \in [1..MaxQueries[c] -> Seq(R)]
  BY <1>1 DEF one
<1> QED
  BY <1>2, <1>3

-----------------------------------------------------------------------------
(* The type invariant, with the domains of the per-connection functions. *)
Typed ==
    /\ TypeOK
    /\ asked \in [Conns -> Seq(Query)] /\ whole \in [Conns -> Nat]
    /\ DOMAIN replies = Conns /\ DOMAIN lost = Conns
    /\ \A c \in Conns : Len(asked[c]) <= MaxQueries[c]

(* The queries an open connection has settled are those its task has got
   through, and the query the task is at has arrived. *)
InOrder(c) ==
    /\ \A q \in 1..MaxQueries[c] : replies[c][q] # << >> => q \in DOMAIN asked[c]
    /\ lost[c] \subseteq DOMAIN asked[c]
    /\ \A q \in lost[c] : replies[c][q] = << >>
    /\ done[c] <= Len(asked[c])
    /\ pc[c] # "closed" => Settled(c) = 1..done[c]
    /\ pc[c] \in {"body", "forward", "record"} => done[c] < Len(asked[c])

AllInOrder == \A c \in Conns : InOrder(c)

(* What the table, the environment and time leave alone. *)
LEMMA TypedTable ==
    ASSUME Typed, Table!TypeOK', resolved' \subseteq Names \X Ips, UNCHANGED <<listener, conn>>
    PROVE  Typed'
BY DEF Typed, TypeOK, conn

(* The query that a task works on is one its client has sent. *)
LEMMA CurrentTyped ==
    ASSUME Typed, NEW c \in Conns, InOrder(c), pc[c] \in {"body", "forward", "record"}
    PROVE  /\ Current(c) \in 1..MaxQueries[c] /\ Current(c) \in DOMAIN asked[c]
           /\ CurrentQuery(c) \in Query /\ CurrentQuery(c) \in Queries[c]
           /\ CurrentQuery(c).name \in Names
<1>1. /\ asked[c] \in Seq(Queries[c]) /\ Queries[c] \subseteq Query
      /\ Len(asked[c]) \in Nat /\ DOMAIN asked[c] = 1..Len(asked[c])
      /\ Len(asked[c]) <= MaxQueries[c] /\ MaxQueries[c] \in Nat
  BY TcpAssumption DEF Typed, TypeOK
<1>2. Current(c) \in 1..Len(asked[c])
  BY <1>1 DEF InOrder, Current, Typed, TypeOK
<1>3. CurrentQuery(c) \in Queries[c]
  BY <1>1, <1>2 DEF CurrentQuery
<1> QED
  BY <1>1, <1>2, <1>3 DEF Query

(* Ending a connection keeps every variable in its type. *)
LEMMA CloseTyped ==
    ASSUME Typed, NEW c \in Conns, Close(c)
    PROVE  Typed'
<1>1. Idle \in [ips : Seq(Ips), answer : Seq(Ips), ttl : Ttls \cup {NoTtl}]
  BY DEF Idle
<1>2. pc' \in [Conns -> {"none", "length", "body", "forward", "record", "closed"}]
  BY DEF Close, Typed, TypeOK
<1>3. todo' \in [Conns -> [ips : Seq(Ips), answer : Seq(Ips), ttl : Ttls \cup {NoTtl}]]
  <2> HIDE DEF Idle
  <2> QED
    BY <1>1 DEF Close, Typed, TypeOK
<1>4. ASSUME NEW x \in Conns PROVE lost'[x] \subseteq 1..MaxQueries[x]
  <2>1. DOMAIN asked[x] \subseteq 1..MaxQueries[x]
    <3>1. asked[x] \in Seq(Query) /\ Len(asked[x]) <= MaxQueries[x] /\ MaxQueries[x] \in Nat
      BY TcpAssumption DEF Typed
    <3> QED
      BY <3>1
  <2> QED
    BY <2>1 DEF Close, Typed, TypeOK
<1> QED
  BY <1>2, <1>3, <1>4 DEF Close, Typed, TypeOK, Table!TypeOK

(* Every step keeps every variable in its type. *)
LEMMA TypedStep == Typed /\ AllInOrder /\ Capped /\ [Next]_vars => Typed'
<1> SUFFICES ASSUME Typed, AllInOrder, Capped, [Next]_vars
             PROVE  Typed'
  OBVIOUS
<1>1. ASSUME NEW c \in Conns, NEW d \in Queries[c], ClientSendsLength(c, d)
      PROVE  Typed'
  <2>1. asked' = [asked EXCEPT ![c] = Append(@, d)] /\ d \in Query
        /\ Len(asked[c]) < MaxQueries[c] /\ MaxQueries[c] \in Nat
    BY <1>1, TcpAssumption DEF ClientSendsLength
  <2>2. /\ asked' \in [Conns -> Seq(Query)]
        /\ \A x \in Conns : x # c => asked'[x] = asked[x]
        /\ asked'[c] = Append(asked[c], d)
    BY <2>1 DEF Typed
  <2>3. /\ asked'[c] \in Seq(Queries[c]) /\ Len(asked'[c]) = Len(asked[c]) + 1
        /\ Len(asked[c]) \in Nat
    BY <2>2 DEF Typed, TypeOK
  <2>4. ASSUME NEW x \in Conns
        PROVE  /\ asked'[x] \in Seq(Queries[x]) /\ Len(asked'[x]) <= MaxQueries[x]
               /\ whole[x] \in 0..Len(asked'[x])
    <3>1. whole[x] \in 0..Len(asked[x]) /\ asked[x] \in Seq(Queries[x])
          /\ Len(asked[x]) <= MaxQueries[x]
      BY DEF Typed, TypeOK
    <3>2. CASE x = c
      BY <2>1, <2>3, <3>1, <3>2
    <3>3. CASE x # c
      BY <2>2, <3>1, <3>3
    <3> QED
      BY <3>2, <3>3
  <2> QED
    BY <1>1, <2>2, <2>4 DEF ClientSendsLength, Typed, TypeOK, Table!TypeOK
<1>2. ASSUME NEW c \in Conns, ClientSendsBody(c)
      PROVE  Typed'
  <2>1. whole \in [Conns -> Nat] /\ whole' = [whole EXCEPT ![c] = @ + 1]
    BY <1>2 DEF ClientSendsBody, Typed
  <2>2. whole' \in [Conns -> Nat] /\ whole'[c] = whole[c] + 1
        /\ \A x \in Conns : x # c => whole'[x] = whole[x]
    BY <2>1
  <2>3. \A x \in Conns : Len(asked[x]) \in Nat /\ whole[x] \in 0..Len(asked[x])
    BY DEF Typed, TypeOK
  <2>4. \A x \in Conns : whole'[x] \in 0..Len(asked[x])
    BY <1>2, <2>1, <2>2, <2>3 DEF ClientSendsBody
  <2> QED
    BY <1>2, <2>2, <2>4 DEF ClientSendsBody, Typed, TypeOK, Table!TypeOK
<1>3. ASSUME NEW c \in Conns, ClientReads(c)
      PROVE  Typed'
  <2>1. unread' \in [Conns -> 0..Window]
    BY <1>3, TcpAssumption DEF ClientReads, Typed, TypeOK
  <2> QED
    BY <1>3, <2>1 DEF ClientReads, Typed, TypeOK, Table!TypeOK
<1>4. ASSUME NEW o \in Others, OtherInserts(o)
      PROVE  Typed'
  <2>1. o.ip \in Ips /\ o.name \in Names /\ o.ttl \in Nat \cup {NoTtl}
    BY TcpAssumption
  <2>2. Table!TypeOK'
    BY <1>4, <2>1, InsertTyped DEF OtherInserts, Typed, TypeOK
  <2>3. resolved' \subseteq Names \X Ips
    BY <1>4, <2>1 DEF OtherInserts, Typed, TypeOK
  <2> QED
    BY <1>4, <2>2, <2>3, TypedTable DEF OtherInserts
<1>5. CASE Tick
  <2>1. Table!TypeOK'
    BY <1>5 DEF Tick, Table!Tick, Typed, TypeOK, Table!TypeOK
  <2>2. resolved' \subseteq Names \X Ips
    BY <1>5 DEF Tick, Typed, TypeOK
  <2> QED
    BY <1>5, <2>1, <2>2, TypedTable DEF Tick
<1>6. ASSUME NEW c \in Conns, Accept(c)
      PROVE  Typed'
  BY <1>6 DEF Accept, Typed, TypeOK, Table!TypeOK
<1>7. CASE AcceptFails
  BY <1>7 DEF AcceptFails, Typed, TypeOK, Table!TypeOK, conn
<1>8. ASSUME NEW c \in Conns, Close(c)
      PROVE  Typed'
  BY <1>8, CloseTyped
<1>9. ASSUME NEW c \in Conns, ReadLength(c)
      PROVE  Typed'
  BY <1>8, <1>9 DEF ReadLength, Typed, TypeOK, Table!TypeOK
<1>10. ASSUME NEW c \in Conns, ReadBody(c)
      PROVE  Typed'
  BY <1>10 DEF ReadBody, Typed, TypeOK, Table!TypeOK
<1>11. ASSUME NEW c \in Conns, StripQuery(c)
      PROVE  Typed'
  <2> DEFINE q == Current(c)
             r == [name |-> CurrentQuery(c).name, ips |-> << >>]
  <2>1. q \in 1..MaxQueries[c] /\ r \in [name : Names, ips : Seq(Ips)]
    BY <1>11, CurrentTyped DEF StripQuery, AllInOrder
  <2> HIDE DEF q, r
  <2>0. done' \in [Conns -> Nat]
    BY <1>11 DEF StripQuery, Typed, TypeOK
  <2>2. CASE /\ unread[c] < Window
             /\ replies' = [replies EXCEPT ![c][q] = <<r>>]
             /\ unread' = [unread EXCEPT ![c] = @ + 1] /\ UNCHANGED lost
    <3>1. unread' \in [Conns -> 0..Window]
      BY <2>2, TcpAssumption DEF Typed, TypeOK
    <3>2. /\ DOMAIN replies' = Conns
          /\ \A x \in Conns : replies'[x] \in [1..MaxQueries[x] -> Seq([name : Names, ips : Seq(Ips)])]
      BY <2>1, <2>2, RepliesTyped DEF Typed, TypeOK
    <3>3. /\ pc' = [pc EXCEPT ![c] = "length"]
          /\ UNCHANGED <<table, now, latest, resolved, listener, todo, asked, whole>>
      BY <1>11 DEF StripQuery
    <3> QED
      BY <2>0, <2>2, <3>1, <3>2, <3>3 DEF Typed, TypeOK, Table!TypeOK
  <2>3. CASE lost' = [lost EXCEPT ![c] = @ \cup {q}] /\ UNCHANGED <<replies, unread>>
    BY <1>11, <2>0, <2>1, <2>3 DEF StripQuery, Typed, TypeOK, Table!TypeOK
  <2> QED
    BY <1>11, <2>2, <2>3 DEF StripQuery, q, r
<1>12. ASSUME NEW c \in Conns, NEW a \in Answers, ForwardAnswered(c, a)
      PROVE  Typed'
  <2> DEFINE t == [ips |-> a.ips, answer |-> a.ips, ttl |-> a.ttl]
  <2>1. a.ips \in Seq(Ips) /\ a.ttl \in Ttls
    BY TcpAssumption
  <2>2. t \in [ips : Seq(Ips), answer : Seq(Ips), ttl : Ttls \cup {NoTtl}]
    BY <2>1
  <2>3. todo' = [todo EXCEPT ![c] = t]
    BY <1>12 DEF ForwardAnswered
  <2> HIDE DEF t
  <2>4. todo' \in [Conns -> [ips : Seq(Ips), answer : Seq(Ips), ttl : Ttls \cup {NoTtl}]]
    BY <2>2, <2>3 DEF Typed, TypeOK
  <2>5. CurrentQuery(c).name \in Names
    BY <1>12, CurrentTyped DEF ForwardAnswered, AllInOrder
  <2>6. Range(a.ips) \subseteq Ips
    BY <2>1, ElementOfSeq DEF Range
  <2>7. resolved' \subseteq Names \X Ips
    BY <1>12, <2>5, <2>6 DEF ForwardAnswered, Typed, TypeOK
  <2> QED
    BY <1>12, <2>4, <2>7 DEF ForwardAnswered, Typed, TypeOK, Table!TypeOK
<1>13. ASSUME NEW c \in Conns, Record(c)
      PROVE  Typed'
  <2>1. todo[c].ips \in Seq(Ips) /\ todo[c].ips # << >> /\ todo[c].ttl \in Nat \cup {NoTtl}
    BY <1>13, TcpAssumption DEF Record, Typed, TypeOK
  <2>2. Head(todo[c].ips) \in Ips /\ Tail(todo[c].ips) \in Seq(Ips)
    BY <2>1
  <2>3. CurrentQuery(c).name \in Names
    BY <1>13, CurrentTyped DEF Record, AllInOrder
  <2>4. Table!TypeOK'
    BY <1>13, <2>1, <2>2, <2>3, InsertTyped DEF Record, Typed, TypeOK
  <2>5. todo' \in [Conns -> [ips : Seq(Ips), answer : Seq(Ips), ttl : Ttls \cup {NoTtl}]]
    BY <1>13, <2>2 DEF Record, Typed, TypeOK
  <2> QED
    BY <1>13, <2>4, <2>5 DEF Record, Typed, TypeOK
<1>14. ASSUME NEW c \in Conns, Respond(c)
      PROVE  Typed'
  <2> DEFINE q == Current(c)
             r == [name |-> CurrentQuery(c).name, ips |-> todo[c].answer]
  <2>1. q \in 1..MaxQueries[c] /\ r \in [name : Names, ips : Seq(Ips)]
    BY <1>14, CurrentTyped DEF Respond, AllInOrder, Typed, TypeOK
  <2>2. Idle \in [ips : Seq(Ips), answer : Seq(Ips), ttl : Ttls \cup {NoTtl}]
    BY DEF Idle
  <2> HIDE DEF q, r
  <2>3. replies' = [replies EXCEPT ![c][q] = <<r>>]
    BY <1>14 DEF Respond, q, r
  <2>4. unread' \in [Conns -> 0..Window]
    BY <1>14, TcpAssumption DEF Respond, Typed, TypeOK
  <2>5. todo' \in [Conns -> [ips : Seq(Ips), answer : Seq(Ips), ttl : Ttls \cup {NoTtl}]]
    <3> HIDE DEF Idle
    <3> QED
      BY <1>14, <2>2 DEF Respond, Typed, TypeOK
  <2>6. /\ DOMAIN replies' = Conns
        /\ \A x \in Conns : replies'[x] \in [1..MaxQueries[x] -> Seq([name : Names, ips : Seq(Ips)])]
    BY <2>1, <2>3, RepliesTyped DEF Typed, TypeOK
  <2>7. /\ pc' = [pc EXCEPT ![c] = "length"]
        /\ UNCHANGED <<table, now, latest, resolved, listener, asked, whole, lost>>
    BY <1>14 DEF Respond
  <2>8. done' \in [Conns -> Nat]
    BY <1>14 DEF Respond, Typed, TypeOK
  <2> QED
    BY <2>4, <2>5, <2>6, <2>7, <2>8 DEF Typed, TypeOK, Table!TypeOK
<1>15. CASE UNCHANGED vars
  BY <1>15 DEF vars, conn, Typed, TypeOK, Table!TypeOK
<1> QED
  BY <1>1, <1>2, <1>3, <1>4, <1>5, <1>6, <1>7, <1>8, <1>9, <1>10, <1>11, <1>12, <1>13, <1>14, <1>15
  DEF Next, Client, Task, ReadLengthEnds, ReadBodyFails, ForwardFails, WriteFails

-----------------------------------------------------------------------------
(* What a step does to the history of connection c: another query arrives, the
   current one is answered or skipped, all that are open are given up, or the
   task merely moves on. *)
Arrives(c) ==
    /\ \E d \in Queries[c] : asked'[c] = Append(asked[c], d)
    /\ Len(asked[c]) < MaxQueries[c] /\ pc[c] # "closed"
    /\ pc'[c] = pc[c] /\ replies'[c] = replies[c] /\ lost'[c] = lost[c] /\ done'[c] = done[c]

Replied(c) ==
    /\ pc[c] \in {"body", "record"} /\ pc'[c] = "length"
    /\ \E r : /\ r.name = CurrentQuery(c).name
              /\ replies'[c] = [replies[c] EXCEPT ![Current(c)] = <<r>>]
    /\ asked'[c] = asked[c] /\ lost'[c] = lost[c] /\ done'[c] = done[c] + 1

Skipped(c) ==
    /\ pc[c] = "body" /\ pc'[c] = "length"
    /\ lost'[c] = lost[c] \cup {Current(c)}
    /\ asked'[c] = asked[c] /\ replies'[c] = replies[c] /\ done'[c] = done[c] + 1

Closed(c) ==
    /\ pc'[c] = "closed"
    /\ lost'[c] = DOMAIN asked[c] \ {q \in 1..MaxQueries[c] : replies[c][q] # << >>}
    /\ asked'[c] = asked[c] /\ replies'[c] = replies[c] /\ done'[c] = done[c]

Moved(c) ==
    /\ asked'[c] = asked[c] /\ replies'[c] = replies[c] /\ lost'[c] = lost[c]
    /\ done'[c] = done[c]
    /\ \/ pc'[c] = pc[c]
       \/ pc[c] = "none" /\ pc'[c] = "length"
       \/ pc[c] = "length" /\ Current(c) \in DOMAIN asked[c]
       \/ pc[c] \in {"body", "forward"} /\ pc'[c] # "closed"

(* Every step is one of those five for every connection. *)
LEMMA ConnectionSteps ==
    ASSUME Typed, [Next]_vars, NEW c \in Conns
    PROVE  Arrives(c) \/ Replied(c) \/ Skipped(c) \/ Closed(c) \/ Moved(c)
<1>1. ASSUME NEW x \in Conns, NEW d \in Queries[x], ClientSendsLength(x, d)
      PROVE  Arrives(c) \/ Moved(c)
  <2>1. CASE x = c
    BY <1>1, <2>1 DEF ClientSendsLength, Connected, Arrives, Typed
  <2>2. CASE x # c
    BY <1>1, <2>2 DEF ClientSendsLength, Moved, Typed
  <2> QED
    BY <2>1, <2>2
<1>2. ASSUME NEW x \in Conns, Close(x)
      PROVE  Closed(c) \/ Moved(c)
  <2>1. CASE x = c
    BY <1>2, <2>1 DEF Close, Closed, Typed, TypeOK
  <2>2. CASE x # c
    BY <1>2, <2>2 DEF Close, Moved, Typed, TypeOK
  <2> QED
    BY <2>1, <2>2
<1>3. ASSUME NEW x \in Conns, StripQuery(x)
      PROVE  Replied(c) \/ Skipped(c) \/ Moved(c)
  <2>1. CASE x # c
    BY <1>3, <2>1 DEF StripQuery, Moved, Typed, TypeOK
  <2> DEFINE r == [name |-> CurrentQuery(c).name, ips |-> << >>]
  <2>2. CASE x = c /\ UNCHANGED lost /\ replies' = [replies EXCEPT ![c][Current(c)] = <<r>>]
    <3>1. /\ pc[c] = "body" /\ pc' = [pc EXCEPT ![c] = "length"] /\ UNCHANGED asked
          /\ done' = [done EXCEPT ![c] = @ + 1]
      BY <1>3, <2>2 DEF StripQuery
    <3>2. r.name = CurrentQuery(c).name
      OBVIOUS
    <3> HIDE DEF r
    <3>3. replies'[c] = [replies[c] EXCEPT ![Current(c)] = <<r>>] /\ pc'[c] = "length"
          /\ done'[c] = done[c] + 1
      BY <2>2, <3>1 DEF Typed, TypeOK
    <3> QED
      BY <2>2, <3>1, <3>2, <3>3 DEF Replied
  <2>3. CASE x = c /\ UNCHANGED replies /\ lost' = [lost EXCEPT ![c] = @ \cup {Current(c)}]
    <3>1. /\ pc[c] = "body" /\ pc' = [pc EXCEPT ![c] = "length"] /\ UNCHANGED asked
          /\ done' = [done EXCEPT ![c] = @ + 1]
      BY <1>3, <2>3 DEF StripQuery
    <3> QED
      BY <2>3, <3>1 DEF Skipped, Typed, TypeOK
  <2> QED
    BY <1>3, <2>1, <2>2, <2>3 DEF StripQuery
<1>4. ASSUME NEW x \in Conns, Respond(x)
      PROVE  Replied(c) \/ Moved(c)
  <2>1. CASE x # c
    BY <1>4, <2>1 DEF Respond, Moved, Typed, TypeOK
  <2>2. CASE x = c
    <3> DEFINE r == [name |-> CurrentQuery(c).name, ips |-> todo[c].answer]
    <3>1. /\ replies' = [replies EXCEPT ![c][Current(c)] = <<r>>]
          /\ pc[c] = "record" /\ pc' = [pc EXCEPT ![c] = "length"] /\ UNCHANGED <<asked, lost>>
          /\ done' = [done EXCEPT ![c] = @ + 1]
      BY <1>4, <2>2 DEF Respond
    <3>2. r.name = CurrentQuery(c).name
      OBVIOUS
    <3> HIDE DEF r
    <3>3. replies'[c] = [replies[c] EXCEPT ![Current(c)] = <<r>>] /\ pc'[c] = "length"
          /\ done'[c] = done[c] + 1
      BY <3>1 DEF Typed, TypeOK
    <3> QED
      BY <3>1, <3>2, <3>3 DEF Replied
  <2> QED
    BY <2>1, <2>2
<1>5. ASSUME NEW x \in Conns,
             Accept(x) \/ ReadLength(x) \/ ReadBody(x) \/ \E a \in Answers : ForwardAnswered(x, a)
      PROVE  Closed(c) \/ Moved(c)
  BY <1>2, <1>5 DEF Accept, ReadLength, ReadBody, ForwardAnswered, Moved, Typed, TypeOK
<1>6. ASSUME NEW x \in Conns,
             ClientSendsBody(x) \/ ClientReads(x) \/ Record(x)
      PROVE  Moved(c)
  BY <1>6 DEF ClientSendsBody, ClientReads, Record, Moved
<1>7. CASE AcceptFails \/ (\E o \in Others : OtherInserts(o)) \/ Tick \/ UNCHANGED vars
  BY <1>7 DEF AcceptFails, OtherInserts, Tick, vars, conn, Moved
<1> QED
  BY <1>1, <1>2, <1>3, <1>4, <1>5, <1>6, <1>7
  DEF Next, Client, Task, ReadLengthEnds, ReadBodyFails, ForwardFails, WriteFails

(* What a connection has settled stays settled, and grows in order. *)
LEMMA InOrderStep == Typed /\ Typed' /\ AllInOrder /\ [Next]_vars => AllInOrder'
<1> SUFFICES ASSUME Typed, Typed', AllInOrder, [Next]_vars, NEW c \in Conns
             PROVE  InOrder(c)'
  BY DEF AllInOrder
<1> DEFINE k == done[c]
           n == Len(asked[c])
<1>1. /\ InOrder(c) /\ n \in Nat /\ DOMAIN asked[c] = 1..n
      /\ MaxQueries[c] \in Nat /\ n <= MaxQueries[c]
      /\ DOMAIN replies[c] = 1..MaxQueries[c]
      /\ k \in 0..n
  BY TcpAssumption DEF Typed, TypeOK, AllInOrder, InOrder
<1>2. pc[c] # "closed" =>
          /\ Settled(c) = 1..k
          /\ \A q \in 1..n : q <= k <=> replies[c][q] # << >> \/ q \in lost[c]
  BY <1>1 DEF Settled, InOrder
<1>3. ASSUME done'[c] <= Len(asked'[c]),
             pc'[c] # "closed" => Settled(c)' = 1..done'[c],
             \A q \in 1..MaxQueries[c] : replies'[c][q] # << >> => q \in DOMAIN asked'[c],
             lost'[c] \subseteq DOMAIN asked'[c],
             \A q \in lost'[c] : replies'[c][q] = << >>,
             pc'[c] \in {"body", "forward", "record"} => done'[c] < Len(asked'[c])
      PROVE  InOrder(c)'
  BY <1>3 DEF InOrder
<1> HIDE DEF k, n
<1>4. CASE Arrives(c)
  <2>1. PICK d \in Queries[c] : asked'[c] = Append(asked[c], d)
    BY <1>4 DEF Arrives
  <2>2. DOMAIN asked'[c] = 1..(n + 1) /\ Len(asked'[c]) = n + 1
    BY <1>1, <2>1 DEF n, Typed
  <2>3. n + 1 \in 1..MaxQueries[c]
    BY <1>1, <1>4 DEF Arrives, n
  <2>4. replies[c][n + 1] = << >> /\ n + 1 \notin lost[c]
    BY <1>1, <2>3 DEF InOrder
  <2>5. Settled(c)' = 1..k
    BY <1>1, <1>2, <1>4, <2>2, <2>4 DEF Settled, Arrives
  <2> QED
    BY <1>1, <1>3, <1>4, <2>2, <2>5 DEF Arrives, InOrder, k, n
<1>5. CASE Moved(c)
  <2>1. pc'[c] # "closed" => pc[c] # "closed"
    BY <1>5 DEF Moved
  <2>2. pc'[c] # "closed" => Settled(c)' = 1..k
    BY <1>2, <1>5, <2>1 DEF Settled, Moved
  <2>3. /\ asked'[c] = asked[c] /\ replies'[c] = replies[c] /\ lost'[c] = lost[c]
        /\ done'[c] = k
    BY <1>5 DEF Moved, k
  <2>4. pc'[c] \in {"body", "forward", "record"} => k < n
    BY <1>1, <1>5 DEF Moved, InOrder, Current, k, n
  <2> QED
    BY <1>1, <1>3, <2>2, <2>3, <2>4 DEF InOrder, n
<1>6. CASE Closed(c)
  <2>1. /\ asked'[c] = asked[c] /\ replies'[c] = replies[c] /\ pc'[c] = "closed"
        /\ done'[c] = k
    BY <1>6 DEF Closed, k
  <2>2. lost'[c] \subseteq 1..n /\ \A q \in lost'[c] : replies[c][q] = << >>
    BY <1>1, <1>6 DEF Closed
  <2> QED
    BY <1>1, <1>3, <2>1, <2>2 DEF InOrder, n
<1>7. CASE Skipped(c)
  <2>1. /\ asked'[c] = asked[c] /\ replies'[c] = replies[c] /\ lost'[c] = lost[c] \cup {k + 1}
        /\ pc[c] = "body" /\ pc'[c] = "length" /\ done'[c] = k + 1
    BY <1>7 DEF Skipped, Current, k
  <2>2. k + 1 \in 1..n
    BY <1>1, <2>1 DEF InOrder, k, n
  <2>3. Settled(c)' = 1..(k + 1)
    BY <1>1, <1>2, <2>1, <2>2 DEF Settled
  <2>4. replies[c][k + 1] = << >>
    BY <1>1, <1>2, <2>1, <2>2
  <2> QED
    BY <1>1, <1>3, <2>1, <2>2, <2>3, <2>4 DEF InOrder, n
<1>8. CASE Replied(c)
  <2> DEFINE m == k + 1
  <2>1. PICK r : replies'[c] = [replies[c] EXCEPT ![m] = <<r>>]
    BY <1>8 DEF Replied, Current, k
  <2>2. /\ asked'[c] = asked[c] /\ lost'[c] = lost[c] /\ done'[c] = m
        /\ pc[c] \in {"body", "record"} /\ pc'[c] = "length"
    BY <1>8 DEF Replied, k
  <2>3. m \in 1..n /\ m \in 1..MaxQueries[c] /\ m \notin lost[c]
    BY <1>1, <1>2, <2>2 DEF InOrder, k, n
  <2>4. \A q \in 1..n : q # m => (q <= m <=> q <= k)
    BY <1>1
  <2> HIDE DEF m
  <2>5. replies'[c][m] # << >> /\ \A q \in 1..MaxQueries[c] : q # m => replies'[c][q] = replies[c][q]
    BY <1>1, <2>1, <2>3
  <2>6. Settled(c)' = 1..m
    <3>1. ASSUME NEW q \in 1..n
          PROVE  (replies'[c][q] # << >> \/ q \in lost[c]) <=> q <= m
      <4>1. CASE q = m
        BY <2>3, <2>5, <4>1
      <4>2. CASE q # m
        <5>1. replies'[c][q] = replies[c][q]
          BY <1>1, <2>5, <4>2
        <5> QED
          BY <1>2, <2>2, <2>4, <4>2, <5>1
      <4> QED
        BY <4>1, <4>2
    <3>2. Settled(c)' = {q \in 1..n : replies'[c][q] # << >> \/ q \in lost[c]}
      BY <1>1, <2>2 DEF Settled
    <3> QED
      BY <1>1, <2>3, <3>1, <3>2
  <2>7. \A q \in lost[c] : q \in 1..MaxQueries[c] /\ q # m
    BY <1>1, <2>3 DEF InOrder
  <2> QED
    BY <1>1, <1>3, <2>2, <2>3, <2>5, <2>6, <2>7 DEF InOrder, n
<1> QED
  BY <1>4, <1>5, <1>6, <1>7, <1>8, ConnectionSteps

-----------------------------------------------------------------------------
(* The table changes by insertions only, of typed mappings. *)
LEMMA TableSteps ==
    ASSUME Typed, AllInOrder, [Next]_vars
    PROVE  \/ UNCHANGED <<table, latest>> /\ resolved \subseteq resolved'
           \/ \E ip \in Ips, name \in Names, ttl \in Nat \cup {NoTtl} :
                 /\ Table!Insert(ip, name, ttl)
                 /\ resolved \subseteq resolved'
                 /\ \/ <<name, ip>> \in resolved'
                    \/ \E c \in Conns : /\ pc[c] = "record" /\ name = CurrentQuery(c).name
                                        /\ todo[c].ips # << >> /\ ip = Head(todo[c].ips)
<1>1. ASSUME NEW o \in Others, OtherInserts(o)
      PROVE  /\ o.ip \in Ips /\ o.name \in Names /\ o.ttl \in Nat \cup {NoTtl}
             /\ Table!Insert(o.ip, o.name, o.ttl)
             /\ <<o.name, o.ip>> \in resolved' /\ resolved \subseteq resolved'
  BY <1>1, TcpAssumption DEF OtherInserts
<1>2. ASSUME NEW c \in Conns, Record(c)
      PROVE  /\ Head(todo[c].ips) \in Ips /\ CurrentQuery(c).name \in Names
             /\ todo[c].ttl \in Nat \cup {NoTtl} /\ pc[c] = "record" /\ todo[c].ips # << >>
             /\ Table!Insert(Head(todo[c].ips), CurrentQuery(c).name, todo[c].ttl)
             /\ UNCHANGED resolved
  <2>1. /\ pc[c] = "record" /\ todo[c].ips # << >> /\ UNCHANGED resolved
        /\ Table!Insert(Head(todo[c].ips), CurrentQuery(c).name, todo[c].ttl)
    BY <1>2 DEF Record
  <2>2. todo[c].ips \in Seq(Ips) /\ todo[c].ttl \in Nat \cup {NoTtl}
    BY TcpAssumption DEF Typed, TypeOK
  <2>3. CurrentQuery(c).name \in Names
    BY <2>1, CurrentTyped DEF AllInOrder
  <2> QED
    BY <2>1, <2>2, <2>3
<1>3. CASE \/ \E o \in Others : OtherInserts(o)
           \/ \E c \in Conns : Record(c)
  BY <1>1, <1>2, <1>3
<1>4. CASE UNCHANGED <<table, latest>> /\ resolved \subseteq resolved'
  BY <1>4
<1>5. ASSUME NEW c \in Conns, Close(c)
      PROVE  UNCHANGED <<table, latest>> /\ resolved \subseteq resolved'
  BY <1>5 DEF Close
<1>6. \/ \E o \in Others : OtherInserts(o)
      \/ \E c \in Conns : Record(c)
      \/ \E c \in Conns : Close(c)
      \/ UNCHANGED <<table, latest>> /\ resolved \subseteq resolved'
  BY DEF Next, Client, Task, ReadLengthEnds, ReadBodyFails, ForwardFails, WriteFails, Accept,
     AcceptFails, ReadLength, ReadBody, StripQuery, ForwardAnswered, Respond, Tick, Table!Tick,
     ClientSendsLength, ClientSendsBody, ClientReads, vars
<1> QED
  BY <1>3, <1>4, <1>5, <1>6

(* The table never outgrows its capacity, and its entries are the latest. *)
LEMMA CappedStep == Typed /\ AllInOrder /\ Capped /\ [Next]_vars => Capped'
<1> SUFFICES ASSUME Typed, AllInOrder, Capped, [Next]_vars
             PROVE  Capped'
  OBVIOUS
<1>1. CASE UNCHANGED <<table, latest>>
  BY <1>1 DEF Capped
<1>2. ASSUME NEW ip \in Ips, NEW name \in Names, NEW ttl \in Nat \cup {NoTtl},
             Table!Insert(ip, name, ttl)
      PROVE  Capped'
  <2>1. PICK v \in Entry : /\ table' \in BoundedInsert(table, ip, v, now)
                           /\ latest' = Put(latest, ip, v)
    BY <1>2, InsertIsInsert DEF Typed, TypeOK
  <2>2. IsMap(table, Ips, Entry) /\ now \in Nat
    BY TableIsMap DEF Typed, TypeOK
  <2>3. /\ ip \in DOMAIN table' /\ table'[ip] = v
        /\ \A x \in DOMAIN table' : x # ip => x \in DOMAIN table /\ table'[x] = table[x]
        /\ IsFiniteSet(DOMAIN table') /\ Cardinality(DOMAIN table') <= MAX_CACHE_ENTRIES
    BY <2>1, <2>2, Inserted DEF Capped
  <2>4. /\ DOMAIN latest' = DOMAIN latest \cup {ip} /\ latest'[ip] = v
        /\ \A x \in DOMAIN latest : x # ip => latest'[x] = latest[x]
    BY <2>1 DEF Put
  <2> QED
    BY <2>3, <2>4 DEF Capped
<1> QED
  BY <1>1, <1>2, TableSteps

(* The inductive invariant of the listener. *)
Inv == Typed /\ AllInOrder /\ Capped

(* The listener starts in the inductive invariant. *)
LEMMA InitInv == Init => Inv
<1> SUFFICES ASSUME Init PROVE Inv
  OBVIOUS
<1>1. Table!TypeOK
  <2>1. table = << >> /\ latest = << >> /\ now = 0
    BY DEF Init, Table!Init
  <2> QED
    BY <2>1, TableIsMap DEF IsMap
<1>2. Capped
  <2>1. DOMAIN table = {}
    BY DEF Init, Table!Init
  <2> QED
    BY <2>1, FS_EmptySet, CapacityAssumption DEF Capped
<1>3. Idle \in [ips : Seq(Ips), answer : Seq(Ips), ttl : Ttls \cup {NoTtl}]
  BY DEF Idle
<1>4. todo \in [Conns -> [ips : Seq(Ips), answer : Seq(Ips), ttl : Ttls \cup {NoTtl}]]
  <2> HIDE DEF Idle
  <2> QED
    BY <1>3 DEF Init
<1>5. ASSUME NEW c \in Conns
      PROVE  /\ asked[c] = << >> /\ whole[c] = 0 /\ lost[c] = {} /\ pc[c] = "none"
             /\ replies[c] = [q \in 1..MaxQueries[c] |-> << >>]
             /\ MaxQueries[c] \in Nat
  BY TcpAssumption DEF Init
<1>6. asked \in [Conns -> Seq(Query)] /\ whole \in [Conns -> Nat]
  BY DEF Init
<1>7. unread \in [Conns -> 0..Window] /\ done \in [Conns -> Nat] /\ \A c \in Conns : done[c] = 0
  BY TcpAssumption DEF Init
<1>8. pc \in [Conns -> {"none", "length", "body", "forward", "record", "closed"}]
  BY DEF Init
<1>9. DOMAIN replies = Conns /\ DOMAIN lost = Conns /\ resolved = {} /\ listener = "up"
  BY DEF Init
<1>10. ASSUME NEW c \in Conns
       PROVE  /\ asked[c] \in Seq(Queries[c]) /\ whole[c] \in 0..Len(asked[c])
              /\ replies[c] \in [1..MaxQueries[c] -> Seq([name : Names, ips : Seq(Ips)])]
              /\ lost[c] \subseteq 1..MaxQueries[c] /\ Len(asked[c]) <= MaxQueries[c]
  <2>1. /\ << >> \in Seq(Queries[c]) /\ Len(<< >>) = 0
        /\ << >> \in Seq([name : Names, ips : Seq(Ips)])
    OBVIOUS
  <2>2. replies[c] \in [1..MaxQueries[c] -> Seq([name : Names, ips : Seq(Ips)])]
    BY <1>5, <2>1
  <2>3. asked[c] = << >> /\ whole[c] = 0 /\ lost[c] = {} /\ MaxQueries[c] \in Nat
    BY <1>5
  <2>4. Len(asked[c]) = 0
    BY <2>3
  <2>5. asked[c] \in Seq(Queries[c])
    BY <2>1, <2>3, Zenon
  <2>6. whole[c] \in 0..Len(asked[c])
    BY <2>3, <2>4
  <2>7. lost[c] \subseteq 1..MaxQueries[c] /\ Len(asked[c]) <= MaxQueries[c]
    BY <2>3, <2>4
  <2> QED
    BY <2>2, <2>5, <2>6, <2>7
<1>11. Typed
  BY <1>1, <1>4, <1>6, <1>7, <1>8, <1>9, <1>10 DEF Typed, TypeOK
<1>12. ASSUME NEW c \in Conns PROVE InOrder(c)
  <2>1. Settled(c) = 1..0 /\ Len(asked[c]) = 0 /\ DOMAIN asked[c] = {}
    <3>1. DOMAIN asked[c] = {} /\ Len(asked[c]) = 0
      <4>1. asked[c] = << >>
        BY <1>5
      <4> QED
        BY <4>1
    <3> QED
      BY <3>1 DEF Settled
  <2>2. done[c] = 0
    BY <1>7
  <2>3. \A q \in 1..MaxQueries[c] : replies[c][q] = << >>
    BY <1>5
  <2>4. lost[c] = {} /\ pc[c] = "none"
    BY <1>5
  <2> QED
    BY <2>1, <2>2, <2>3, <2>4 DEF InOrder
<1> QED
  BY <1>2, <1>11, <1>12 DEF Inv, AllInOrder

(* The inductive invariant holds in every behaviour of the listener
   (handle_tcp_dns_client, DnsTable::insert). *)
THEOREM InvAlways == Spec => []Inv
<1>1. Inv /\ [Next]_vars => Inv'
  BY TypedStep, InOrderStep, CappedStep DEF Inv
<1> QED
  BY <1>1, InitInv, PTL DEF Spec

(* Every variable of the listener keeps its type (run_tcp). *)
THEOREM TypeCorrect == Spec => []TypeOK
<1>1. Inv => TypeOK
  BY DEF Inv, Typed
<1> QED
  BY <1>1, InvAlways, PTL

(* Whatever is inserted, by however many tasks, and however little has expired
   when it is full, the table stays within its capacity (DnsTable::insert). *)
THEOREM WithinCapacityAlways == Spec => []WithinCapacity
<1>1. Inv => WithinCapacity
  BY SameCardinality DEF Inv, Capped, WithinCapacity, Table!WithinCapacity
<1> QED
  BY <1>1, InvAlways, PTL

(* The proxy is never told a name that a later answer for the same address has
   replaced, nor one that has expired (DnsTable::insert, DnsTable::lookup). *)
THEOREM LookupIsLatestAlways == Spec => []LookupIsLatest
<1>1. Inv => LookupIsLatest
  <2> SUFFICES ASSUME Inv, NEW ip \in Ips, NEW name \in Table!lookup(table, ip, now)
               PROVE  /\ ip \in DOMAIN latest
                      /\ latest[ip].name = name /\ latest[ip].expires > now
    BY DEF LookupIsLatest, Table!LookupIsLatest
  <2>1. ip \in DOMAIN table /\ table[ip].expires > now /\ name = table[ip].name
    BY DEF Table!lookup
  <2> QED
    BY <2>1 DEF Inv, Capped
<1> QED
  BY <1>1, InvAlways, PTL

(* A live mapping is forgotten only by an insertion into a table full of live
   ones, which drops at most half of them (DnsTable::insert). *)
THEOREM EvictionIsLastResortAlways == Spec => EvictionIsLastResort
<1> DEFINE gone == Table!Live(table, now) \ DOMAIN table'
           Justified == gone # {} =>
               /\ Table!Cardinality(Table!Live(table, now)) = MAX_CACHE_ENTRIES
               /\ 2 * Table!Cardinality(gone) <= MAX_CACHE_ENTRIES
<1>1. ASSUME Inv, [Next]_vars
      PROVE  Justified
  <2>1. Table!Live(table, now) = Live(table, now)
    BY DEF Table!Live, Live
  <2>2. CASE UNCHANGED <<table, latest>>
    BY <2>1, <2>2 DEF Live
  <2>3. ASSUME NEW ip \in Ips, NEW name \in Names, NEW ttl \in Nat \cup {NoTtl},
               Table!Insert(ip, name, ttl)
        PROVE  Justified
    <3>1. PICK v \in Entry : table' \in BoundedInsert(table, ip, v, now)
      BY <1>1, <2>3, InsertIsInsert DEF Inv, Typed, TypeOK
    <3>2. IsMap(table, Ips, Entry) /\ now \in Nat
      BY <1>1, TableIsMap DEF Inv, Typed, TypeOK
    <3>3. LastResort(table, table', now)
      BY <1>1, <3>1, <3>2, Inserted DEF Inv, Capped
    <3> QED
      BY <2>1, <3>3, SameCardinality, Zenon DEF LastResort
  <2> QED
    BY <1>1, <2>2, <2>3, TableSteps DEF Inv
<1>2. Inv /\ [Next]_vars => Justified
  BY <1>1
<1> QED
  BY <1>2, InvAlways, PTL DEF Spec, EvictionIsLastResort, Table!EvictionIsLastResort

-----------------------------------------------------------------------------
(* What a task still has to record is borne out by the answer it holds. *)
Honest(c) ==
    pc[c] = "record" =>
        \A ip \in Range(todo[c].ips) : <<CurrentQuery(c).name, ip>> \in resolved

Truthful == TableTruthful /\ \A c \in Conns : Honest(c)

(* What follows the head of a sequence is in the sequence. *)
LEMMA RangeOfTail ==
    ASSUME NEW S, NEW s \in Seq(S), s # << >>
    PROVE  Range(Tail(s)) \subseteq Range(s)
<1>1. /\ DOMAIN s = 1..Len(s) /\ Len(s) \in Nat \ {0}
      /\ DOMAIN Tail(s) = 1..(Len(s) - 1)
      /\ \A i \in 1..(Len(s) - 1) : Tail(s)[i] = s[i + 1]
  BY HeadTailProperties, EmptySeq, LenProperties
<1> QED
  BY <1>1 DEF Range

(* The query that a task records addresses for is the one it has forwarded,
   whatever the client has sent behind it. *)
LEMMA RecordedQueryStays ==
    ASSUME Typed, AllInOrder, [Next]_vars, NEW c \in Conns,
           pc[c] \in {"forward", "record"}, pc'[c] = "record"
    PROVE  CurrentQuery(c)' = CurrentQuery(c)
<1>1. /\ asked[c] \in Seq(Query) /\ Current(c) \in 1..Len(asked[c])
  BY CurrentTyped DEF Typed, AllInOrder
<1>2. CASE Arrives(c)
  <2>1. PICK d \in Queries[c] : asked'[c] = Append(asked[c], d)
    BY <1>2 DEF Arrives
  <2>2. \A q \in 1..Len(asked[c]) : asked'[c][q] = asked[c][q]
    BY <1>1, <2>1
  <2> QED
    BY <1>1, <1>2, <2>2 DEF CurrentQuery, Current, Arrives
<1>3. CASE Moved(c)
  BY <1>3 DEF Moved, CurrentQuery, Current
<1> QED
  BY <1>2, <1>3, ConnectionSteps DEF Replied, Skipped, Closed

(* A task holds only addresses that an answer to its query carried. *)
LEMMA HonestStep ==
    ASSUME Typed, AllInOrder, [Next]_vars, NEW c \in Conns, Honest(c)
    PROVE  Honest(c)'
<1> SUFFICES ASSUME pc'[c] = "record"
             PROVE  \A ip \in Range(todo'[c].ips) : <<CurrentQuery(c)'.name, ip>> \in resolved'
  BY DEF Honest
<1>1. resolved \subseteq resolved'
  BY TableSteps
<1>2. ASSUME NEW a \in Answers, ForwardAnswered(c, a)
      PROVE  Honest(c)'
  <2>1. CurrentQuery(c)' = CurrentQuery(c)
    BY <1>2, RecordedQueryStays DEF ForwardAnswered
  <2>2. todo'[c].ips = a.ips
    BY <1>2 DEF ForwardAnswered, Typed, TypeOK
  <2>3. resolved' = resolved \cup {<<CurrentQuery(c).name, ip>> : ip \in Range(a.ips)}
    BY <1>2 DEF ForwardAnswered
  <2> QED
    BY <2>1, <2>2, <2>3 DEF Honest
<1>3. CASE Record(c)
  <2>1. CurrentQuery(c)' = CurrentQuery(c) /\ pc[c] = "record"
    BY <1>3, RecordedQueryStays DEF Record
  <2>2. todo[c].ips \in Seq(Ips) /\ todo[c].ips # << >> /\ todo'[c].ips = Tail(todo[c].ips)
    BY <1>3 DEF Record, Typed, TypeOK
  <2>3. Range(Tail(todo[c].ips)) \subseteq Range(todo[c].ips)
    BY <2>2, RangeOfTail
  <2> QED
    BY <1>1, <2>1, <2>2, <2>3 DEF Honest
<1>4. CASE pc[c] = "record" /\ todo'[c] = todo[c]
  <2>1. CurrentQuery(c)' = CurrentQuery(c)
    BY <1>4, RecordedQueryStays
  <2> QED
    BY <1>1, <1>4, <2>1 DEF Honest
<1>5. \/ \E a \in Answers : ForwardAnswered(c, a)
      \/ Record(c)
      \/ pc[c] = "record" /\ todo'[c] = todo[c]
  <2>1. ASSUME NEW x \in Conns, Close(x)
        PROVE  pc[c] = "record" /\ todo'[c] = todo[c]
    BY <2>1 DEF Close, Typed, TypeOK
  <2>2. ASSUME NEW x \in Conns, NEW a \in Answers, ForwardAnswered(x, a)
        PROVE  ForwardAnswered(c, a) \/ (pc[c] = "record" /\ todo'[c] = todo[c])
    <3>1. CASE x = c
      BY <2>2, <3>1
    <3>2. CASE x # c
      BY <2>2, <3>2 DEF ForwardAnswered, Typed, TypeOK
    <3> QED
      BY <3>1, <3>2
  <2>3. ASSUME NEW x \in Conns, Record(x)
        PROVE  Record(c) \/ (pc[c] = "record" /\ todo'[c] = todo[c])
    <3>1. CASE x = c
      BY <2>3, <3>1
    <3>2. CASE x # c
      BY <2>3, <3>2 DEF Record, Typed, TypeOK
    <3> QED
      BY <3>1, <3>2
  <2>4. ASSUME NEW x \in Conns, ReadLength(x) \/ ReadBody(x) \/ StripQuery(x) \/ Respond(x) \/ Accept(x)
        PROVE  pc[c] = "record" /\ todo'[c] = todo[c]
    BY <2>1, <2>4 DEF ReadLength, ReadBody, StripQuery, Respond, Accept, Typed, TypeOK
  <2>5. ASSUME NEW x \in Conns, Client(x)
        PROVE  pc[c] = "record" /\ todo'[c] = todo[c]
    BY <2>5 DEF Client, ClientSendsLength, ClientSendsBody, ClientReads
  <2>6. CASE AcceptFails \/ (\E o \in Others : OtherInserts(o)) \/ Tick \/ UNCHANGED vars
    BY <2>6 DEF AcceptFails, OtherInserts, Tick, vars, conn
  <2> QED
    BY <2>1, <2>2, <2>3, <2>4, <2>5, <2>6
    DEF Next, Task, ReadLengthEnds, ReadBodyFails, ForwardFails, WriteFails
<1> QED
  BY <1>2, <1>3, <1>4, <1>5 DEF Honest

(* Every step keeps the table within what answers have resolved. *)
LEMMA TruthfulStep == Typed /\ AllInOrder /\ Capped /\ Truthful /\ [Next]_vars => Truthful'
<1> SUFFICES ASSUME Typed, AllInOrder, Capped, Truthful, [Next]_vars
             PROVE  Truthful'
  OBVIOUS
<1>1. \A c \in Conns : Honest(c)'
  BY HonestStep DEF Truthful
<1>2. CASE UNCHANGED <<table, latest>> /\ resolved \subseteq resolved'
  BY <1>1, <1>2 DEF Truthful, TableTruthful
<1>3. ASSUME NEW ip \in Ips, NEW name \in Names, NEW ttl \in Nat \cup {NoTtl},
             Table!Insert(ip, name, ttl), resolved \subseteq resolved', <<name, ip>> \in resolved'
      PROVE  TableTruthful'
  <2>1. PICK v \in Entry : v.name = name /\ table' \in BoundedInsert(table, ip, v, now)
    BY <1>3, InsertIsInsert DEF Typed, TypeOK
  <2>2. IsMap(table, Ips, Entry) /\ now \in Nat
    BY TableIsMap DEF Typed, TypeOK
  <2>3. /\ ip \in DOMAIN table' /\ table'[ip] = v
        /\ \A x \in DOMAIN table' : x # ip => x \in DOMAIN table /\ table'[x] = table[x]
    BY <2>1, <2>2, Inserted DEF Capped
  <2> QED
    BY <1>3, <2>1, <2>3 DEF Truthful, TableTruthful
<1>4. ASSUME NEW c \in Conns, pc[c] = "record", todo[c].ips # << >>
      PROVE  <<CurrentQuery(c).name, Head(todo[c].ips)>> \in resolved
  <2>1. todo[c].ips \in Seq(Ips)
    BY DEF Typed, TypeOK
  <2>2. Head(todo[c].ips) \in Range(todo[c].ips)
    BY <1>4, <2>1 DEF Range
  <2> QED
    BY <1>4, <2>2 DEF Truthful, Honest
<1> QED
  BY <1>1, <1>2, <1>3, <1>4, TableSteps DEF Truthful

(* Queries pipelined on one connection and answers arriving on several at once
   never put an address under a name that no answer resolved to it
   (handle_tcp_dns_client). *)
THEOREM TableTruthfulAlways == Spec => []TableTruthful
<1>1. Init => Truthful
  BY DEF Init, Table!Init, Truthful, TableTruthful, Honest
<1>2. Inv /\ Truthful /\ [Next]_vars => Truthful'
  BY TruthfulStep DEF Inv
<1>3. Truthful => TableTruthful
  BY DEF Truthful
<1> QED
  BY <1>1, <1>2, <1>3, InvAlways, PTL DEF Spec

-----------------------------------------------------------------------------
(* Each connection is a query service: its steps are steps of the service. *)
LEMMA ServiceStep ==
    ASSUME Typed, AllInOrder, [Next]_vars, NEW c \in Conns
    PROVE  [Service(c)!Next]_(Service(c)!vars)
<1> DEFINE k == Current(c)
           n == Len(asked[c])
<1>1. /\ InOrder(c) /\ n \in Nat /\ DOMAIN asked[c] = 1..n
      /\ MaxQueries[c] \in Nat /\ n <= MaxQueries[c]
      /\ DOMAIN replies[c] = 1..MaxQueries[c]
      /\ k \in 1..(n + 1)
      /\ pc[c] \in {"body", "record"} => k <= n
  BY TcpAssumption DEF Typed, TypeOK, AllInOrder, InOrder, Current
<1>2. pc[c] # "closed" => \A q \in 1..n : q < k <=> replies[c][q] # << >> \/ q \in lost[c]
  <2>1. pc[c] # "closed" => Settled(c) = 1..(k - 1)
    BY <1>1 DEF InOrder, Current, Typed, TypeOK
  <2> QED
    BY <1>1, <2>1 DEF Settled
<1>3. CASE Arrives(c)
  BY <1>3 DEF Arrives, Service!Next, Service!Ask
<1>4. CASE Moved(c)
  BY <1>4 DEF Moved, Service!vars
<1>5. CASE Closed(c)
  <2>1. lost[c] \subseteq lost'[c]
    BY <1>1, <1>5 DEF Closed, InOrder
  <2>2. \A q \in lost'[c] \ lost[c] : q \in 1..n /\ replies[c][q] = << >>
    BY <1>1, <1>5 DEF Closed
  <2>3. Service(c)!GiveUp
    BY <1>1, <1>5, <2>1, <2>2 DEF Closed, Service!GiveUp, Service!Settled
  <2> QED
    BY <1>5, <2>3 DEF Closed, Service!Next
<1>6. CASE Skipped(c)
  <2>1. k \in 1..n /\ replies[c][k] = << >>
    BY <1>1, <1>2, <1>6 DEF Skipped
  <2>2. Service(c)!GiveUp
    BY <1>1, <1>6, <2>1 DEF Skipped, Service!GiveUp, Service!Settled
  <2> QED
    BY <1>6, <2>2 DEF Skipped, Service!Next
<1>7. CASE Replied(c)
  <2>1. PICK r : r.name = CurrentQuery(c).name /\ replies'[c] = [replies[c] EXCEPT ![k] = <<r>>]
    BY <1>7 DEF Replied
  <2>2. asked'[c] = asked[c] /\ lost'[c] = lost[c]
    BY <1>7 DEF Replied
  <2>3. k \in 1..n /\ k \in DOMAIN replies[c] /\ replies[c][k] = << >> /\ k \notin lost[c]
    BY <1>1, <1>2, <1>7 DEF Replied
  <2>4. \A p \in 1..n : p < k => replies[c][p] # << >> \/ p \in lost[c]
    BY <1>2, <1>7 DEF Replied
  <2> HIDE DEF k, n
  <2>5. /\ DOMAIN replies'[c] = DOMAIN replies[c] /\ replies'[c][k] = <<r>>
        /\ \A p \in DOMAIN replies[c] : k # p => replies'[c][p] = replies[c][p]
    BY <2>1, <2>3
  <2>6. Len(<<r>>) = 1 /\ <<r>>[1] = r
    OBVIOUS
  <2>7. r.name = asked[c][k].name
    BY <2>1 DEF CurrentQuery, k
  <2>8. Service(c)!Answer(k)
    BY <1>1, <2>2, <2>3, <2>4, <2>5, <2>6, <2>7
    DEF Service!Answer, Service!Settled, AnswersIt
  <2> QED
    BY <2>2, <2>3, <2>8 DEF Service!Next
<1> QED
  BY <1>3, <1>4, <1>5, <1>6, <1>7, ConnectionSteps

(* However the steps of the connections interleave, each answers its queries in
   the order in which they were sent, each at most once and with an answer to
   itself, and never answers what it has given up (handle_tcp_dns_client). *)
THEOREM ImplementsServiceAlways == Spec => ImplementsService
<1>1. Init => \A c \in Conns : Service(c)!Init
  BY DEF Init, Service!Init
<1>2. Inv /\ [Next]_vars => [\A c \in Conns : [Service(c)!Next]_(Service(c)!vars)]_vars
  BY ServiceStep DEF Inv
<1> QED
  BY <1>1, <1>2, InvAlways, PTL DEF Spec, ImplementsService
=============================================================================
