---------------------------- MODULE DnsDohProofs ----------------------------
(***************************************************************************)
(* Proofs about the DoH listener of module DnsDoh, for every value of its  *)
(* constants: any clients, keys, server answers and TTLs, any capacity and *)
(* lifetimes of the cache and the table.                                   *)
(***************************************************************************)
EXTENDS DnsDoh, TLAPS, FiniteSetTheorems, SequenceTheorems

-----------------------------------------------------------------------------
(* The inductive invariant, part by part. *)

(* Leaders hold the registration of their key; a task holds a response from its
   fetch until it ends. *)
Leads(q) == tasks[q].pc \in {"fetch", "put", "complete"}

Held(q) ==
    \/ tasks[q].pc \in {"put", "send", "record"}
    \/ tasks[q].pc = "complete" /\ tasks[q].resp # NoResp

(* A query is in one place at most: held by the main loop, with its task, or
   settled. *)
Placed ==
    /\ main # Idle =>
         /\ main.q = Len(asked) /\ main.q \in Queries /\ tasks[main.q].pc = "none"
         /\ replies[main.q] = << >> /\ main.q \notin dropped
    /\ \A q \in Queries :
         /\ q > Len(asked) => /\ tasks[q].pc = "none"
                              /\ replies[q] = << >> /\ q \notin dropped
         /\ tasks[q].pc \notin {"none", "done"} =>
              q <= Len(asked) /\ replies[q] = << >> /\ q \notin dropped

(* Wherever a response is kept, it answers the question it is kept for. *)
Matches(r, q) == r \in Response /\ r.id = asked[q].id /\ r.key = asked[q].key

Keyed ==
    /\ main # Idle /\ main.pc = "hit" => Matches(main.resp, main.q)
    /\ \A q \in Queries : Held(q) => Matches(tasks[q].resp, q)
    /\ \A k \in DOMAIN cache : cache[k].response.key = k
    /\ \A k \in DOMAIN in_flight :
         in_flight[k] <= Len(asked) /\ asked[in_flight[k]].key = k
    /\ \A q \in Queries : tasks[q].pc = "recv" =>
         /\ tasks[q].of \in Queries /\ tasks[q].of <= Len(asked)
         /\ asked[tasks[q].of].key = asked[q].key
    /\ \A q \in Queries : channel[q] # NoResp =>
         q <= Len(asked) /\ channel[q].key = asked[q].key

(* One leader per key at a time, and what is cached for a key was fetched by an
   earlier one. *)
Exclusive ==
    /\ main # Idle /\ main.pc = "register" => cache_key(main.q) \notin DOMAIN in_flight
    /\ \A q \in Queries : Leads(q) =>
         cache_key(q) \in DOMAIN in_flight /\ in_flight[cache_key(q)] = q
    /\ \A k \in DOMAIN cache :
         LET l == cache[k].response.leader
         IN  l \in Queries /\ l <= Len(asked) /\ tasks[l].pc \notin {"none", "fetch", "put"}
    /\ \A q \in Queries :
         tasks[q].pc \in {"fetch", "put"} /\ cache_key(q) \in DOMAIN cache =>
             cache[cache_key(q)].response.leader < q
    /\ \A q \in Queries : tasks[q].pc = "put" => tasks[q].resp.leader = q

(* No response outlives what the server granted or the cache's minimum, and a
   cache entry holds one as it was fetched, for the lifetime put gave it. *)
Fresh(r) == r.age = 0 /\ r.ttl = r.granted

Honest(r) == r.granted # NoTtl => r.ttl + r.age <= Believed(r.granted)

HonestTtl ==
    /\ main # Idle /\ main.pc = "hit" => Honest(main.resp)
    /\ \A q \in Queries : /\ Held(q) => Honest(tasks[q].resp)
                          /\ channel[q] # NoResp => Honest(channel[q])
                          /\ tasks[q].pc = "put" => Fresh(tasks[q].resp)
    /\ \A k \in DOMAIN cache :
         /\ Fresh(cache[k].response) /\ cache[k].inserted <= now
         /\ cache[k].expires = cache[k].inserted + cache_ttl(cache[k].response.ttl)
    /\ TruthfulTtl

-----------------------------------------------------------------------------
(* Operators. *)

(* HashMap::insert into a bounded map sets one entry; any other stays as it was
   or is evicted. *)
LEMMA Inserted ==
    ASSUME NEW K, NEW V, NEW m, IsMap(m, K, V), NEW k \in K, NEW v \in V, NEW t,
           NEW r \in BoundedInsert(m, k, v, t)
    PROVE  /\ IsMap(r, K, V)
           /\ k \in DOMAIN r /\ r[k] = v
           /\ \A x \in DOMAIN r : x # k => x \in DOMAIN m /\ r[x] = m[x]
<1>1. PICK m1 \in MakeRoom(m, t) : r = Put(m1, k, v)
  BY DEF BoundedInsert
<1>2. DOMAIN m1 \subseteq DOMAIN m /\ \A x \in DOMAIN m1 : m1[x] = m[x]
  <2>1. Live(m, t) \subseteq DOMAIN m
    BY DEF Live
  <2>2. \/ m1 = m
        \/ \E S \in SUBSET DOMAIN m : m1 = Restrict(m, S)
    BY <2>1 DEF MakeRoom
  <2> QED
    BY <2>2 DEF Restrict
<1>3. r = [x \in DOMAIN m1 \cup {k} |-> IF x = k THEN v ELSE m1[x]]
  BY <1>1 DEF Put
<1>4. \A x \in DOMAIN m : x \in K /\ m[x] \in V
  BY DEF IsMap
<1>5. \A x \in DOMAIN r : x \in K /\ r[x] \in V
  BY <1>2, <1>3, <1>4
<1> QED
  BY <1>2, <1>3, <1>5 DEF IsMap

(* A datagram that has been asked. *)
LEMMA AskedFields ==
    ASSUME TypeOK, NEW q \in Nat, q >= 1, q <= Len(asked)
    PROVE  /\ q \in Queries /\ q \in DOMAIN asked /\ asked[q] \in Datagrams
           /\ asked[q].client \in STRING /\ asked[q].id \in Nat /\ asked[q].key \in Key
           /\ cache_key(q) \in Key /\ cache_key(q).name \in Names
<1>1. asked \in Seq(Datagrams) /\ Len(asked) \in Nat /\ Len(asked) <= MaxQueries
      /\ MaxQueries \in Nat
  BY DohAssumption DEF TypeOK
<1>2. asked[q] \in Datagrams /\ q \in 1..Len(asked) /\ DOMAIN asked = 1..Len(asked)
  BY <1>1
<1>3. asked[q] \in Datagram
  BY <1>2, DohAssumption
<1> QED
  BY <1>1, <1>2, <1>3 DEF Datagram, Key, cache_key, Queries

(* A query that arrives leaves those before it alone. *)
LEMMA Arrival ==
    ASSUME TypeOK, NEW d \in Datagrams, Len(asked) < MaxQueries, asked' = Append(asked, d)
    PROVE  /\ asked' \in Seq(Datagrams) /\ Len(asked') = Len(asked) + 1 /\ Len(asked) \in Nat
           /\ Len(asked) + 1 \in Queries /\ asked'[Len(asked) + 1] = d
           /\ \A q \in Queries : q <= Len(asked) => asked'[q] = asked[q] /\ cache_key(q)' = cache_key(q)
           /\ d \in Datagram /\ d.id \in Nat /\ d.key \in Key /\ d.client \in STRING
<1>1. asked \in Seq(Datagrams) /\ Len(asked) \in Nat /\ MaxQueries \in Nat
  BY DohAssumption DEF TypeOK
<1>2. d \in Datagram
  BY DohAssumption
<1>3. \A q \in Queries : q <= Len(asked) => asked'[q] = asked[q]
  BY <1>1 DEF Queries
<1> QED
  BY <1>1, <1>2, <1>3 DEF Datagram, Queries, cache_key

(* What build_servfail and build_nodata make of a query answers it. *)
LEMMA EmptyResponseFields ==
    ASSUME NEW d \in Datagram, NEW q \in Nat
    PROVE  /\ EmptyResponse(d, q) \in Response
           /\ EmptyResponse(d, q).id = d.id /\ EmptyResponse(d, q).key = d.key
           /\ EmptyResponse(d, q).ips = << >>
           /\ Honest(EmptyResponse(d, q))
BY DEF EmptyResponse, Response, Datagram, Honest

-----------------------------------------------------------------------------
(* What a step makes of the task it is about. *)
TaskRecord(p, o, l, r, i) == [pc |-> p, of |-> o, late |-> l, resp |-> r, todo |-> i]

Becomes(q, p, o, r, i) ==
    /\ tasks' \in [Queries -> Task]
    /\ tasks'[q].pc = p /\ tasks'[q].of = o /\ tasks'[q].resp = r /\ tasks'[q].todo = i
    /\ \A x \in Queries : x # q => tasks'[x] = tasks[x]

(* The fields of a task. *)
LEMMA TaskFields ==
    ASSUME NEW x \in Task
    PROVE  /\ x = TaskRecord(x.pc, x.of, x.late, x.resp, x.todo)
           /\ x.pc \in {"none", "fetch", "put", "complete", "send", "recv", "record", "done"}
           /\ x.of \in Nat /\ x.late \in BOOLEAN
           /\ x.resp \in Response \cup {NoResp} /\ x.todo \in Seq(Ips)
BY DEF Task, TaskRecord

(* A task replaced by a well-typed record becomes what the record says. *)
LEMMA Becoming ==
    ASSUME TypeOK, NEW q \in Queries,
           NEW p \in {"none", "fetch", "put", "complete", "send", "recv", "record", "done"},
           NEW o \in Nat, NEW l \in BOOLEAN, NEW r \in Response \cup {NoResp}, NEW i \in Seq(Ips),
           tasks' = [tasks EXCEPT ![q] = TaskRecord(p, o, l, r, i)]
    PROVE  Becomes(q, p, o, r, i)
<1>1. TaskRecord(p, o, l, r, i) \in Task
  BY DEF Task, TaskRecord
<1>2. tasks \in [Queries -> Task]
  BY DEF TypeOK
<1>3. tasks' \in [Queries -> Task] /\ tasks'[q] = TaskRecord(p, o, l, r, i)
      /\ \A x \in Queries : x # q => tasks'[x] = tasks[x]
  BY <1>1, <1>2
<1> QED
  BY <1>3 DEF Becomes, TaskRecord

(* One step of a task that keeps its response. *)
LEMMA NextPc ==
    ASSUME TypeOK, NEW q \in Queries,
           NEW p \in {"none", "fetch", "put", "complete", "send", "recv", "record", "done"},
           tasks' = [tasks EXCEPT ![q].pc = p]
    PROVE  Becomes(q, p, tasks[q].of, tasks[q].resp, tasks[q].todo)
<1> DEFINE x == tasks[q]
<1>1. x \in Task /\ tasks' = [tasks EXCEPT ![q] = [x EXCEPT !.pc = p]]
  BY DEF TypeOK
<1> HIDE DEF x
<1>2. [x EXCEPT !.pc = p] = TaskRecord(p, x.of, x.late, x.resp, x.todo)
  BY <1>1, TaskFields DEF TaskRecord
<1>3. tasks' = [tasks EXCEPT ![q] = TaskRecord(p, x.of, x.late, x.resp, x.todo)]
  BY <1>1, <1>2
<1>4. Becomes(q, p, x.of, x.resp, x.todo)
  BY <1>1, <1>3, TaskFields, Becoming
<1> QED
  BY <1>4 DEF x

(* A task that gets a response and a new place. *)
LEMMA NextResponse ==
    ASSUME TypeOK, NEW q \in Queries, NEW r \in Response \cup {NoResp},
           NEW p \in {"none", "fetch", "put", "complete", "send", "recv", "record", "done"},
           tasks' = [tasks EXCEPT ![q].pc = p, ![q].resp = r]
    PROVE  Becomes(q, p, tasks[q].of, r, tasks[q].todo)
<1> DEFINE x == tasks[q]
           y == [x EXCEPT !.pc = p]
<1>1. x \in Task
  BY DEF TypeOK
<1>2. tasks' = [tasks EXCEPT ![q] = [y EXCEPT !.resp = r]]
  BY DEF TypeOK
<1> HIDE DEF x
<1>3. y = TaskRecord(p, x.of, x.late, x.resp, x.todo)
  BY <1>1, TaskFields DEF TaskRecord
<1>4. [y EXCEPT !.resp = r] = TaskRecord(p, x.of, x.late, r, x.todo)
  <2> HIDE DEF y
  <2> QED
    BY <1>3 DEF TaskRecord
<1>5. tasks' = [tasks EXCEPT ![q] = TaskRecord(p, x.of, x.late, r, x.todo)]
  BY <1>2, <1>4
<1>6. x.of \in Nat /\ x.late \in BOOLEAN /\ x.todo \in Seq(Ips)
  BY <1>1, TaskFields
<1>7. Becomes(q, p, x.of, r, x.todo)
  BY <1>5, <1>6, Becoming
<1> QED
  BY <1>7 DEF x

(* ... with the addresses of the response still to be recorded. *)
LEMMA NextAnswer ==
    ASSUME TypeOK, NEW q \in Queries, NEW r \in Response, NEW i \in Seq(Ips),
           NEW p \in {"none", "fetch", "put", "complete", "send", "recv", "record", "done"},
           \/ tasks' = [tasks EXCEPT ![q].resp = r, ![q].todo = i, ![q].pc = p]
           \/ tasks' = [tasks EXCEPT ![q].pc = p, ![q].resp = r, ![q].todo = i]
    PROVE  Becomes(q, p, tasks[q].of, r, i)
<1> DEFINE x == tasks[q]
           t == TaskRecord(p, x.of, x.late, r, i)
<1>1. x \in Task
  BY DEF TypeOK
<1>2. ASSUME tasks' = [tasks EXCEPT ![q].resp = r, ![q].todo = i, ![q].pc = p]
      PROVE  tasks' = [tasks EXCEPT ![q] = t]
  <2> DEFINE y == [x EXCEPT !.resp = r]
             z == [y EXCEPT !.todo = i]
  <2>1. tasks' = [tasks EXCEPT ![q] = [z EXCEPT !.pc = p]]
    BY <1>2 DEF TypeOK
  <2> HIDE DEF x
  <2>2. y = TaskRecord(x.pc, x.of, x.late, r, x.todo)
    BY <1>1, TaskFields DEF TaskRecord
  <2> HIDE DEF y
  <2>3. z = TaskRecord(x.pc, x.of, x.late, r, i)
    BY <2>2 DEF TaskRecord
  <2> HIDE DEF z
  <2>4. [z EXCEPT !.pc = p] = t
    BY <2>3 DEF TaskRecord
  <2> QED
    BY <2>1, <2>4
<1>3. ASSUME tasks' = [tasks EXCEPT ![q].pc = p, ![q].resp = r, ![q].todo = i]
      PROVE  tasks' = [tasks EXCEPT ![q] = t]
  <2> DEFINE y == [x EXCEPT !.pc = p]
             z == [y EXCEPT !.resp = r]
  <2>1. tasks' = [tasks EXCEPT ![q] = [z EXCEPT !.todo = i]]
    BY <1>3 DEF TypeOK
  <2> HIDE DEF x
  <2>2. y = TaskRecord(p, x.of, x.late, x.resp, x.todo)
    BY <1>1, TaskFields DEF TaskRecord
  <2> HIDE DEF y
  <2>3. z = TaskRecord(p, x.of, x.late, r, x.todo)
    BY <2>2 DEF TaskRecord
  <2> HIDE DEF z
  <2>4. [z EXCEPT !.todo = i] = t
    BY <2>3 DEF TaskRecord
  <2> QED
    BY <2>1, <2>4
<1>4. tasks' = [tasks EXCEPT ![q] = t]
  BY <1>2, <1>3
<1> HIDE DEF x
<1>5. x.of \in Nat /\ x.late \in BOOLEAN
  BY <1>1, TaskFields
<1>6. Becomes(q, p, x.of, r, i)
  <2>1. tasks' = [tasks EXCEPT ![q] = TaskRecord(p, x.of, x.late, r, i)]
    BY <1>4
  <2> HIDE DEF t
  <2> QED
    BY <1>5, <2>1, Becoming
<1> QED
  BY <1>6 DEF x

(* A task of its own for a query: a leader or a follower. *)
LEMMA Spawned ==
    ASSUME TypeOK, NEW q \in Queries, NEW o \in Nat
    PROVE  /\ tasks' = [tasks EXCEPT ![q] = [NoTask EXCEPT !.pc = "fetch", !.of = o]]
                => Becomes(q, "fetch", o, NoResp, << >>)
           /\ \A l \in BOOLEAN :
                tasks' = [tasks EXCEPT ![q] = [NoTask EXCEPT !.pc = "recv", !.of = o, !.late = l]]
                  => Becomes(q, "recv", o, NoResp, << >>)
<1> DEFINE n == NoTask
<1>1. n \in Task /\ n.late = FALSE /\ n.resp = NoResp /\ n.todo = << >>
  BY DEF NoTask, Task
<1> HIDE DEF n
<1>2. ASSUME NEW p \in {"fetch", "recv"}, NEW l \in BOOLEAN
      PROVE  /\ [n EXCEPT !.pc = p, !.of = o] = TaskRecord(p, o, FALSE, NoResp, << >>)
             /\ [n EXCEPT !.pc = p, !.of = o, !.late = l] = TaskRecord(p, o, l, NoResp, << >>)
  <2> DEFINE y == [n EXCEPT !.pc = p]
             z == [y EXCEPT !.of = o]
  <2>1. y = TaskRecord(p, n.of, n.late, n.resp, n.todo)
    BY <1>1, TaskFields DEF TaskRecord
  <2>2. z = TaskRecord(p, o, n.late, n.resp, n.todo)
    <3> HIDE DEF y
    <3> QED
      BY <2>1 DEF TaskRecord
  <2>3. [z EXCEPT !.late = l] = TaskRecord(p, o, l, n.resp, n.todo)
    <3> HIDE DEF z
    <3> QED
      BY <2>2 DEF TaskRecord
  <2> QED
    BY <1>1, <2>2, <2>3
<1>3. << >> \in Seq(Ips)
  OBVIOUS
<1> QED
  BY <1>2, <1>3, Becoming DEF n

-----------------------------------------------------------------------------
(* What each step of a task makes of it. *)
LEMMA Updates ==
    ASSUME TypeOK, NEW q \in Queries
    PROVE  LET x == tasks[q] IN
           /\ CachePut(q) => Becomes(q, "complete", x.of, x.resp, x.todo)
           /\ Complete(q) => Becomes(q, IF x.resp = NoResp THEN "done" ELSE "send", x.of, x.resp, x.todo)
           /\ Broadcast(q) => Becomes(q, "record", x.of, x.resp, x.todo)
           /\ RecvErr(q) => Becomes(q, "done", x.of, x.resp, x.todo)
           /\ Record(q) => Becomes(q, "record", x.of, x.resp, Tail(x.todo))
           /\ SendReply(q) => Becomes(q, "done", x.of, x.resp, x.todo)
<1>1. ASSUME Record(q)
      PROVE  Becomes(q, "record", tasks[q].of, tasks[q].resp, Tail(tasks[q].todo))
  <2> DEFINE x == tasks[q]
             i == Tail(x.todo)
  <2>1. x \in Task /\ x.pc = "record" /\ tasks' = [tasks EXCEPT ![q] = [x EXCEPT !.todo = i]]
        /\ x.todo # << >>
    BY <1>1 DEF Record, TypeOK
  <2> HIDE DEF x
  <2>2. i \in Seq(Ips)
    BY <2>1, TaskFields
  <2> HIDE DEF i
  <2>3. [x EXCEPT !.todo = i] = TaskRecord("record", x.of, x.late, x.resp, i)
    BY <2>1, TaskFields DEF TaskRecord
  <2>4. tasks' = [tasks EXCEPT ![q] = TaskRecord("record", x.of, x.late, x.resp, i)]
    BY <2>1, <2>3
  <2>5. Becomes(q, "record", x.of, x.resp, i)
    BY <2>1, <2>2, <2>4, TaskFields, Becoming
  <2> QED
    BY <2>5 DEF x, i
<1> QED
  BY <1>1, NextPc DEF CachePut, Complete, Broadcast, RecvErr, SendReply

(* The end of a request: a response to the leader's own question, fresh from the
   server, or a SERVFAIL built from the query, or nothing. *)
LEMMA FetchUpdates ==
    ASSUME TypeOK, NEW q \in Queries, q <= Len(asked)
    PROVE  /\ \A a \in Answers : FetchOk(q, a) =>
                \E r \in Response :
                   /\ Becomes(q, IF a.ips # << >> THEN "put" ELSE "complete", tasks[q].of, r, a.ips)
                   /\ Matches(r, q) /\ Fresh(r) /\ Honest(r) /\ r.leader = q
           /\ FetchErr(q) =>
                \E r \in Response \cup {NoResp} :
                   /\ Becomes(q, "complete", tasks[q].of, r, tasks[q].todo)
                   /\ r # NoResp => Matches(r, q) /\ Honest(r)
<1>1. q \in Nat /\ q >= 1
  BY DohAssumption DEF Queries
<1>2. asked[q] \in Datagram /\ asked[q].id \in Nat /\ asked[q].key \in Key
  BY <1>1, AskedFields, DohAssumption
<1>3. ASSUME NEW a \in Answers, FetchOk(q, a)
      PROVE  \E r \in Response :
                /\ Becomes(q, IF a.ips # << >> THEN "put" ELSE "complete", tasks[q].of, r, a.ips)
                /\ Matches(r, q) /\ Fresh(r) /\ Honest(r) /\ r.leader = q
  <2> DEFINE r == [id |-> asked[q].id, key |-> asked[q].key, ips |-> a.ips, ttl |-> a.ttl,
                   leader |-> q, granted |-> a.ttl, age |-> 0]
             p == IF a.ips # << >> THEN "put" ELSE "complete"
  <2>1. a.ips \in Seq(Ips) /\ a.ttl \in Nat \cup {NoTtl}
    BY DohAssumption
  <2>2. r \in Response /\ Matches(r, q) /\ r.leader = q /\ r.ttl = a.ttl /\ r.granted = a.ttl /\ r.age = 0
    BY <1>1, <1>2, <2>1 DEF Response, Matches
  <2>3. tasks' = [tasks EXCEPT ![q].resp = r, ![q].todo = a.ips, ![q].pc = p]
    BY <1>3 DEF FetchOk
  <2> HIDE DEF r
  <2>4. Fresh(r) /\ Honest(r)
    BY <2>1, <2>2, TtlAssumption DEF Fresh, Honest, Believed
  <2>5. Becomes(q, p, tasks[q].of, r, a.ips)
    BY <2>1, <2>2, <2>3, NextAnswer
  <2> QED
    BY <2>2, <2>4, <2>5
<1>4. ASSUME FetchErr(q)
      PROVE  \E r \in Response \cup {NoResp} :
                /\ Becomes(q, "complete", tasks[q].of, r, tasks[q].todo)
                /\ r # NoResp => Matches(r, q) /\ Honest(r)
  <2> DEFINE r == IF asked[q].key.echoes THEN EmptyResponse(asked[q], q) ELSE NoResp
  <2>1. r \in Response \cup {NoResp} /\ (r # NoResp => Matches(r, q) /\ Honest(r))
    BY <1>1, <1>2, EmptyResponseFields DEF Matches
  <2>2. tasks' = [tasks EXCEPT ![q].pc = "complete", ![q].resp = r]
    BY <1>4 DEF FetchErr
  <2> HIDE DEF r
  <2>3. Becomes(q, "complete", tasks[q].of, r, tasks[q].todo)
    BY <2>1, <2>2, NextResponse
  <2> QED
    BY <2>1, <2>3
<1> QED
  BY <1>3, <1>4

(* A follower takes the leader's response under its own id. *)
LEMMA RecvUpdate ==
    ASSUME TypeOK, NEW q \in Queries, q <= Len(asked), tasks[q].of \in Queries, RecvOk(q),
           channel[tasks[q].of].key = asked[q].key
    PROVE  \E r \in Response :
              /\ Becomes(q, "record", tasks[q].of, r, r.ips)
              /\ Matches(r, q)
              /\ Honest(channel[tasks[q].of]) => Honest(r)
<1> DEFINE c == channel[tasks[q].of]
           n == asked[q].id
           r == [c EXCEPT !.id = n]
<1>1. c \in Response
  BY DEF RecvOk, HasMessage, TypeOK
<1>2. n \in Nat
  BY AskedFields, DohAssumption DEF Queries
<1>3. tasks' = [tasks EXCEPT ![q].pc = "record", ![q].resp = r, ![q].todo = r.ips]
  BY DEF RecvOk
<1>4. c.key = asked[q].key
  OBVIOUS
<1> HIDE DEF c
<1>5. /\ r \in Response /\ r.id = n /\ r.key = c.key /\ r.ttl = c.ttl
      /\ r.granted = c.granted /\ r.age = c.age /\ r.ips \in Seq(Ips)
  <2> HIDE DEF n
  <2> QED
    BY <1>1, <1>2 DEF Response
<1>6. Matches(r, q) /\ (Honest(c) => Honest(r))
  BY <1>4, <1>5 DEF Matches, Honest
<1> HIDE DEF r
<1>7. Becomes(q, "record", tasks[q].of, r, r.ips)
  BY <1>3, <1>5, NextAnswer
<1> QED
  BY <1>5, <1>6, <1>7 DEF c

-----------------------------------------------------------------------------
(* The fields of cache and table entries. *)
CacheEntry == [response : Response, inserted : Nat, expires : Nat]
TableEntry == [name : Names, expires : Nat]

(* Lifetimes are numbers, and a cached response is kept no longer than its TTL or
   the minimum. *)
LEMMA Lifetimes ==
    ASSUME NEW ttl \in Nat \cup {NoTtl}
    PROVE  /\ cache_ttl(ttl) \in Nat /\ table_ttl(ttl) \in Nat
           /\ ttl # NoTtl => cache_ttl(ttl) <= Believed(ttl) /\ ttl <= Believed(ttl)
BY TtlAssumption DEF cache_ttl, table_ttl, Clamp, Believed

(* What the cache answers a query with is a response to it, aged by no less
   than the time it was kept. *)
LEMMA CacheGetFields ==
    ASSUME TypeOK, Keyed, HonestTtl, NEW d \in Datagram, NEW resp \in CacheGet(d)
    PROVE  resp \in Response /\ resp.id = d.id /\ resp.key = d.key /\ Honest(resp)
<1>1. PICK k \in DOMAIN cache :
         /\ k = d.key /\ cache[k].expires > now
         /\ resp = [cache[k].response EXCEPT !.id = d.id,
                               !.ttl = Aged(@, now - cache[k].inserted),
                               !.age = now - cache[k].inserted]
  BY DEF CacheGet
<1> DEFINE c == cache[k].response
           a == now - cache[k].inserted
           t == Aged(c.ttl, a)
           y == [c EXCEPT !.id = d.id]
           z == [y EXCEPT !.ttl = t]
<1>2. cache[k] \in CacheEntry
  BY DEF TypeOK, IsMap, CacheEntry
<1>3. /\ c \in Response /\ c.key = k /\ Fresh(c) /\ now \in Nat
      /\ cache[k].inserted \in Nat /\ cache[k].inserted <= now
      /\ cache[k].expires = cache[k].inserted + cache_ttl(c.ttl)
  BY <1>2 DEF CacheEntry, Keyed, HonestTtl, TypeOK
<1>4. /\ c.ttl \in Nat \cup {NoTtl} /\ c.granted = c.ttl /\ c.age = 0
      /\ c = [id |-> c.id, key |-> c.key, ips |-> c.ips, ttl |-> c.ttl,
              leader |-> c.leader, granted |-> c.granted, age |-> c.age]
      /\ c.id \in Nat /\ c.key \in Key /\ c.ips \in Seq(Ips) /\ c.leader \in Nat
  BY <1>3 DEF Response, Fresh
<1>5. a \in Nat /\ a < cache_ttl(c.ttl)
  BY <1>1, <1>3, <1>4, Lifetimes
<1>6. d.id \in Nat
  BY DEF Datagram
<1>7. t \in Nat \cup {NoTtl}
  BY <1>4, <1>5 DEF Aged
<1>8. resp = [z EXCEPT !.age = a]
  <2>1. y.ttl = c.ttl
    BY <1>4
  <2>2. z = [c EXCEPT !.id = d.id, !.ttl = t]
    BY <2>1, <1>4
  <2> QED
    BY <1>1, <2>1, <1>4
<1>9. c.ttl # NoTtl => t + a <= Believed(c.ttl)
  <2> SUFFICES ASSUME c.ttl # NoTtl
               PROVE  t + a <= Believed(c.ttl)
    OBVIOUS
  <2> HIDE DEF c, a
  <2>1. /\ c.ttl \in Nat /\ MIN_TTL \in Nat /\ Believed(c.ttl) \in Nat
        /\ c.ttl <= Believed(c.ttl)
    BY <1>4, TtlAssumption, Lifetimes DEF Believed
  <2>2. CASE a = 0
    BY <2>1, <2>2 DEF Aged
  <2>3. CASE a # 0 /\ c.ttl - a >= 1
    <3>1. t = c.ttl - a
      BY <1>5, <2>1, <2>3 DEF Aged
    <3> QED
      BY <1>5, <2>1, <3>1
  (* The floor: the entry has not expired, so it may be believed a second more. *)
  <2>4. CASE a # 0 /\ c.ttl - a < 1
    <3>1. t = 1
      BY <1>5, <2>1, <2>4 DEF Aged
    <3>2. cache_ttl(c.ttl) \in Nat /\ cache_ttl(c.ttl) <= Believed(c.ttl)
      BY <1>4, Lifetimes
    <3> QED
      BY <1>5, <2>1, <3>1, <3>2
  <2> QED
    BY <1>5, <2>1, <2>2, <2>3, <2>4
<1>0. c.key = d.key
  BY <1>1, <1>3
<1> HIDE DEF c, a, t
<1>10. y = [id |-> d.id, key |-> c.key, ips |-> c.ips, ttl |-> c.ttl,
            leader |-> c.leader, granted |-> c.granted, age |-> c.age]
  BY <1>4
<1> HIDE DEF y
<1>11. z = [id |-> d.id, key |-> c.key, ips |-> c.ips, ttl |-> t,
            leader |-> c.leader, granted |-> c.granted, age |-> c.age]
  BY <1>10
<1> HIDE DEF z
<1>12. resp = [id |-> d.id, key |-> c.key, ips |-> c.ips, ttl |-> t,
            leader |-> c.leader, granted |-> c.granted, age |-> a]
  BY <1>8, <1>11
<1>13. resp \in Response
  BY <1>4, <1>5, <1>6, <1>7, <1>12 DEF Response
<1>14. resp.id = d.id /\ resp.key = d.key /\ resp.granted = c.ttl /\ resp.age = a /\ resp.ttl = t
  BY <1>0, <1>4, <1>12
<1>15. Honest(resp)
  BY <1>9, <1>14 DEF Honest
<1> QED
  BY <1>13, <1>14, <1>15

(* What the main loop may hold between two of its steps. *)
MainState == [pc : {"hit", "join", "register"}, q : Queries,
              resp : Response \cup {NoResp}, todo : Seq(Ips)]

(* What the main loop does with a query it goes on holding. *)
LEMMA MainUpdates ==
    ASSUME TypeOK, main # Idle
    PROVE  /\ main \in MainState
           /\ main.q \in Queries /\ main.resp \in Response \cup {NoResp} /\ main.todo \in Seq(Ips)
           /\ HitRecords => /\ main' \in MainState /\ main'.pc = "hit"
                            /\ main'.q = main.q /\ main'.resp = main.resp
           /\ JoinMisses => /\ main' \in MainState /\ main'.pc = "register"
                            /\ main'.q = main.q /\ main'.resp = main.resp
<1>1. main \in MainState
  BY DEF TypeOK, MainState
<1>2. main.q \in Queries /\ main.resp \in Response \cup {NoResp} /\ main.todo \in Seq(Ips)
  BY <1>1 DEF MainState
<1>3. ASSUME HitRecords
      PROVE  /\ main' \in MainState /\ main'.pc = "hit"
             /\ main'.q = main.q /\ main'.resp = main.resp
  <2> DEFINE i == Tail(main.todo)
  <2>1. main' = [main EXCEPT !.todo = i] /\ main.pc = "hit" /\ i \in Seq(Ips)
    BY <1>2, <1>3 DEF HitRecords
  <2> HIDE DEF i
  <2> QED
    BY <1>1, <2>1 DEF MainState
<1>4. ASSUME JoinMisses
      PROVE  /\ main' \in MainState /\ main'.pc = "register"
             /\ main'.q = main.q /\ main'.resp = main.resp
  BY <1>1, <1>4 DEF JoinMisses, MainState
<1> QED
  BY <1>1, <1>2, <1>3, <1>4

(* What a query that arrives leaves with the main loop. *)
LEMMA ArrivalUpdates ==
    ASSUME TypeOK, Keyed, HonestTtl, NEW d \in Datagrams, CacheHit(d) \/ CacheMiss(d)
    PROVE  /\ main = Idle /\ Len(asked) < MaxQueries /\ asked' = Append(asked, d)
           /\ main' \in MainState /\ main'.q = Len(asked) + 1
           /\ main'.pc \in {"hit", "join"}
           /\ main'.pc = "hit" =>
                /\ main'.resp \in Response /\ main'.resp.id = d.id /\ main'.resp.key = d.key
                /\ Honest(main'.resp)
<1>1. main = Idle /\ Len(asked) < MaxQueries /\ asked' = Append(asked, d)
  BY DEF CacheHit, CacheMiss
<1>2. Len(asked) + 1 \in Queries /\ d \in Datagram
  BY <1>1, Arrival
<1>3. CASE CacheHit(d)
  <2>1. PICK r \in CacheGet(d) :
          main' = [pc |-> "hit", q |-> Len(asked) + 1, resp |-> r, todo |-> r.ips]
    BY <1>3 DEF CacheHit
  <2>2. r \in Response /\ r.id = d.id /\ r.key = d.key /\ Honest(r)
    BY <1>2, CacheGetFields
  <2>3. r.ips \in Seq(Ips)
    BY <2>2 DEF Response
  <2> QED
    BY <1>1, <1>2, <2>1, <2>2, <2>3 DEF MainState
<1>4. CASE CacheMiss(d)
  <2>1. main' = [pc |-> "join", q |-> Len(asked) + 1, resp |-> NoResp, todo |-> << >>]
    BY <1>4 DEF CacheMiss
  <2>2. << >> \in Seq(Ips)
    OBVIOUS
  <2> QED
    BY <1>1, <1>2, <2>1, <2>2 DEF MainState
<1> QED
  BY <1>3, <1>4

-----------------------------------------------------------------------------
(* A query stays in one place. *)

(* A step of a task that has not ended settles its own query at most, and only
   as it ends. *)
LEMMA PlacedTask ==
    ASSUME TypeOK, Placed, NEW q \in Queries, tasks[q].pc \notin {"none", "done"},
           UNCHANGED <<asked, main>>, tasks'[q].pc # "none",
           \A x \in Queries : x # q =>
              tasks'[x] = tasks[x] /\ replies'[x] = replies[x] /\ (x \in dropped' => x \in dropped),
           tasks'[q].pc = "done" \/ UNCHANGED <<replies, dropped>>
    PROVE  Placed'
BY DEF Placed

(* Every step keeps each query in one place. *)
LEMMA PlacedStep ==
    TypeOK /\ Placed /\ Keyed /\ HonestTtl /\ [Next]_vars => Placed'
<1> SUFFICES ASSUME TypeOK, Placed, Keyed, HonestTtl, [Next]_vars
             PROVE  Placed'
  OBVIOUS
<1>0. Len(asked) \in Nat /\ MaxQueries \in Nat /\ tasks \in [Queries -> Task]
      /\ DOMAIN replies = Queries
  BY DohAssumption DEF TypeOK
<1>1. CASE UNCHANGED <<asked, main, tasks, replies, dropped>>
  BY <1>1 DEF Placed
<1>2. ASSUME NEW d \in Datagrams, StripQuery(d)
      PROVE  Placed'
  <2> DEFINE n == Len(asked) + 1
  <2>1. /\ main = Idle /\ main' = Idle /\ UNCHANGED tasks /\ Len(asked') = n /\ n \in Queries
        /\ \A x \in Queries : x # n => replies'[x] = replies[x] /\ (x \in dropped' => x \in dropped)
    BY <1>0, <1>2, Arrival DEF StripQuery
  <2>2. \A x \in Queries : x > Len(asked') => x # n /\ x > Len(asked)
    BY <1>0, <2>1 DEF Queries
  <2>3. \A x \in Queries : x <= Len(asked) => x # n /\ x <= Len(asked')
    BY <1>0, <2>1 DEF Queries
  <2> HIDE DEF n
  <2> QED
    BY <1>0, <2>1, <2>2, <2>3 DEF Placed, Queries
<1>3. ASSUME NEW d \in Datagrams, CacheHit(d) \/ CacheMiss(d)
      PROVE  Placed'
  <2>1. UNCHANGED <<tasks, replies, dropped>>
    BY <1>3 DEF CacheHit, CacheMiss
  <2>2. Len(asked') = Len(asked) + 1 /\ main'.q = Len(asked) + 1 /\ Len(asked) + 1 \in Queries
    BY <1>3, Arrival, ArrivalUpdates
  <2> QED
    BY <1>0, <2>1, <2>2 DEF Placed, Queries
<1>4. CASE HitRecords \/ JoinMisses
  <2>1. main # Idle /\ main'.q = main.q /\ UNCHANGED <<asked, tasks, replies, dropped>>
    BY <1>4, MainUpdates DEF HitRecords, JoinMisses
  <2> QED
    BY <2>1 DEF Placed
<1>5. CASE HitReplies
  <2>1. /\ main # Idle /\ main' = Idle /\ UNCHANGED <<asked, tasks, dropped>>
        /\ \A x \in Queries : x # main.q => replies'[x] = replies[x]
    BY <1>0, <1>5 DEF HitReplies, SendTo
  <2> QED
    BY <1>0, <2>1 DEF Placed, Queries
<1>6. CASE Join \/ Register
  <2>1. main # Idle /\ main' = Idle /\ UNCHANGED <<asked, replies, dropped>>
    BY <1>6 DEF Join, Register
  <2>2. \A x \in Queries : x # main.q => tasks'[x] = tasks[x]
    BY <1>0, <1>6 DEF Join, Register
  <2> QED
    BY <1>0, <2>1, <2>2 DEF Placed, Queries
<1>7. ASSUME NEW q \in Queries, \E a \in Answers : FetchOk(q, a)
      PROVE  Placed'
  <2>1. tasks[q].pc = "fetch" /\ UNCHANGED <<asked, main, replies, dropped>>
    BY <1>7 DEF FetchOk
  <2>2. tasks'[q].pc # "none" /\ \A x \in Queries : x # q => tasks'[x] = tasks[x]
    BY <1>7, <2>1, FetchUpdates DEF Becomes, Placed
  <2> QED
    BY <2>1, <2>2, PlacedTask
<1>8. ASSUME NEW q \in Queries, FetchErr(q)
      PROVE  Placed'
  <2>1. tasks[q].pc = "fetch" /\ UNCHANGED <<asked, main, replies, dropped>>
    BY <1>8 DEF FetchErr
  <2>2. tasks'[q].pc # "none" /\ \A x \in Queries : x # q => tasks'[x] = tasks[x]
    BY <1>8, <2>1, FetchUpdates DEF Becomes, Placed
  <2> QED
    BY <2>1, <2>2, PlacedTask
<1>9. ASSUME NEW q \in Queries, CachePut(q) \/ Broadcast(q) \/ Record(q)
      PROVE  Placed'
  <2>1. tasks[q].pc \in {"put", "send", "record"} /\ UNCHANGED <<asked, main, replies, dropped>>
    BY <1>9 DEF CachePut, Broadcast, Record
  <2>2. tasks'[q].pc # "none" /\ \A x \in Queries : x # q => tasks'[x] = tasks[x]
    BY <1>9, Updates DEF Becomes
  <2> QED
    BY <2>1, <2>2, PlacedTask
<1>10. ASSUME NEW q \in Queries, Complete(q) \/ RecvErr(q) \/ SendReply(q)
       PROVE  Placed'
  <2>1. tasks[q].pc \in {"complete", "recv", "record"} /\ UNCHANGED <<asked, main>>
    BY <1>10 DEF Complete, RecvErr, SendReply
  <2>2. /\ tasks'[q].pc # "none" /\ \A x \in Queries : x # q => tasks'[x] = tasks[x]
        /\ tasks'[q].pc = "done" \/ UNCHANGED <<replies, dropped>>
    BY <1>10, Updates DEF Becomes, Complete
  <2>3. \A x \in Queries : x # q => replies'[x] = replies[x] /\ (x \in dropped' => x \in dropped)
    BY <1>0, <1>10 DEF Complete, RecvErr, SendReply, SendTo
  <2> QED
    BY <2>1, <2>2, <2>3, PlacedTask
<1>11. ASSUME NEW q \in Queries, RecvOk(q)
       PROVE  Placed'
  <2>1. tasks[q].pc = "recv" /\ UNCHANGED <<asked, main, replies, dropped>>
    BY <1>11 DEF RecvOk
  <2>2. tasks'[q].pc # "none" /\ \A x \in Queries : x # q => tasks'[x] = tasks[x]
    BY <1>0, <1>11 DEF RecvOk
  <2> QED
    BY <2>1, <2>2, PlacedTask
<1> QED
  BY <1>1, <1>2, <1>3, <1>4, <1>5, <1>6, <1>7, <1>8, <1>9, <1>10, <1>11
  DEF Next, Tick, vars, MainStep, FetchEnds, TaskStep

-----------------------------------------------------------------------------
(* Types. *)

(* What a task that has something to do knows of its query. *)
LEMMA BusyTask ==
    ASSUME TypeOK, Placed, NEW q \in Queries, tasks[q].pc \notin {"none", "done"}
    PROVE  /\ q \in Nat /\ q <= Len(asked) /\ asked[q] \in Datagrams
           /\ asked[q].client \in STRING /\ cache_key(q) \in Key /\ cache_key(q).name \in Names
           /\ replies[q] = << >> /\ q \notin dropped
BY AskedFields, DohAssumption DEF Placed, Queries

(* What the main loop knows of the query it holds. *)
LEMMA BusyMain ==
    ASSUME TypeOK, Placed, main # Idle
    PROVE  /\ main.q \in Queries /\ main.q \in Nat /\ main.q = Len(asked)
           /\ asked[main.q] \in Datagrams /\ asked[main.q].client \in STRING
           /\ cache_key(main.q) \in Key /\ cache_key(main.q).name \in Names
           /\ replies[main.q] = << >> /\ main.q \notin dropped /\ tasks[main.q].pc = "none"
BY AskedFields, DohAssumption DEF Placed, Queries

(* The fields of a response that recording and caching read. *)
LEMMA ResponseFields ==
    ASSUME NEW r \in Response
    PROVE  r.ttl \in Nat \cup {NoTtl} /\ r.ips \in Seq(Ips) /\ r.leader \in Nat
BY DEF Response

(* The main loop goes on holding what it may hold. *)
LEMMA TypedMain ==
    TypeOK /\ Placed /\ Keyed /\ HonestTtl /\ [Next]_vars => main' \in {Idle} \cup MainState
<1> SUFFICES ASSUME TypeOK, Placed, Keyed, HonestTtl, [Next]_vars
             PROVE  main' \in {Idle} \cup MainState
  OBVIOUS
<1>1. CASE main' = main
  BY <1>1 DEF TypeOK, MainState
<1>2. CASE main' = Idle
  BY <1>2
<1>3. CASE \E d \in Datagrams : CacheHit(d) \/ CacheMiss(d)
  BY <1>3, ArrivalUpdates
<1>4. CASE HitRecords \/ JoinMisses
  BY <1>4, MainUpdates DEF HitRecords, JoinMisses
<1> QED
  BY <1>1, <1>2, <1>3, <1>4 DEF Next, Tick, StripQuery, MainStep, HitReplies, Join, Register,
     FetchEnds, FetchOk, FetchErr, TaskStep, CachePut, Complete, Broadcast, RecvOk, RecvErr,
     Record, SendReply, vars

(* Tasks keep their type. *)
LEMMA TypedTasks ==
    TypeOK /\ Placed /\ Keyed /\ HonestTtl /\ [Next]_vars => tasks' \in [Queries -> Task]
<1> SUFFICES ASSUME TypeOK, Placed, Keyed, HonestTtl, [Next]_vars
             PROVE  tasks' \in [Queries -> Task]
  OBVIOUS
<1>1. CASE tasks' = tasks
  BY <1>1 DEF TypeOK
<1>2. CASE Join \/ Register
  <2>1. main # Idle /\ main.q \in Queries /\ main.q \in Nat
    BY <1>2, BusyMain DEF Join, Register
  <2>2. CASE Join
    <3> DEFINE o == in_flight[cache_key(main.q)]
    <3>1. o \in Nat
      BY <2>2, DohAssumption DEF Join, TypeOK, IsMap, Queries
    <3>2. PICK l \in BOOLEAN :
            tasks' = [tasks EXCEPT ![main.q] = [NoTask EXCEPT !.pc = "recv", !.of = o, !.late = l]]
      BY <2>2 DEF Join
    <3> HIDE DEF o
    <3>3. Becomes(main.q, "recv", o, NoResp, << >>)
      BY <2>1, <3>1, <3>2, Spawned
    <3> QED
      BY <3>3 DEF Becomes
  <2>3. CASE Register
    <3>1. Becomes(main.q, "fetch", main.q, NoResp, << >>)
      BY <2>1, <2>3, Spawned DEF Register
    <3> QED
      BY <3>1 DEF Becomes
  <2> QED
    BY <1>2, <2>2, <2>3
<1>3. ASSUME NEW q \in Queries, FetchEnds(q)
      PROVE  tasks' \in [Queries -> Task]
  <2>1. tasks[q].pc = "fetch"
    BY <1>3 DEF FetchEnds, FetchOk, FetchErr
  <2>2. q <= Len(asked)
    BY <2>1, BusyTask
  <2> QED
    BY <1>3, <2>2, FetchUpdates DEF Becomes, FetchEnds
<1>4. ASSUME NEW q \in Queries,
             CachePut(q) \/ Complete(q) \/ Broadcast(q) \/ RecvErr(q) \/ Record(q) \/ SendReply(q)
      PROVE  tasks' \in [Queries -> Task]
  BY <1>4, Updates DEF Becomes
<1>5. ASSUME NEW q \in Queries, RecvOk(q)
      PROVE  tasks' \in [Queries -> Task]
  <2>1. tasks[q].pc = "recv" /\ channel[tasks[q].of] # NoResp
    BY <1>5 DEF RecvOk, HasMessage
  <2>2. q <= Len(asked) /\ tasks[q].of \in Queries /\ channel[tasks[q].of].key = asked[q].key
    BY <2>1, BusyTask DEF Keyed
  <2> QED
    BY <1>5, <2>2, RecvUpdate DEF Becomes
<1> QED
  BY <1>1, <1>2, <1>3, <1>4, <1>5 DEF Next, Tick, StripQuery, CacheHit, CacheMiss, MainStep,
     HitRecords, HitReplies, JoinMisses, TaskStep, vars

(* What CachePut leaves in the cache, and what the two places that record an
   address leave in the table. *)
LEMMA CacheInsert ==
    ASSUME TypeOK, Placed, Keyed, NEW q \in Queries, CachePut(q)
    PROVE  \E v \in CacheEntry :
             /\ v.response = tasks[q].resp /\ v.inserted = now
             /\ v.expires = now + cache_ttl(tasks[q].resp.ttl)
             /\ IsMap(cache', Key, CacheEntry)
             /\ cache_key(q) \in DOMAIN cache' /\ cache'[cache_key(q)] = v
             /\ \A k \in DOMAIN cache' : k # cache_key(q) => k \in DOMAIN cache /\ cache'[k] = cache[k]
<1> DEFINE r == tasks[q].resp
           e == now + cache_ttl(r.ttl)
           w == [response |-> r, inserted |-> now, expires |-> e]
<1>1. tasks[q].pc = "put"
  BY DEF CachePut
<1>2. r \in Response /\ now \in Nat /\ cache_key(q) \in Key /\ IsMap(cache, Key, CacheEntry)
  BY <1>1, BusyTask DEF Keyed, Held, Matches, TypeOK, CacheEntry
<1>3. e \in Nat
  <2>1. cache_ttl(r.ttl) \in Nat
    BY <1>2, ResponseFields, Lifetimes
  <2> QED
    BY <1>2, <2>1
<1>4. cache' \in BoundedInsert(cache, cache_key(q), w, now)
  BY DEF CachePut
<1> HIDE DEF r, e
<1>5. w \in CacheEntry /\ w.response = r /\ w.inserted = now /\ w.expires = e
  BY <1>2, <1>3 DEF CacheEntry
<1> HIDE DEF w
<1>6. /\ IsMap(cache', Key, CacheEntry)
      /\ cache_key(q) \in DOMAIN cache' /\ cache'[cache_key(q)] = w
      /\ \A k \in DOMAIN cache' : k # cache_key(q) => k \in DOMAIN cache /\ cache'[k] = cache[k]
  BY <1>2, <1>4, <1>5, Inserted
<1> QED
  BY <1>5, <1>6 DEF r, e

(* Recording an address leaves a table. *)
LEMMA TableInserted ==
    ASSUME TypeOK, NEW ip \in Ips, NEW name \in Names, NEW ttl \in Nat \cup {NoTtl},
           table' \in TableInsert(table, ip, name, ttl, now)
    PROVE  IsMap(table', Ips, TableEntry)
<1> DEFINE e == now + table_ttl(ttl)
           w == [name |-> name, expires |-> e]
<1>1. e \in Nat /\ IsMap(table, Ips, TableEntry)
  <2>1. table_ttl(ttl) \in Nat
    BY Lifetimes
  <2>2. now \in Nat /\ IsMap(table, Ips, TableEntry)
    BY DEF TypeOK, TableEntry
  <2> QED
    BY <2>1, <2>2
<1>2. table' \in BoundedInsert(table, ip, w, now)
  BY DEF TableInsert
<1> HIDE DEF e
<1>3. w \in TableEntry
  BY <1>1 DEF TableEntry
<1> HIDE DEF w
<1> QED
  BY <1>1, <1>2, <1>3, Inserted

(* The table keeps its type. *)
LEMMA TypedTable ==
    TypeOK /\ Placed /\ Keyed /\ [Next]_vars => IsMap(table', Ips, TableEntry)
<1> SUFFICES ASSUME TypeOK, Placed, Keyed, [Next]_vars
             PROVE  IsMap(table', Ips, TableEntry)
  OBVIOUS
<1>1. CASE table' = table
  BY <1>1 DEF TypeOK, TableEntry
<1>2. CASE HitRecords
  <2>1. /\ main # Idle /\ main.todo # << >> /\ main.pc = "hit"
        /\ table' \in TableInsert(table, Head(main.todo), cache_key(main.q).name, main.resp.ttl, now)
    BY <1>2 DEF HitRecords
  <2>2. main.resp.ttl \in Nat \cup {NoTtl} /\ main.todo \in Seq(Ips)
    BY <2>1, ResponseFields, MainUpdates DEF Keyed, Matches
  <2>3. Head(main.todo) \in Ips
    BY <2>1, <2>2
  <2> QED
    BY <2>1, <2>2, <2>3, BusyMain, TableInserted
<1>3. ASSUME NEW q \in Queries, Record(q)
      PROVE  IsMap(table', Ips, TableEntry)
  <2>1. /\ tasks[q].pc = "record" /\ tasks[q].todo # << >>
        /\ table' \in TableInsert(table, Head(tasks[q].todo), cache_key(q).name, tasks[q].resp.ttl, now)
    BY <1>3 DEF Record
  <2>2. tasks[q].resp.ttl \in Nat \cup {NoTtl} /\ tasks[q].todo \in Seq(Ips)
    BY <2>1, ResponseFields, TaskFields DEF Keyed, Held, Matches, TypeOK
  <2>3. Head(tasks[q].todo) \in Ips
    BY <2>1, <2>2
  <2> QED
    BY <2>1, <2>2, <2>3, BusyTask, TableInserted
<1> QED
  BY <1>1, <1>2, <1>3 DEF Next, Tick, StripQuery, CacheHit, CacheMiss, MainStep, HitReplies,
     Join, JoinMisses, Register, FetchEnds, FetchOk, FetchErr, TaskStep, CachePut, Complete,
     Broadcast, RecvOk, RecvErr, SendReply, vars

Reply == [to : STRING, resp : Response]

(* The three places where a reply is sent. *)
Sent(q, r) ==
    /\ q \in Queries /\ r \in Response /\ asked'[q] \in Datagrams
    /\ r.id = asked'[q].id /\ r.key = asked'[q].key /\ Honest(r)
    /\ replies[q] = << >> /\ q \notin dropped /\ q <= Len(asked')
    /\ replies' = [replies EXCEPT ![q] = Append(@, [to |-> asked'[q].client, resp |-> r])]

(* What is sent is the one reply to its query. *)
LEMMA SentReply ==
    ASSUME TypeOK, NEW q \in Queries, NEW r \in Response, Sent(q, r)
    PROVE  \E x \in Reply :
             /\ x.to = asked'[q].client /\ x.resp = r
             /\ replies' \in [Queries -> Seq(Reply)]
             /\ replies'[q] = <<x>>
             /\ \A p \in Queries : p # q => replies'[p] = replies[p]
<1> DEFINE c == asked'[q].client
           x == [to |-> c, resp |-> r]
<1>1. c \in STRING /\ replies[q] = << >>
  BY DohAssumption DEF Sent, Datagram
<1>2. replies \in [Queries -> Seq(Reply)] /\ replies' = [replies EXCEPT ![q] = Append(@, x)]
  BY DEF TypeOK, Reply, Sent
<1>3. c = asked'[q].client
  OBVIOUS
<1> HIDE DEF c
<1>4. x \in Reply /\ x.to = c /\ x.resp = r
  BY <1>1 DEF Reply
<1> HIDE DEF x
<1>5. Append(replies[q], x) = <<x>> /\ <<x>> \in Seq(Reply)
  BY <1>1, <1>4
<1>6. /\ replies' \in [Queries -> Seq(Reply)]
      /\ replies'[q] = <<x>>
      /\ \A p \in Queries : p # q => replies'[p] = replies[p]
  BY <1>2, <1>5
<1> QED
  BY <1>3, <1>4, <1>6

(* A step sends no reply, or one, to the client of a query that was open. *)
LEMMA Replied ==
    ASSUME TypeOK, Placed, Keyed, HonestTtl, [Next]_vars
    PROVE  replies' = replies \/ (dropped' = dropped /\ \E q \in Queries, r \in Response : Sent(q, r))
<1>1. ASSUME NEW d \in Datagrams, StripQuery(d), replies' # replies
      PROVE  dropped' = dropped /\ \E q \in Queries, r \in Response : Sent(q, r)
  <2> DEFINE n == Len(asked) + 1
             r == EmptyResponse(d, n)
  <2>1. /\ Len(asked) < MaxQueries /\ asked' = Append(asked, d) /\ dropped' = dropped
        /\ replies' = [replies EXCEPT ![n] = Append(@, [to |-> d.client, resp |-> r])]
    BY <1>1 DEF StripQuery
  <2>2. n \in Queries /\ n \in Nat /\ asked'[n] = d /\ n = Len(asked') /\ n > Len(asked)
    BY <2>1, Arrival
  <2>3. r \in Response /\ r.id = d.id /\ r.key = d.key /\ Honest(r)
    BY <2>1, <2>2, Arrival, EmptyResponseFields
  <2> HIDE DEF n, r
  <2>4. replies[n] = << >> /\ n \notin dropped
    BY <2>2 DEF Placed
  <2>5. Sent(n, r)
    BY <2>1, <2>2, <2>3, <2>4 DEF Sent, Matches
  <2> QED
    BY <2>1, <2>2, <2>3, <2>5
<1>2. CASE HitReplies
  <2>1. /\ main # Idle /\ main.pc = "hit" /\ UNCHANGED <<asked, dropped>>
        /\ replies' = [replies EXCEPT ![main.q] =
              Append(@, [to |-> asked[main.q].client, resp |-> main.resp])]
    BY <1>2 DEF HitReplies, SendTo
  <2>2. Matches(main.resp, main.q) /\ Honest(main.resp)
    BY <2>1 DEF Keyed, HonestTtl
  <2>3. Sent(main.q, main.resp)
    BY <2>1, <2>2, BusyMain DEF Sent, Matches
  <2> QED
    BY <2>1, <2>3 DEF Sent
<1>3. ASSUME NEW q \in Queries, SendReply(q)
      PROVE  dropped' = dropped /\ \E r \in Response : Sent(q, r)
  <2>1. /\ tasks[q].pc = "record" /\ UNCHANGED <<asked, dropped>>
        /\ replies' = [replies EXCEPT ![q] =
              Append(@, [to |-> asked[q].client, resp |-> tasks[q].resp])]
    BY <1>3 DEF SendReply, SendTo
  <2>2. Matches(tasks[q].resp, q) /\ Honest(tasks[q].resp)
    BY <2>1 DEF Keyed, HonestTtl, Held
  <2>3. Sent(q, tasks[q].resp)
    BY <2>1, <2>2, BusyTask DEF Sent, Matches
  <2> QED
    BY <2>1, <2>3 DEF Sent
<1> QED
  BY <1>1, <1>2, <1>3 DEF Next, Tick, CacheHit, CacheMiss, MainStep,
     HitRecords, Join, JoinMisses, Register, FetchEnds, FetchOk, FetchErr, TaskStep, CachePut,
     Complete, Broadcast, RecvOk, RecvErr, Record, vars

(* Every step keeps every variable in its type. *)
LEMMA TypedStep == TypeOK /\ Placed /\ Keyed /\ HonestTtl /\ [Next]_vars => TypeOK'
<1> SUFFICES ASSUME TypeOK, Placed, Keyed, HonestTtl, [Next]_vars
             PROVE  TypeOK'
  OBVIOUS
<1>1. now' \in Nat
  <2>1. now \in Nat
    BY DEF TypeOK
  <2>2. now' = now \/ now' = now + 1
    BY DEF Next, Tick, StripQuery, CacheHit, CacheMiss, MainStep, HitRecords, HitReplies,
       Join, JoinMisses, Register, FetchEnds, FetchOk, FetchErr, TaskStep, CachePut, Complete,
       Broadcast, RecvOk, RecvErr, Record, SendReply, vars
  <2> QED
    BY <2>1, <2>2
<1>2. asked' \in Seq(Datagrams) /\ Len(asked') <= MaxQueries
  <2>1. ASSUME NEW d \in Datagrams, Len(asked) < MaxQueries, asked' = Append(asked, d)
        PROVE  asked' \in Seq(Datagrams) /\ Len(asked') <= MaxQueries
    BY <2>1, Arrival DEF Queries
  <2> QED
    BY <2>1 DEF TypeOK, Next, Tick, StripQuery, CacheHit, CacheMiss, MainStep, HitRecords,
       HitReplies, Join, JoinMisses, Register, FetchEnds, FetchOk, FetchErr, TaskStep, CachePut,
       Complete, Broadcast, RecvOk, RecvErr, Record, SendReply, vars
<1>3. main' \in {Idle} \cup [pc : {"hit", "join", "register"}, q : Queries,
                             resp : Response \cup {NoResp}, todo : Seq(Ips)]
  BY TypedMain DEF MainState
<1>4. tasks' \in [Queries -> Task]
  BY TypedTasks
<1>5. IsMap(cache', Key, [response : Response, inserted : Nat, expires : Nat])
  <2>1. CASE cache' = cache
    BY <2>1 DEF TypeOK
  <2>2. CASE \E q \in Queries : CachePut(q)
    BY <2>2, CacheInsert DEF CacheEntry
  <2> QED
    BY <2>1, <2>2 DEF Next, Tick, StripQuery, CacheHit, CacheMiss, MainStep, HitRecords,
       HitReplies, Join, JoinMisses, Register, FetchEnds, FetchOk, FetchErr, TaskStep,
       Complete, Broadcast, RecvOk, RecvErr, Record, SendReply, vars
<1>6. IsMap(in_flight', Key, Queries)
  <2>1. CASE in_flight' = in_flight
    BY <2>1 DEF TypeOK
  <2>2. CASE Register
    <3>1. main # Idle /\ in_flight' = Put(in_flight, cache_key(main.q), main.q)
      BY <2>2 DEF Register
    <3>2. cache_key(main.q) \in Key /\ main.q \in Queries
      BY <3>1, BusyMain
    <3> QED
      BY <3>1, <3>2 DEF TypeOK, IsMap, Put
  <2>3. ASSUME NEW q \in Queries, Complete(q)
        PROVE  IsMap(in_flight', Key, Queries)
    BY <2>3 DEF Complete, TypeOK, IsMap, Restrict
  <2> QED
    BY <2>1, <2>2, <2>3 DEF Next, Tick, StripQuery, CacheHit, CacheMiss, MainStep, HitRecords,
       HitReplies, Join, JoinMisses, FetchEnds, FetchOk, FetchErr, TaskStep, CachePut,
       Broadcast, RecvOk, RecvErr, Record, SendReply, vars
<1>7. channel' \in [Queries -> Response \cup {NoResp}]
  <2>1. CASE channel' = channel
    BY <2>1 DEF TypeOK
  <2>2. ASSUME NEW q \in Queries, Broadcast(q)
        PROVE  channel' \in [Queries -> Response \cup {NoResp}]
    <3>1. tasks[q].resp \in Response \cup {NoResp}
      BY TaskFields DEF TypeOK
    <3> QED
      BY <2>2, <3>1 DEF Broadcast, TypeOK
  <2> QED
    BY <2>1, <2>2 DEF Next, Tick, StripQuery, CacheHit, CacheMiss, MainStep, HitRecords,
       HitReplies, Join, JoinMisses, Register, FetchEnds, FetchOk, FetchErr, TaskStep, CachePut,
       Complete, RecvOk, RecvErr, Record, SendReply, vars
<1>8. IsMap(table', Ips, [name : Names, expires : Nat])
  BY TypedTable DEF TableEntry
<1>9. replies' \in [Queries -> Seq([to : STRING, resp : Response])]
  <2>1. CASE replies' = replies
    BY <2>1 DEF TypeOK
  <2>2. ASSUME NEW q \in Queries, NEW r \in Response, Sent(q, r)
        PROVE  replies' \in [Queries -> Seq([to : STRING, resp : Response])]
    BY <2>2, SentReply DEF Reply
  <2> QED
    BY <2>1, <2>2, Replied
<1>10. dropped' \subseteq Queries
  <2>1. ASSUME NEW d \in Datagrams, StripQuery(d)
        PROVE  dropped' \subseteq Queries
    <3>1. Len(asked) < MaxQueries /\ asked' = Append(asked, d)
          /\ dropped' \subseteq dropped \cup {Len(asked) + 1}
      BY <2>1 DEF StripQuery
    <3>2. Len(asked) + 1 \in Queries
      BY <3>1, Arrival
    <3> QED
      BY <3>1, <3>2 DEF TypeOK
  <2> QED
    BY <2>1 DEF TypeOK, Next, Tick, CacheHit, CacheMiss, MainStep, HitRecords,
       HitReplies, Join, JoinMisses, Register, FetchEnds, FetchOk, FetchErr, TaskStep, CachePut,
       Complete, Broadcast, RecvOk, RecvErr, Record, SendReply, vars
<1> QED
  BY <1>1, <1>2, <1>3, <1>4, <1>5, <1>6, <1>7, <1>8, <1>9, <1>10 DEF TypeOK

-----------------------------------------------------------------------------
(* What any step does to one query. *)

(* A question that was asked stays what it was. *)
LEMMA AskedStays ==
    ASSUME TypeOK, [Next]_vars
    PROVE  /\ Len(asked) \in Nat /\ Len(asked') \in Nat /\ Len(asked) <= Len(asked')
           /\ \A q \in Queries : q <= Len(asked) =>
                q <= Len(asked') /\ asked'[q] = asked[q] /\ cache_key(q)' = cache_key(q)
<1>0. Len(asked) \in Nat /\ \A q \in Queries : q \in Nat
  BY DohAssumption DEF TypeOK, Queries
<1>1. CASE asked' = asked
  BY <1>0, <1>1 DEF cache_key
<1>2. ASSUME NEW d \in Datagrams, Len(asked) < MaxQueries, asked' = Append(asked, d)
      PROVE  /\ Len(asked) \in Nat /\ Len(asked') \in Nat /\ Len(asked) <= Len(asked')
             /\ \A q \in Queries : q <= Len(asked) =>
                  q <= Len(asked') /\ asked'[q] = asked[q] /\ cache_key(q)' = cache_key(q)
  <2>1. Len(asked') = Len(asked) + 1
    BY <1>2, Arrival
  <2>2. \A q \in Queries : q <= Len(asked) =>
            asked'[q] = asked[q] /\ cache_key(q)' = cache_key(q)
    BY <1>2, Arrival
  <2> QED
    BY <1>0, <2>1, <2>2
<1> QED
  BY <1>1, <1>2 DEF Next, Tick, StripQuery, CacheHit, CacheMiss, MainStep, HitRecords,
     HitReplies, Join, JoinMisses, Register, FetchEnds, FetchOk, FetchErr, TaskStep, CachePut,
     Complete, Broadcast, RecvOk, RecvErr, Record, SendReply, vars

(* The step a task takes, if any. *)
Joins(q) == Join /\ main # Idle /\ main.q = q
Registers(q) == Register /\ main # Idle /\ main.q = q

Fetched(q, r) == Matches(r, q) /\ Honest(r)

Advances(q) ==
    LET old == tasks[q]
        new == tasks'[q]
    IN  \/ new = old
        \/ Registers(q) /\ old.pc = "none" /\ new.pc = "fetch"
        \/ Joins(q) /\ old.pc = "none" /\ new.pc = "recv" /\ new.of = in_flight[cache_key(q)]
        \/ /\ old.pc = "fetch" /\ new.pc \in {"put", "complete"}
           /\ new.pc = "put" \/ new.resp # NoResp => Fetched(q, new.resp)
           /\ new.pc = "put" => Fresh(new.resp) /\ new.resp.leader = q
        \/ CachePut(q) /\ old.pc = "put" /\ new.pc = "complete" /\ new.resp = old.resp
        \/ /\ Complete(q) /\ old.pc = "complete" /\ new.resp = old.resp
           /\ new.pc = IF old.resp = NoResp THEN "done" ELSE "send"
        \/ Broadcast(q) /\ old.pc = "send" /\ new.pc = "record" /\ new.resp = old.resp
        \/ /\ old.pc = "recv" /\ new.pc = "record" /\ Matches(new.resp, q)
           /\ channel[old.of] # NoResp /\ (Honest(channel[old.of]) => Honest(new.resp))
        \/ old.pc = "record" /\ new.pc = "record" /\ new.resp = old.resp
        \/ old.pc \in {"recv", "record"} /\ new.pc = "done"

(* A task changes by its own steps only, or as the main loop spawns it. *)
LEMMA OwnStep ==
    ASSUME TypeOK, NEW q \in Queries, [Next]_vars
    PROVE  tasks'[q] = tasks[q] \/ Joins(q) \/ Registers(q) \/ FetchEnds(q) \/ TaskStep(q)
<1>0. tasks \in [Queries -> Task]
  BY DEF TypeOK
<1>1. CASE Join \/ Register
  BY <1>0, <1>1 DEF Join, Register, Joins, Registers
<1>2. ASSUME NEW x \in Queries, x # q, FetchEnds(x)
      PROVE  tasks'[q] = tasks[q]
  BY <1>0, <1>2 DEF FetchEnds, FetchOk, FetchErr
<1>3. ASSUME NEW x \in Queries, x # q, TaskStep(x)
      PROVE  tasks'[q] = tasks[q]
  BY <1>0, <1>3 DEF TaskStep, CachePut, Complete, Broadcast, RecvOk, RecvErr, Record, SendReply
<1> QED
  BY <1>1, <1>2, <1>3 DEF Next, Tick, StripQuery, CacheHit, CacheMiss, MainStep,
     HitRecords, HitReplies, JoinMisses, vars

(* Every change of a task is one of those of Advances. *)
LEMMA TaskAdvances ==
    ASSUME TypeOK, Placed, Keyed, NEW q \in Queries, [Next]_vars
    PROVE  Advances(q)
<1>1. CASE tasks'[q] = tasks[q]
  BY <1>1 DEF Advances
<1>2. CASE Joins(q)
  <2> DEFINE o == in_flight[cache_key(q)]
  <2>1. Join /\ main # Idle /\ main.q = q /\ cache_key(q) \in DOMAIN in_flight
    BY <1>2 DEF Joins, Join
  <2>2. o \in Nat
    BY <2>1, DohAssumption DEF TypeOK, IsMap, Queries
  <2>3. PICK l \in BOOLEAN :
          tasks' = [tasks EXCEPT ![q] = [NoTask EXCEPT !.pc = "recv", !.of = o, !.late = l]]
    BY <2>1 DEF Join
  <2>4. tasks[q].pc = "none"
    BY <2>1, BusyMain
  <2> HIDE DEF o
  <2>5. Becomes(q, "recv", o, NoResp, << >>)
    BY <2>2, <2>3, Spawned
  <2> QED
    BY <1>2, <2>4, <2>5 DEF Becomes, Advances, o
<1>3. CASE Registers(q)
  <2>1. Register /\ main # Idle /\ main.q = q /\ q \in Nat /\ tasks[q].pc = "none"
    BY <1>3, BusyMain DEF Registers
  <2>2. Becomes(q, "fetch", q, NoResp, << >>)
    BY <2>1, Spawned DEF Register
  <2> QED
    BY <1>3, <2>1, <2>2 DEF Becomes, Advances
<1>4. CASE FetchEnds(q)
  <2>1. tasks[q].pc = "fetch"
    BY <1>4 DEF FetchEnds, FetchOk, FetchErr
  <2>2. q <= Len(asked)
    BY <2>1, BusyTask
  <2>3. ASSUME NEW a \in Answers, FetchOk(q, a)
        PROVE  Advances(q)
    <3>1. PICK r \in Response :
             /\ Becomes(q, IF a.ips # << >> THEN "put" ELSE "complete", tasks[q].of, r, a.ips)
             /\ Matches(r, q) /\ Fresh(r) /\ Honest(r) /\ r.leader = q
      BY <2>2, <2>3, FetchUpdates
    <3>2. tasks'[q].pc \in {"put", "complete"} /\ tasks'[q].resp = r
      BY <3>1 DEF Becomes
    <3>3. Fetched(q, r)
      BY <3>1 DEF Fetched
    <3> QED
      BY <2>1, <3>1, <3>2, <3>3 DEF Advances
  <2>4. ASSUME FetchErr(q)
        PROVE  Advances(q)
    <3>1. PICK r \in Response \cup {NoResp} :
             /\ Becomes(q, "complete", tasks[q].of, r, tasks[q].todo)
             /\ r # NoResp => Matches(r, q) /\ Honest(r)
      BY <2>2, <2>4, FetchUpdates
    <3>2. tasks'[q].pc = "complete" /\ tasks'[q].resp = r
      BY <3>1 DEF Becomes
    <3> QED
      BY <2>1, <3>1, <3>2 DEF Advances, Fetched
  <2> QED
    BY <1>4, <2>3, <2>4 DEF FetchEnds
<1>5. CASE CachePut(q)
  BY <1>5, Updates DEF Becomes, CachePut, Advances
<1>6. CASE Complete(q)
  <2>1. tasks[q].pc = "complete"
    BY <1>6 DEF Complete
  <2>2. Becomes(q, IF tasks[q].resp = NoResp THEN "done" ELSE "send",
                tasks[q].of, tasks[q].resp, tasks[q].todo)
    BY <1>6, Updates
  <2> QED
    BY <1>6, <2>1, <2>2 DEF Becomes, Advances
<1>7. CASE Broadcast(q)
  BY <1>7, Updates DEF Becomes, Broadcast, Advances
<1>8. CASE Record(q)
  BY <1>8, Updates DEF Becomes, Record, Advances
<1>9. CASE RecvErr(q)
  BY <1>9, Updates DEF Becomes, RecvErr, Advances
<1>10. CASE SendReply(q)
  BY <1>10, Updates DEF Becomes, SendReply, Advances
<1>11. CASE RecvOk(q)
  <2>1. tasks[q].pc = "recv" /\ channel[tasks[q].of] # NoResp
    BY <1>11 DEF RecvOk, HasMessage
  <2>2. q <= Len(asked) /\ tasks[q].of \in Queries /\ channel[tasks[q].of].key = asked[q].key
    BY <2>1, BusyTask DEF Keyed
  <2>3. PICK r \in Response :
          /\ Becomes(q, "record", tasks[q].of, r, r.ips)
          /\ Matches(r, q)
          /\ Honest(channel[tasks[q].of]) => Honest(r)
    BY <1>11, <2>2, RecvUpdate
  <2> QED
    BY <2>1, <2>3 DEF Becomes, Advances
<1> QED
  BY <1>1, <1>2, <1>3, <1>4, <1>5, <1>6, <1>7, <1>8, <1>9, <1>10, <1>11, OwnStep DEF TaskStep

-----------------------------------------------------------------------------
(* Responses are kept for the question they answer. *)

(* What the main loop sends from the cache answers the query it holds. *)
LEMMA KeyedMain ==
    ASSUME TypeOK, Placed, Keyed, HonestTtl, [Next]_vars, main' # Idle, main'.pc = "hit"
    PROVE  Matches(main.resp, main.q)' /\ Honest(main.resp)'
<1>1. CASE UNCHANGED <<asked, main>>
  BY <1>1 DEF Keyed, HonestTtl, Matches, Honest
<1>2. CASE main = Idle /\ main' = Idle
  BY <1>2
<1>3. ASSUME NEW d \in Datagrams, CacheHit(d) \/ CacheMiss(d)
      PROVE  Matches(main.resp, main.q)' /\ Honest(main.resp)'
  <2>1. /\ Len(asked) < MaxQueries /\ asked' = Append(asked, d) /\ main'.q = Len(asked) + 1
        /\ main'.resp \in Response /\ main'.resp.id = d.id /\ main'.resp.key = d.key
        /\ Honest(main'.resp)
    BY <1>3, ArrivalUpdates
  <2>2. asked'[main'.q] = d
    BY <2>1, Arrival
  <2> QED
    BY <2>1, <2>2 DEF Matches, Honest
<1>4. CASE HitRecords \/ JoinMisses
  <2>1. main # Idle /\ UNCHANGED asked
    BY <1>4 DEF HitRecords, JoinMisses
  <2>2. main'.q = main.q /\ main'.resp = main.resp /\ HitRecords /\ main.pc = "hit"
    BY <1>4, <2>1, MainUpdates DEF HitRecords
  <2> QED
    BY <2>1, <2>2 DEF Keyed, HonestTtl, Matches, Honest
<1> QED
  BY <1>1, <1>2, <1>3, <1>4 DEF Next, Tick, StripQuery, MainStep, HitReplies,
     Join, Register, FetchEnds, FetchOk, FetchErr, TaskStep, CachePut,
     Complete, Broadcast, RecvOk, RecvErr, Record, SendReply, vars

(* What a task holds answers its query. *)
LEMMA KeyedTask ==
    ASSUME TypeOK, Placed, Keyed, HonestTtl, [Next]_vars, NEW q \in Queries, Held(q)'
    PROVE  Matches(tasks[q].resp, q)' /\ Honest(tasks[q].resp)'
<1>1. Advances(q)
  BY TaskAdvances
<1>2. ASSUME q <= Len(asked), Matches(tasks'[q].resp, q)
      PROVE  Matches(tasks[q].resp, q)'
  BY <1>2, AskedStays DEF Matches
<1>3. tasks[q].pc # "none"
  BY <1>1 DEF Advances, Held
<1>4. tasks[q].pc # "done"
  BY <1>1 DEF Advances, Held
<1>5. q <= Len(asked)
  BY <1>3, <1>4, BusyTask
<1>6. CASE Held(q) /\ tasks'[q].resp = tasks[q].resp
  BY <1>2, <1>5, <1>6 DEF Keyed, HonestTtl, Honest
<1>7. CASE Matches(tasks'[q].resp, q) /\ Honest(tasks'[q].resp)
  BY <1>2, <1>5, <1>7 DEF Honest
<1>8. CASE tasks[q].pc = "recv"
  <2>1. /\ Matches(tasks'[q].resp, q)
        /\ channel[tasks[q].of] # NoResp /\ (Honest(channel[tasks[q].of]) => Honest(tasks'[q].resp))
    BY <1>1, <1>8 DEF Advances, Held
  <2>2. Honest(channel[tasks[q].of])
    BY <1>8, <2>1 DEF Keyed, HonestTtl
  <2> QED
    BY <1>7, <2>1, <2>2
<1> QED
  BY <1>1, <1>6, <1>7, <1>8 DEF Advances, Held, Fetched

(* Every step keeps responses with the questions they answer. *)
LEMMA KeyedStep == TypeOK /\ Placed /\ Keyed /\ HonestTtl /\ [Next]_vars => Keyed'
<1> SUFFICES ASSUME TypeOK, Placed, Keyed, HonestTtl, [Next]_vars
             PROVE  Keyed'
  OBVIOUS
<1>1. (main # Idle /\ main.pc = "hit" => Matches(main.resp, main.q))'
  BY KeyedMain DEF Matches
<1>2. (\A q \in Queries : Held(q) => Matches(tasks[q].resp, q))'
  BY KeyedTask
<1>3. \A k \in DOMAIN cache' : cache'[k].response.key = k
  <2>1. CASE cache' = cache
    BY <2>1 DEF Keyed
  <2>2. ASSUME NEW q \in Queries, CachePut(q)
        PROVE  \A k \in DOMAIN cache' : cache'[k].response.key = k
    <3>1. tasks[q].pc = "put"
      BY <2>2 DEF CachePut
    <3>2. tasks[q].resp.key = cache_key(q)
      BY <3>1 DEF Keyed, Held, Matches, cache_key
    <3> QED
      BY <2>2, <3>2, CacheInsert DEF Keyed
  <2> QED
    BY <2>1, <2>2 DEF Next, Tick, StripQuery, CacheHit, CacheMiss, MainStep, HitRecords,
       HitReplies, Join, JoinMisses, Register, FetchEnds, FetchOk, FetchErr, TaskStep,
       Complete, Broadcast, RecvOk, RecvErr, Record, SendReply, vars
<1>4. \A k \in DOMAIN in_flight' :
         in_flight'[k] <= Len(asked') /\ asked'[in_flight'[k]].key = k
  <2>1. \A k \in DOMAIN in_flight :
           /\ in_flight[k] \in Queries
           /\ in_flight[k] <= Len(asked') /\ asked'[in_flight[k]].key = k
    BY AskedStays DEF Keyed, TypeOK, IsMap
  <2>2. CASE in_flight' = in_flight
    BY <2>1, <2>2
  <2>3. CASE Register
    <3>1. /\ main # Idle /\ in_flight' = Put(in_flight, cache_key(main.q), main.q)
          /\ UNCHANGED asked
      BY <2>3 DEF Register
    <3>2. main.q = Len(asked) /\ main.q \in Nat
      BY <3>1, BusyMain
    <3> QED
      BY <2>1, <3>1, <3>2 DEF Put, cache_key
  <2>4. ASSUME NEW q \in Queries, Complete(q)
        PROVE  \A k \in DOMAIN in_flight' :
                  in_flight'[k] <= Len(asked') /\ asked'[in_flight'[k]].key = k
    BY <2>1, <2>4 DEF Complete, Restrict
  <2> QED
    BY <2>2, <2>3, <2>4 DEF Next, Tick, StripQuery, CacheHit, CacheMiss, MainStep, HitRecords,
       HitReplies, Join, JoinMisses, FetchEnds, FetchOk, FetchErr, TaskStep, CachePut,
       Broadcast, RecvOk, RecvErr, Record, SendReply, vars
<1>5. ASSUME NEW q \in Queries, tasks'[q].pc = "recv"
      PROVE  /\ tasks'[q].of \in Queries /\ tasks'[q].of <= Len(asked')
             /\ asked'[tasks'[q].of].key = asked'[q].key
  <2>1. CASE tasks'[q] = tasks[q]
    <3>1. /\ tasks[q].of \in Queries /\ tasks[q].of <= Len(asked) /\ q <= Len(asked)
          /\ asked[tasks[q].of].key = asked[q].key
      BY <1>5, <2>1, BusyTask DEF Keyed
    <3> QED
      BY <2>1, <3>1, AskedStays
  <2>2. CASE Joins(q) /\ tasks'[q].of = in_flight[cache_key(q)]
    <3>1. /\ cache_key(q) \in DOMAIN in_flight /\ UNCHANGED asked
      BY <2>2 DEF Joins, Join
    <3>2. in_flight[cache_key(q)] \in Queries
      BY <3>1 DEF TypeOK, IsMap
    <3> QED
      BY <2>2, <3>1, <3>2 DEF Keyed, cache_key
  <2> QED
    BY <1>5, <2>1, <2>2, TaskAdvances DEF Advances
<1>6. ASSUME NEW q \in Queries, channel'[q] # NoResp
      PROVE  q <= Len(asked') /\ channel'[q].key = asked'[q].key
  <2>1. CASE channel'[q] = channel[q]
    BY <1>6, <2>1, AskedStays DEF Keyed
  <2>2. CASE Broadcast(q)
    <3>1. tasks[q].pc = "send" /\ channel'[q] = tasks[q].resp
      BY <2>2 DEF Broadcast, TypeOK
    <3>2. q <= Len(asked) /\ tasks[q].resp.key = asked[q].key
      BY <3>1, BusyTask DEF Keyed, Held, Matches
    <3> QED
      BY <3>1, <3>2, AskedStays
  <2>3. ASSUME NEW x \in Queries, x # q, Broadcast(x)
        PROVE  channel'[q] = channel[q]
    BY <2>3 DEF Broadcast, TypeOK
  <2> QED
    BY <2>1, <2>2, <2>3 DEF Next, Tick, StripQuery, CacheHit, CacheMiss, MainStep, HitRecords,
       HitReplies, Join, JoinMisses, Register, FetchEnds, FetchOk, FetchErr, TaskStep, CachePut,
       Complete, RecvOk, RecvErr, Record, SendReply, vars
<1> QED
  BY <1>1, <1>2, <1>3, <1>4, <1>5, <1>6 DEF Keyed

-----------------------------------------------------------------------------
(* One leader per key. *)

(* What a step does to the in-flight map and to the cache. *)
LEMMA InFlightSteps ==
    ASSUME TypeOK, [Next]_vars
    PROVE  \/ in_flight' = in_flight
           \/ /\ Register /\ main # Idle /\ Registers(main.q)
              /\ in_flight' = Put(in_flight, cache_key(main.q), main.q)
           \/ \E q \in Queries :
                 Complete(q) /\ in_flight' = Restrict(in_flight, DOMAIN in_flight \ {cache_key(q)})
BY DEF Next, Tick, StripQuery, CacheHit, CacheMiss, MainStep, HitRecords, HitReplies, Join,
   JoinMisses, Register, Registers, FetchEnds, FetchOk, FetchErr, TaskStep, CachePut, Complete,
   Broadcast, RecvOk, RecvErr, Record, SendReply, vars

(* Only CachePut changes the cache. *)
LEMMA CacheSteps ==
    ASSUME [Next]_vars
    PROVE  cache' = cache \/ \E q \in Queries : CachePut(q)
BY DEF Next, Tick, StripQuery, CacheHit, CacheMiss, MainStep, HitRecords, HitReplies, Join,
   JoinMisses, Register, FetchEnds, FetchOk, FetchErr, TaskStep, Complete,
   Broadcast, RecvOk, RecvErr, Record, SendReply, vars

(* Two leaders never have the same key. *)
LEMMA LeadersDiffer ==
    ASSUME Exclusive, NEW p \in Queries, NEW q \in Queries, Leads(p), Leads(q),
           cache_key(p) = cache_key(q)
    PROVE  p = q
BY DEF Exclusive

(* Every step keeps one leader per key, and cached responses behind it. *)
LEMMA ExclusiveStep ==
    TypeOK /\ Placed /\ Keyed /\ HonestTtl /\ Exclusive /\ [Next]_vars => Exclusive'
<1> SUFFICES ASSUME TypeOK, Placed, Keyed, HonestTtl, Exclusive, [Next]_vars
             PROVE  Exclusive'
  OBVIOUS
<1>0. \A q \in Queries : Advances(q)
  BY TaskAdvances
<1>1. (main # Idle /\ main.pc = "register" => cache_key(main.q) \notin DOMAIN in_flight)'
  <2> SUFFICES ASSUME main' # Idle, main'.pc = "register"
               PROVE  cache_key(main.q)' \notin DOMAIN in_flight'
    OBVIOUS
  <2>1. CASE UNCHANGED <<main, asked>> /\ ~Register
    <3>1. cache_key(main.q) \notin DOMAIN in_flight /\ cache_key(main.q)' = cache_key(main.q)
      BY <2>1 DEF Exclusive, cache_key
    <3>2. DOMAIN in_flight' \subseteq DOMAIN in_flight
      BY <2>1, InFlightSteps DEF Restrict
    <3> QED
      BY <3>1, <3>2
  <2>2. CASE JoinMisses
    <3>1. /\ main # Idle /\ cache_key(main.q) \notin DOMAIN in_flight
          /\ UNCHANGED <<in_flight, asked>>
      BY <2>2 DEF JoinMisses
    <3> QED
      BY <2>2, <3>1, MainUpdates DEF cache_key
  <2>3. ASSUME NEW d \in Datagrams, CacheHit(d) \/ CacheMiss(d)
        PROVE  FALSE
    BY <2>3, ArrivalUpdates
  <2>4. CASE HitRecords
    <3>1. main # Idle
      BY <2>4 DEF HitRecords
    <3> QED
      BY <2>4, <3>1, MainUpdates
  <2> QED
    BY <2>1, <2>2, <2>3, <2>4 DEF Next, Tick, StripQuery, MainStep, HitReplies,
       Join, Register, FetchEnds, FetchOk, FetchErr, TaskStep, CachePut,
       Complete, Broadcast, RecvOk, RecvErr, Record, SendReply, vars
<1>2. ASSUME NEW q \in Queries, Leads(q)'
      PROVE  cache_key(q)' \in DOMAIN in_flight' /\ in_flight'[cache_key(q)'] = q
  <2>1. CASE Registers(q)
    <3>1. UNCHANGED asked /\ in_flight' = Put(in_flight, cache_key(q), q)
      BY <2>1 DEF Registers, Register
    <3> QED
      BY <3>1 DEF Put, cache_key
  <2>2. CASE Leads(q)
    <3>1. cache_key(q) \in DOMAIN in_flight /\ in_flight[cache_key(q)] = q
      BY <2>2 DEF Exclusive
    <3>2. cache_key(q)' = cache_key(q)
      BY <2>2, BusyTask, AskedStays DEF Leads
    <3>3. CASE in_flight' = in_flight
      BY <3>1, <3>2, <3>3
    <3>4. CASE /\ Register /\ main # Idle
               /\ in_flight' = Put(in_flight, cache_key(main.q), main.q)
      <4>1. main.pc = "register"
        BY <3>4 DEF Register
      <4>2. cache_key(main.q) # cache_key(q)
        BY <3>1, <3>4, <4>1 DEF Exclusive
      <4> QED
        BY <3>1, <3>2, <3>4, <4>2 DEF Put
    <3>5. ASSUME NEW x \in Queries, Complete(x),
                 in_flight' = Restrict(in_flight, DOMAIN in_flight \ {cache_key(x)})
          PROVE  cache_key(q)' \in DOMAIN in_flight' /\ in_flight'[cache_key(q)'] = q
      <4>1. Leads(x)
        BY <3>5 DEF Complete, Leads
      <4>2. x # q
        BY <1>2, <3>5, Updates DEF Becomes, Leads
      <4>3. cache_key(x) # cache_key(q)
        BY <2>2, <4>1, <4>2, LeadersDiffer
      <4> QED
        BY <3>1, <3>2, <3>5, <4>3 DEF Restrict
    <3> QED
      BY <3>3, <3>4, <3>5, InFlightSteps
  <2> QED
    BY <1>0, <1>2, <2>1, <2>2 DEF Advances, Leads
<1>3. ASSUME NEW k \in DOMAIN cache'
      PROVE  LET l == cache'[k].response.leader
             IN  l \in Queries /\ l <= Len(asked') /\ tasks'[l].pc \notin {"none", "fetch", "put"}
  <2> DEFINE l == cache'[k].response.leader
  <2>1. CASE k \in DOMAIN cache /\ cache'[k] = cache[k]
    <3>1. l \in Queries /\ l <= Len(asked) /\ tasks[l].pc \notin {"none", "fetch", "put"}
      BY <2>1 DEF Exclusive
    <3> HIDE DEF l
    <3>2. tasks'[l].pc \notin {"none", "fetch", "put"}
      BY <1>0, <3>1 DEF Advances
    <3>3. l <= Len(asked')
      BY <3>1, AskedStays
    <3> QED
      BY <3>1, <3>2, <3>3 DEF l
  <2>2. ASSUME NEW q \in Queries, CachePut(q), k = cache_key(q)
        PROVE  l \in Queries /\ l <= Len(asked') /\ tasks'[l].pc \notin {"none", "fetch", "put"}
    <3>1. tasks[q].pc = "put"
      BY <2>2 DEF CachePut
    <3>2. cache'[k].response = tasks[q].resp
      BY <2>2, CacheInsert
    <3>3. l = q
      BY <3>1, <3>2 DEF Exclusive
    <3>4. q <= Len(asked')
      BY <3>1, BusyTask, AskedStays
    <3>5. tasks'[q].pc = "complete"
      BY <2>2, Updates DEF Becomes
    <3> QED
      BY <3>3, <3>4, <3>5
  <2>3. ASSUME NEW q \in Queries, CachePut(q), k # cache_key(q)
        PROVE  k \in DOMAIN cache /\ cache'[k] = cache[k]
    BY <2>3, CacheInsert
  <2> QED
    BY <2>1, <2>2, <2>3, CacheSteps
<1>4. ASSUME NEW q \in Queries, tasks'[q].pc \in {"fetch", "put"}, cache_key(q)' \in DOMAIN cache'
      PROVE  cache'[cache_key(q)'].response.leader < q
  <2>1. \/ tasks[q].pc \in {"fetch", "put"}
        \/ Registers(q) /\ tasks[q].pc = "none"
    BY <1>0, <1>4 DEF Advances
  <2>2. CASE Registers(q) /\ tasks[q].pc = "none"
    <3>1. UNCHANGED <<asked, cache>> /\ main # Idle /\ main.q = q
      BY <2>2 DEF Registers, Register
    <3>2. q = Len(asked) /\ q \in Nat
      BY <3>1, BusyMain
    <3> DEFINE l == cache[cache_key(q)].response.leader
    <3>3. l \in Queries /\ l <= Len(asked) /\ tasks[l].pc # "none"
      BY <1>4, <3>1 DEF Exclusive, cache_key
    <3>4. l \in Nat /\ l # q
      BY <2>2, <3>3, DohAssumption DEF Queries
    <3>5. l < q
      BY <3>2, <3>3, <3>4
    <3> QED
      BY <3>1, <3>5 DEF cache_key
  <2>3. CASE tasks[q].pc \in {"fetch", "put"}
    <3>1. cache_key(q)' = cache_key(q) /\ Leads(q)
      BY <2>3, BusyTask, AskedStays DEF Leads
    <3>2. CASE cache' = cache
      BY <1>4, <2>3, <3>1, <3>2 DEF Exclusive
    <3>3. ASSUME NEW x \in Queries, CachePut(x)
          PROVE  cache'[cache_key(q)'].response.leader < q
      <4>1. x # q
        BY <1>4, <3>3, Updates DEF Becomes
      <4>2. Leads(x)
        BY <3>3 DEF CachePut, Leads
      <4>3. cache_key(q) # cache_key(x)
        BY <3>1, <4>1, <4>2, LeadersDiffer
      <4>4. cache_key(q) \in DOMAIN cache /\ cache'[cache_key(q)] = cache[cache_key(q)]
        BY <1>4, <3>1, <3>3, <4>3, CacheInsert
      <4> QED
        BY <2>3, <3>1, <4>4 DEF Exclusive
    <3> QED
      BY <3>2, <3>3, CacheSteps
  <2> QED
    BY <2>1, <2>2, <2>3
<1>5. ASSUME NEW q \in Queries, tasks'[q].pc = "put"
      PROVE  tasks'[q].resp.leader = q
  BY <1>0, <1>5 DEF Advances, Exclusive
<1> QED
  BY <1>1, <1>2, <1>3, <1>4, <1>5 DEF Exclusive

-----------------------------------------------------------------------------
(* No response outlives its grant. *)
LEMMA HonestTtlStep ==
    TypeOK /\ Placed /\ Keyed /\ HonestTtl /\ [Next]_vars => HonestTtl'
<1> SUFFICES ASSUME TypeOK, Placed, Keyed, HonestTtl, [Next]_vars
             PROVE  HonestTtl'
  OBVIOUS
<1>0. now \in Nat /\ now' \in Nat /\ now <= now'
  <2>1. now \in Nat
    BY DEF TypeOK
  <2>2. now' = now \/ now' = now + 1
    BY DEF Next, Tick, StripQuery, CacheHit, CacheMiss, MainStep, HitRecords, HitReplies,
       Join, JoinMisses, Register, FetchEnds, FetchOk, FetchErr, TaskStep, CachePut, Complete,
       Broadcast, RecvOk, RecvErr, Record, SendReply, vars
  <2> QED
    BY <2>1, <2>2
<1>1. (main # Idle /\ main.pc = "hit" => Honest(main.resp))'
  BY KeyedMain
<1>2. (\A q \in Queries : Held(q) => Honest(tasks[q].resp))'
  BY KeyedTask
<1>3. ASSUME NEW q \in Queries, channel'[q] # NoResp
      PROVE  Honest(channel'[q])
  <2>1. CASE channel'[q] = channel[q]
    BY <1>3, <2>1 DEF HonestTtl
  <2>2. CASE Broadcast(q)
    <3>1. tasks[q].pc = "send" /\ channel'[q] = tasks[q].resp
      BY <2>2 DEF Broadcast, TypeOK
    <3> QED
      BY <3>1 DEF HonestTtl, Held
  <2>3. ASSUME NEW x \in Queries, x # q, Broadcast(x)
        PROVE  channel'[q] = channel[q]
    BY <2>3 DEF Broadcast, TypeOK
  <2> QED
    BY <2>1, <2>2, <2>3 DEF Next, Tick, StripQuery, CacheHit, CacheMiss, MainStep, HitRecords,
       HitReplies, Join, JoinMisses, Register, FetchEnds, FetchOk, FetchErr, TaskStep, CachePut,
       Complete, RecvOk, RecvErr, Record, SendReply, vars
<1>4. ASSUME NEW q \in Queries, tasks'[q].pc = "put"
      PROVE  Fresh(tasks'[q].resp)
  BY <1>4, TaskAdvances DEF Advances, HonestTtl
<1>5. ASSUME NEW k \in DOMAIN cache'
      PROVE  /\ Fresh(cache'[k].response) /\ cache'[k].inserted <= now'
             /\ cache'[k].expires = cache'[k].inserted + cache_ttl(cache'[k].response.ttl)
  <2>1. CASE k \in DOMAIN cache /\ cache'[k] = cache[k]
    <3>1. cache[k].inserted \in Nat
      BY <2>1 DEF TypeOK, IsMap
    <3>2. cache[k].inserted <= now'
      BY <1>0, <2>1, <3>1 DEF HonestTtl
    <3> QED
      BY <2>1, <3>2 DEF HonestTtl
  <2>2. ASSUME NEW q \in Queries, CachePut(q), k = cache_key(q)
        PROVE  /\ Fresh(cache'[k].response) /\ cache'[k].inserted <= now'
               /\ cache'[k].expires = cache'[k].inserted + cache_ttl(cache'[k].response.ttl)
    <3>1. tasks[q].pc = "put"
      BY <2>2 DEF CachePut
    <3>2. /\ cache'[k].response = tasks[q].resp /\ cache'[k].inserted = now
          /\ cache'[k].expires = now + cache_ttl(tasks[q].resp.ttl)
      BY <2>2, CacheInsert
    <3> QED
      BY <1>0, <3>1, <3>2 DEF HonestTtl
  <2>3. ASSUME NEW q \in Queries, CachePut(q), k # cache_key(q)
        PROVE  k \in DOMAIN cache /\ cache'[k] = cache[k]
    BY <2>3, CacheInsert
  <2> QED
    BY <2>1, <2>2, <2>3, CacheSteps
<1>6. TruthfulTtl'
  <2>1. CASE replies' = replies
    BY <2>1 DEF HonestTtl, TruthfulTtl
  <2>2. ASSUME NEW q \in Queries, NEW r \in Response, Sent(q, r)
        PROVE  TruthfulTtl'
    <3>1. PICK x \in Reply :
            /\ x.resp = r /\ replies'[q] = <<x>>
            /\ \A p \in Queries : p # q => replies'[p] = replies[p]
      BY <2>2, SentReply
    <3>2. DOMAIN replies'[q] = {1} /\ replies'[q][1].resp = r
      BY <3>1
    <3>3. Honest(r)
      BY <2>2 DEF Sent
    <3> QED
      BY <3>1, <3>2, <3>3 DEF HonestTtl, TruthfulTtl, Honest
  <2> QED
    BY <2>1, <2>2, Replied
<1> QED
  BY <1>1, <1>2, <1>3, <1>4, <1>5, <1>6 DEF HonestTtl

-----------------------------------------------------------------------------
(* The inductive invariant. *)
Inv == TypeOK /\ Placed /\ Keyed /\ Exclusive /\ HonestTtl

(* The listener starts in the inductive invariant. *)
LEMMA InitInv == Init => Inv
<1> SUFFICES ASSUME Init
             PROVE  Inv
  OBVIOUS
<1>0. MaxQueries \in Nat /\ \A q \in Queries : q \in Nat
  BY DohAssumption DEF Queries
<1>1. NoTask \in Task /\ NoTask.pc = "none"
  BY DEF NoTask, Task
<1>2. /\ asked = << >> /\ Len(asked) = 0 /\ main = Idle /\ now = 0
      /\ tasks = [q \in Queries |-> NoTask] /\ cache = << >> /\ in_flight = << >>
      /\ channel = [q \in Queries |-> NoResp] /\ table = << >>
      /\ replies = [q \in Queries |-> << >>] /\ dropped = {}
  BY DEF Init
<1>3. DOMAIN cache = {} /\ DOMAIN in_flight = {} /\ DOMAIN table = {}
  BY <1>2
<1>4. TypeOK
  <2>1. IsMap(cache, Key, [response : Response, inserted : Nat, expires : Nat])
    BY <1>2, <1>3 DEF IsMap
  <2>2. IsMap(in_flight, Key, Queries)
    BY <1>2, <1>3 DEF IsMap
  <2>3. IsMap(table, Ips, [name : Names, expires : Nat])
    BY <1>2, <1>3 DEF IsMap
  <2>4. asked \in Seq(Datagrams) /\ Len(asked) <= MaxQueries
    BY <1>0, <1>2
  <2>5. replies \in [Queries -> Seq([to : STRING, resp : Response])]
    BY <1>2
  <2> QED
    BY <1>1, <1>2, <2>1, <2>2, <2>3, <2>4, <2>5 DEF TypeOK
<1>5. Placed
  BY <1>1, <1>2 DEF Placed
<1>6. Keyed
  BY <1>1, <1>2, <1>3 DEF Keyed, Held
<1>7. Exclusive
  BY <1>1, <1>2, <1>3 DEF Exclusive, Leads
<1>8. HonestTtl
  BY <1>1, <1>2, <1>3 DEF HonestTtl, TruthfulTtl, Held
<1> QED
  BY <1>4, <1>5, <1>6, <1>7, <1>8 DEF Inv

(* The inductive invariant holds in every behaviour of the listener. *)
THEOREM InvAlways == Spec => []Inv
<1>1. Inv /\ [Next]_vars => Inv'
  BY TypedStep, PlacedStep, KeyedStep, ExclusiveStep, HonestTtlStep DEF Inv
<1> QED
  BY <1>1, InitInv, PTL DEF Spec

(* The variables of the listener keep their types: every task, cache entry,
   registration and broadcast is one the code could hold (run_doh). *)
THEOREM TypeCorrect == Spec => []TypeOK
<1>1. Inv => TypeOK
  BY DEF Inv
<1> QED
  BY <1>1, InvAlways, PTL

(* Whatever the age at which the cache replays a response, and whoever else it
   is broadcast to, no client is told to believe an answer for longer than the
   server granted or, for an answer granted less, than the MIN_TTL the cache
   keeps it for (rewrite_ttls, DnsCache::get and put). *)
THEOREM TruthfulTtlAlways == Spec => []TruthfulTtl
<1>1. Inv => TruthfulTtl
  BY DEF Inv, HonestTtl
<1> QED
  BY <1>1, InvAlways, PTL

(* A cached response is only ever replaced by one that a later request fetched:
   the coalescer lets one leader per key run at a time, and it puts before it
   completes (DnsCache::put, QueryCoalescer::complete). *)
THEOREM CacheMovesForwardAlways == Spec => CacheMovesForward
<1>1. ASSUME Inv, [Next]_vars, NEW k \in DOMAIN cache \cap DOMAIN cache', cache'[k] # cache[k]
      PROVE  cache'[k].response.leader > cache[k].response.leader
  <2>1. PICK q \in Queries : CachePut(q)
    BY <1>1, CacheSteps
  <2>2. tasks[q].pc = "put"
    BY <2>1 DEF CachePut
  <2>3. k = cache_key(q) /\ cache'[k].response = tasks[q].resp
    BY <1>1, <2>1, CacheInsert DEF Inv
  <2>4. tasks[q].resp.leader = q /\ cache[k].response.leader < q
    BY <1>1, <2>2, <2>3 DEF Inv, Exclusive
  <2>5. q \in Nat /\ cache[k].response.leader \in Nat
    BY <1>1, <2>2, DohAssumption DEF Inv, Exclusive, Queries
  <2> QED
    BY <2>3, <2>4, <2>5
<1>2. Inv /\ [Next]_vars =>
        [\A k \in DOMAIN cache \cap DOMAIN cache' :
           cache'[k] # cache[k] => cache'[k].response.leader > cache[k].response.leader]_vars
  BY <1>1
<1> QED
  BY <1>2, InvAlways, PTL DEF Spec, CacheMovesForward

-----------------------------------------------------------------------------
(* The listener is a query service: every step of it is a step of the service,
   or none. *)
LEMMA ServiceStep == Inv /\ [Next]_vars => [Service!Next]_(Service!vars)
<1> SUFFICES ASSUME Inv, [Next]_vars
             PROVE  Service!Next \/ UNCHANGED <<asked, replies, dropped>>
  BY DEF Service!vars
<1> USE DEF Inv
<1>0. /\ Len(asked) \in Nat /\ MaxQueries \in Nat /\ DOMAIN replies = Queries
      /\ \A q \in Queries : q \in Nat /\ q >= 1
  BY DohAssumption DEF TypeOK, Queries
<1>1. UNCHANGED asked \/ \E d \in Datagrams : asked' = Append(asked, d)
  BY DEF Next, Tick, StripQuery, CacheHit, CacheMiss, MainStep, HitRecords,
     HitReplies, Join, JoinMisses, Register, FetchEnds, FetchOk, FetchErr, TaskStep, CachePut,
     Complete, Broadcast, RecvOk, RecvErr, Record, SendReply, vars
<1>2. \A q \in Queries : q <= Len(asked') => q \in DOMAIN asked'
  BY <1>0, TypedStep DEF TypeOK
<1>3. ASSUME NEW q \in Queries, NEW r \in Response, Sent(q, r), dropped' = dropped
      PROVE  Service!Next
  <2>1. PICK x \in Reply :
          /\ x.to = asked'[q].client /\ x.resp = r
          /\ replies' \in [Queries -> Seq(Reply)]
          /\ replies'[q] = <<x>>
          /\ \A p \in Queries : p # q => replies'[p] = replies[p]
    BY <1>3, SentReply
  <2>2. Len(replies'[q]) = 1 /\ replies'[q][1] = x
    BY <2>1
  <2>3. AnswersIt(x, asked'[q])
    BY <1>3, <2>1 DEF Sent, AnswersIt
  <2>4. ~Service!Settled(q) /\ q \in DOMAIN asked'
    BY <1>2, <1>3 DEF Sent, Service!Settled
  <2>5. DOMAIN replies' = DOMAIN replies
    BY <1>0, <2>1
  <2>6. Service!Answer(q)
    BY <1>0, <2>1, <2>2, <2>3, <2>4, <2>5 DEF Service!Answer
  <2> QED
    BY <1>0, <1>1, <1>3, <2>6 DEF Service!Next
<1>4. ASSUME replies' = replies, dropped' # dropped
      PROVE  Service!Next
  <2>1. PICK q \in Queries : /\ dropped' = dropped \cup {q} /\ q \notin dropped
                             /\ replies[q] = << >> /\ q <= Len(asked')
    <3>1. ASSUME NEW d \in Datagrams, StripQuery(d)
          PROVE  \E q \in Queries : /\ dropped' = dropped \cup {q} /\ q \notin dropped
                                    /\ replies[q] = << >> /\ q <= Len(asked')
      <4> DEFINE n == Len(asked) + 1
      <4>1. Len(asked) < MaxQueries /\ asked' = Append(asked, d) /\ dropped' = dropped \cup {n}
        BY <1>4, <3>1 DEF StripQuery
      <4>2. n \in Queries /\ n > Len(asked) /\ n <= Len(asked')
        BY <4>1, Arrival
      <4> HIDE DEF n
      <4>3. n \notin dropped /\ replies[n] = << >>
        BY <4>2 DEF Placed
      <4> QED
        BY <4>1, <4>2, <4>3
    <3>2. ASSUME NEW q \in Queries, Complete(q) \/ RecvErr(q)
          PROVE  /\ dropped' = dropped \cup {q} /\ q \notin dropped
                 /\ replies[q] = << >> /\ q <= Len(asked')
      <4>1. tasks[q].pc \in {"complete", "recv"} /\ UNCHANGED asked /\ dropped' = dropped \cup {q}
        BY <1>4, <3>2 DEF Complete, RecvErr
      <4> QED
        BY <4>1, BusyTask
    <3> QED
      BY <1>4, <3>1, <3>2 DEF Next, Tick, CacheHit, CacheMiss, MainStep, HitRecords,
         HitReplies, Join, JoinMisses, Register, FetchEnds, FetchOk, FetchErr, TaskStep, CachePut,
         Broadcast, RecvOk, Record, SendReply, vars
  <2>2. Service!GiveUp
    BY <1>2, <2>1 DEF Service!GiveUp, Service!Settled
  <2> QED
    BY <1>1, <1>4, <2>2 DEF Service!Next
<1>5. CASE UNCHANGED <<replies, dropped>>
  BY <1>1, <1>5 DEF Service!Next, Service!Ask
<1> QED
  BY <1>3, <1>4, <1>5, Replied

(* Although responses are shared between clients by the cache and by the
   coalescer, every client gets an answer to its own question, under its own id
   and at its own address, at most once, and none once it was given up: the
   listener implements the abstract query service (run_doh). *)
THEOREM ImplementsServiceAlways == Spec => ImplementsService
<1>1. Init => Service!Init
  BY DEF Init, Service!Init
<1>2. Inv /\ [Next]_vars => [Service!Next]_(Service!vars)
  BY ServiceStep
<1> QED
  BY <1>1, <1>2, InvAlways, PTL DEF Spec, ImplementsService, Service!Spec
=============================================================================
