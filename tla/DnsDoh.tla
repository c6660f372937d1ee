------------------------------- MODULE DnsDoh -------------------------------
(***************************************************************************)
(* The UDP listener of the DNS forwarder with a DNS-over-HTTPS upstream:   *)
(* run_doh, DnsCache and QueryCoalescer of src/dns.rs.                     *)
(*                                                                         *)
(* One main loop receives client queries.  A query is served from the      *)
(* cache, or joins the request already in flight for the same question (a  *)
(* follower task that waits on a broadcast channel), or registers itself   *)
(* and spawns a leader task that asks the DoH server.  Main loop, leaders  *)
(* and followers interleave at every lock and await; the cache, the        *)
(* in-flight map and the IP -> name table are shared between them.         *)
(*                                                                         *)
(* The q-th client datagram owns tasks[q] and, when it becomes a leader,   *)
(* the channel channel[q].                                                 *)
(***************************************************************************)
EXTENDS DnsMaps, Sequences

CONSTANTS
    Names,        \* query names; the code uses "" when none is parsed
    Ips,
    Datagrams,    \* the client queries considered
    Answers,      \* what a DoH response body may carry: [ips, ttl]
    StripAaaa,    \* --dns-strip-aaaa
    Idle, NoResp, \* distinguished values
    MaxQueries,   \* bound: client datagrams in a behaviour
    MaxTime       \* bound: last instant of the model's clock

VARIABLES
    now,
    asked,      \* every client datagram so far
    main,       \* what the main loop holds between two of its steps, or Idle
    tasks,      \* the task spawned for each datagram
    cache,      \* DnsCache.entries
    in_flight,  \* QueryCoalescer.in_flight: key -> the leader that registered it
    channel,    \* what has been broadcast on each leader's channel, or NoResp
    table,      \* the shared IP -> name table
    replies,    \* what was sent to the client for each element of asked
    dropped     \* auxiliary: queries given up without an answer

vars == <<now, asked, main, tasks, cache, in_flight, channel, table, replies, dropped>>

-----------------------------------------------------------------------------
(***************************************************************************)
(* A cache key is the whole query with its transaction id zeroed; what the *)
(* code reads from it is its name, whether it asks for AAAA, and whether   *)
(* build_empty_response can walk its question section.                     *)
(***************************************************************************)
Key == [name : Names, aaaa : BOOLEAN, echoes : BOOLEAN]

Datagram == [client : STRING, id : Nat, key : Key]

(***************************************************************************)
(* A response and the question it answers.  `leader`, `granted` and `age`  *)
(* are auxiliary: the query whose request fetched it, the TTL the server   *)
(* gave, and the time it had spent in the cache when it was replayed.      *)
(***************************************************************************)
Response == [id : Nat, key : Key, ips : Seq(Ips), ttl : Nat \cup {NoTtl},
             leader : Nat, granted : Nat \cup {NoTtl}, age : Nat]

ASSUME DohAssumption ==
    /\ Datagrams \subseteq Datagram
    /\ Answers \subseteq [ips : Seq(Ips), ttl : Nat \cup {NoTtl}]
    /\ StripAaaa \in BOOLEAN
    /\ MaxQueries \in Nat /\ MaxTime \in Nat

Queries == 1..MaxQueries

cache_key(q) == asked[q].key

Task == [pc : {"none", "fetch", "put", "complete", "send", "recv", "record", "done"},
         of : Nat,                        \* the leader waited for, or itself
         late : BOOLEAN,                  \* subscribed after the broadcast
         resp : Response \cup {NoResp},
         todo : Seq(Ips)]

NoTask == [pc |-> "none", of |-> 0, late |-> FALSE, resp |-> NoResp, todo |-> << >>]

-----------------------------------------------------------------------------
Init ==
    /\ now = 0
    /\ asked = << >>
    /\ main = Idle
    /\ tasks = [q \in Queries |-> NoTask]
    /\ cache = << >>
    /\ in_flight = << >>
    /\ channel = [q \in Queries |-> NoResp]
    /\ table = << >>
    /\ replies = [q \in Queries |-> << >>]
    /\ dropped = {}

Tick ==
    /\ now < MaxTime
    /\ now' = now + 1
    /\ UNCHANGED <<asked, main, tasks, cache, in_flight, channel, table, replies, dropped>>

SendTo(q, resp) ==
    replies' = [replies EXCEPT ![q] = Append(@, [to |-> asked[q].client, resp |-> resp])]

(* build_servfail, build_nodata: an answerless response that echoes the query. *)
EmptyResponse(d, q) == [id |-> d.id, key |-> d.key, ips |-> << >>, ttl |-> NoTtl,
                        leader |-> q, granted |-> NoTtl, age |-> 0]

-----------------------------------------------------------------------------
(***************************************************************************)
(* Main loop.                                                              *)
(***************************************************************************)
Stripped(d) == StripAaaa /\ d.key.aaaa

(* An AAAA query under --dns-strip-aaaa is answered locally, or ignored when
   it cannot be echoed. *)
StripQuery(d) ==
    /\ main = Idle /\ Len(asked) < MaxQueries
    /\ Stripped(d)
    /\ asked' = Append(asked, d)
    /\ LET q == Len(asked) + 1
       IN  IF d.key.echoes
           THEN /\ replies' = [replies EXCEPT ![q] =
                      Append(@, [to |-> d.client, resp |-> EmptyResponse(d, q)])]
                /\ UNCHANGED dropped
           ELSE dropped' = dropped \cup {q} /\ UNCHANGED replies
    /\ UNCHANGED <<now, main, tasks, cache, in_flight, channel, table>>

(* rewrite_ttls: what is left of a TTL after some seconds in the cache. *)
Aged(ttl, elapsed) ==
    IF ttl = NoTtl \/ elapsed = 0 THEN ttl
    ELSE IF ttl - elapsed < 1 THEN 1 ELSE ttl - elapsed

CacheGetLate(d) ==                          \* mutated: an entry outstays its lifetime
    {[cache[k].response EXCEPT !.id = d.id,
                               !.ttl = Aged(@, now - cache[k].inserted),
                               !.age = now - cache[k].inserted] :
        k \in {k \in DOMAIN cache : k = d.key /\ cache[k].expires >= now}}

(* DnsCache::get: the set of what it returns, empty or a singleton. *)
CacheGet(d) ==
    {[cache[k].response EXCEPT !.id = d.id,
                               !.ttl = Aged(@, now - cache[k].inserted),
                               !.age = now - cache[k].inserted] :
        k \in {k \in DOMAIN cache : k = d.key /\ cache[k].expires > now}}

(* A query the cache answers.  (An error of recv_from ends the whole forwarder:
   DnsDies of module Service.) *)
CacheHit(d) ==
    /\ main = Idle /\ Len(asked) < MaxQueries
    /\ ~Stripped(d)
    /\ asked' = Append(asked, d)
    /\ \E resp \in CacheGet(d) :
        main' = [pc |-> "hit", q |-> Len(asked) + 1, resp |-> resp, todo |-> resp.ips]
    /\ UNCHANGED <<now, tasks, cache, in_flight, channel, table, replies, dropped>>

CacheMiss(d) ==
    /\ main = Idle /\ Len(asked) < MaxQueries
    /\ ~Stripped(d)
    /\ CacheGet(d) = {}
    /\ asked' = Append(asked, d)
    /\ main' = [pc |-> "join", q |-> Len(asked) + 1, resp |-> NoResp, todo |-> << >>]
    /\ UNCHANGED <<now, tasks, cache, in_flight, channel, table, replies, dropped>>

(* A cached response also refreshes the table, address by address ... *)
HitRecords ==
    /\ main # Idle /\ main.pc = "hit" /\ main.todo # << >>
    /\ table' \in TableInsert(table, Head(main.todo), cache_key(main.q).name,
                              main.resp.ttl, now)
    /\ main' = [main EXCEPT !.todo = Tail(@)]
    /\ UNCHANGED <<now, asked, tasks, cache, in_flight, channel, replies, dropped>>

(* ... before it is sent. *)
HitReplies ==
    /\ main # Idle /\ main.pc = "hit" /\ main.todo = << >>
    /\ SendTo(main.q, main.resp)
    /\ main' = Idle
    /\ UNCHANGED <<now, asked, tasks, cache, in_flight, channel, table, dropped>>

(* try_join finds a request in flight: subscribe and spawn a follower. *)
Join ==
    /\ main # Idle /\ main.pc = "join"
    /\ cache_key(main.q) \in DOMAIN in_flight
    /\ LET leader == in_flight[cache_key(main.q)]
       IN  tasks' = [tasks EXCEPT ![main.q] =
               [NoTask EXCEPT !.pc = "recv", !.of = leader,
                              !.late = channel[leader] # NoResp]]
    /\ main' = Idle
    /\ UNCHANGED <<now, asked, cache, in_flight, channel, table, replies, dropped>>

JoinNever ==                                \* mutated: nobody joins for certain
    /\ main # Idle /\ main.pc = "join"
    /\ main' = [main EXCEPT !.pc = "register"]
    /\ UNCHANGED <<now, asked, tasks, cache, in_flight, channel, table, replies, dropped>>

(* try_join finds none. *)
JoinMisses ==
    /\ main # Idle /\ main.pc = "join"
    /\ cache_key(main.q) \notin DOMAIN in_flight
    /\ main' = [main EXCEPT !.pc = "register"]
    /\ UNCHANGED <<now, asked, tasks, cache, in_flight, channel, table, replies, dropped>>

(* register a fresh channel and spawn the leader. *)
Register ==
    /\ main # Idle /\ main.pc = "register"
    /\ in_flight' = Put(in_flight, cache_key(main.q), main.q)
    /\ tasks' = [tasks EXCEPT ![main.q] = [NoTask EXCEPT !.pc = "fetch", !.of = main.q]]
    /\ main' = Idle
    /\ UNCHANGED <<now, asked, cache, channel, table, replies, dropped>>

-----------------------------------------------------------------------------
(***************************************************************************)
(* Leader task.                                                            *)
(***************************************************************************)
(* doh_query succeeds.  The server echoes the id of the query (external). *)
FetchOk(q, a) ==
    /\ tasks[q].pc = "fetch"
    /\ LET resp == [id |-> asked[q].id, key |-> asked[q].key, ips |-> a.ips, ttl |-> a.ttl,
                    leader |-> q, granted |-> a.ttl, age |-> 0]
       IN  tasks' = [tasks EXCEPT ![q].resp = resp, ![q].todo = a.ips,
                        ![q].pc = IF a.ips # << >> THEN "put" ELSE "complete"]
    /\ UNCHANGED <<now, asked, main, cache, in_flight, channel, table, replies, dropped>>

(* doh_query fails (connection, status, body or the 10 s timeout). *)
FetchErr(q) ==
    /\ tasks[q].pc = "fetch"
    /\ tasks' = [tasks EXCEPT ![q].pc = "complete",
                    ![q].resp = IF asked[q].key.echoes THEN EmptyResponse(asked[q], q)
                                                       ELSE NoResp]
    /\ UNCHANGED <<now, asked, main, cache, in_flight, channel, table, replies, dropped>>

(* DnsCache::put, only for responses that carry addresses. *)
CachePut(q) ==
    /\ tasks[q].pc = "put"
    /\ cache' \in BoundedInsert(cache, cache_key(q),
                     [response |-> tasks[q].resp, inserted |-> now,
                      expires |-> now + cache_ttl(tasks[q].resp.ttl)], now)
    /\ tasks' = [tasks EXCEPT ![q].pc = "complete"]
    /\ UNCHANGED <<now, asked, main, in_flight, channel, table, replies, dropped>>

CompleteKeeps(q) ==                         \* mutated: the registration stays
    /\ tasks[q].pc = "complete"
    /\ IF tasks[q].resp = NoResp
       THEN tasks' = [tasks EXCEPT ![q].pc = "done"] /\ dropped' = dropped \cup {q}
       ELSE tasks' = [tasks EXCEPT ![q].pc = "send"] /\ UNCHANGED dropped
    /\ UNCHANGED <<now, asked, main, cache, in_flight, channel, table, replies>>

(* QueryCoalescer::complete.  Without a response to pass on, the task ends. *)
Complete(q) ==
    /\ tasks[q].pc = "complete"
    /\ in_flight' = Restrict(in_flight, DOMAIN in_flight \ {cache_key(q)})
    /\ IF tasks[q].resp = NoResp
       THEN tasks' = [tasks EXCEPT ![q].pc = "done"] /\ dropped' = dropped \cup {q}
       ELSE tasks' = [tasks EXCEPT ![q].pc = "send"] /\ UNCHANGED dropped
    /\ UNCHANGED <<now, asked, main, cache, channel, table, replies>>

(* tx.send: whoever has subscribed by now will see the response. *)
Broadcast(q) ==
    /\ tasks[q].pc = "send"
    /\ channel' = [channel EXCEPT ![q] = tasks[q].resp]
    /\ tasks' = [tasks EXCEPT ![q].pc = "record"]
    /\ UNCHANGED <<now, asked, main, cache, in_flight, table, replies, dropped>>

(***************************************************************************)
(* Follower task.  A receiver sees a message sent after it subscribed;     *)
(* once every sender is gone (the leader's own and the one in in_flight)   *)
(* and there is nothing to see, recv fails.                                *)
(***************************************************************************)
HasMessage(q) == channel[tasks[q].of] # NoResp /\ ~tasks[q].late

SendersGone(leader) ==
    tasks[leader].pc = "done" /\ \A k \in DOMAIN in_flight : in_flight[k] # leader

RecvOkLeadersId(q) ==                       \* mutated: the leader's id is kept
    /\ tasks[q].pc = "recv"
    /\ HasMessage(q)
    /\ LET resp == channel[tasks[q].of]
       IN  tasks' = [tasks EXCEPT ![q].pc = "record", ![q].resp = resp, ![q].todo = resp.ips]
    /\ UNCHANGED <<now, asked, main, cache, in_flight, channel, table, replies, dropped>>

RecvOk(q) ==
    /\ tasks[q].pc = "recv"
    /\ HasMessage(q)
    /\ LET resp == [channel[tasks[q].of] EXCEPT !.id = asked[q].id]
       IN  tasks' = [tasks EXCEPT ![q].pc = "record", ![q].resp = resp, ![q].todo = resp.ips]
    /\ UNCHANGED <<now, asked, main, cache, in_flight, channel, table, replies, dropped>>

RecvErr(q) ==
    /\ tasks[q].pc = "recv"
    /\ ~HasMessage(q)
    /\ SendersGone(tasks[q].of)
    /\ tasks' = [tasks EXCEPT ![q].pc = "done"]
    /\ dropped' = dropped \cup {q}
    /\ UNCHANGED <<now, asked, main, cache, in_flight, channel, table, replies>>

(***************************************************************************)
(* Leader and follower end alike: record the addresses, then reply.        *)
(***************************************************************************)
Record(q) ==
    /\ tasks[q].pc = "record" /\ tasks[q].todo # << >>
    /\ table' \in TableInsert(table, Head(tasks[q].todo), cache_key(q).name,
                              tasks[q].resp.ttl, now)
    /\ tasks' = [tasks EXCEPT ![q].todo = Tail(@)]
    /\ UNCHANGED <<now, asked, main, cache, in_flight, channel, replies, dropped>>

SendReply(q) ==
    /\ tasks[q].pc = "record" /\ tasks[q].todo = << >>
    /\ SendTo(q, tasks[q].resp)
    /\ tasks' = [tasks EXCEPT ![q].pc = "done"]
    /\ UNCHANGED <<now, asked, main, cache, in_flight, channel, table, dropped>>

-----------------------------------------------------------------------------
MainStep == HitRecords \/ HitReplies \/ Join \/ JoinMisses \/ Register

FetchEnds(q) == FetchErr(q) \/ \E a \in Answers : FetchOk(q, a)

TaskStep(q) ==
    \/ CachePut(q) \/ Complete(q) \/ Broadcast(q)
    \/ RecvOk(q) \/ RecvErr(q)
    \/ Record(q) \/ SendReply(q)

Next ==
    \/ Tick
    \/ \E d \in Datagrams : StripQuery(d) \/ CacheHit(d) \/ CacheMiss(d)
    \/ MainStep
    \/ \E q \in Queries : FetchEnds(q) \/ TaskStep(q)

(***************************************************************************)
(* Every task keeps being scheduled, and a DoH request ends: the reqwest   *)
(* client is built with a timeout of 10 s.                                 *)
(***************************************************************************)
Fairness ==
    /\ WF_vars(MainStep)
    /\ \A q \in Queries : WF_vars(FetchEnds(q)) /\ WF_vars(TaskStep(q))

Spec == Init /\ [][Next]_vars /\ Fairness

-----------------------------------------------------------------------------
TypeOK ==
    /\ now \in Nat
    /\ asked \in Seq(Datagrams) /\ Len(asked) <= MaxQueries
    /\ main \in {Idle} \cup [pc : {"hit", "join", "register"}, q : Queries,
                             resp : Response \cup {NoResp}, todo : Seq(Ips)]
    /\ tasks \in [Queries -> Task]
    /\ IsMap(cache, Key, [response : Response, inserted : Nat, expires : Nat])
    /\ IsMap(in_flight, Key, Queries)
    /\ channel \in [Queries -> Response \cup {NoResp}]
    /\ IsMap(table, Ips, [name : Names, expires : Nat])
    /\ replies \in [Queries -> Seq([to : STRING, resp : Response])]
    /\ dropped \subseteq Queries

(***************************************************************************)
(* The listener as a query service: see QueryService.                      *)
(***************************************************************************)
AnswersIt(r, d) == r.to = d.client /\ r.resp.id = d.id /\ r.resp.key = d.key

Service == INSTANCE QueryService WITH Questions <- Datagrams, Answers <- AnswersIt,
                                      Ordered <- FALSE, answers <- replies, lost <- dropped

(* Although responses are shared between clients by the cache and by the
   coalescer, and leaders, followers and the main loop interleave, every
   client gets an answer to its own question, under its own id and at its
   own address, at most once, and nothing after it was given up (run_doh). *)
ImplementsService == Service!Spec

(* A cached response is only ever replaced by one fetched by a later request:
   because a leader puts before it completes, requests for one question
   cannot overtake each other on the way into the cache. *)
CacheMovesForward ==
    [][\A k \in DOMAIN cache \cap DOMAIN cache' :
         cache'[k] # cache[k] => cache'[k].response.leader > cache[k].response.leader]_vars

(* The longest an answer may be believed, from the moment the server gave it: as
   long as the server granted, and MIN_TTL seconds when it granted less, since
   the cache keeps an answer for that long (dns.rs:201-203). *)
Believed(granted) == IF granted < MIN_TTL THEN MIN_TTL ELSE granted

(* DnsCache::get takes the time an answer has spent in the cache off its TTL but
   never tells a TTL below 1 (rewrite_ttls), and put keeps an answer for a
   lifetime of its own (dns.rs:193, 201-203, 311).  Between the two, no client is
   told to believe an answer for longer than that, whatever the server granted:
   an entry expires before the floor of 1 could prolong it.  ("Decrement TTLs by
   the entry's age so clients don't over-cache", dns.rs:191, is less than true of
   answers granted less than MIN_TTL.) *)
TruthfulTtl ==
    \A q \in Queries : \A i \in DOMAIN replies[q] :
        LET r == replies[q][i].resp
        IN  r.granted # NoTtl => r.ttl + r.age <= Believed(r.granted)

(* Every query that can be echoed is eventually answered, be it with a
   SERVFAIL: by the cache, by its own request or by the one it joined. *)
EventuallyAnswered ==
    \A q \in Queries :
        (q <= Len(asked) /\ asked[q].key.echoes) ~> (replies[q] # << >>)
=============================================================================
