--------------------------- MODULE UdpRelayProofs ---------------------------
(***************************************************************************)
(* Theorems about module UdpRelay, for any flows, any idle time-out and    *)
(* any number of datagrams.                                                *)
(*                                                                         *)
(* NoDeadEntries is inductive with the types of the state.  Accounted      *)
(* counts; its proof needs to know of each datagram where it is.  Placed   *)
(* says so without counting: the places (the queues, what was forwarded,   *)
(* what is lost) are disjoint, none holds a datagram twice, and together   *)
(* they hold every datagram that has arrived.  That a queue holds nothing  *)
(* twice is what keeps the datagram that is forwarded from staying queued. *)
(***************************************************************************)
EXTENDS UdpRelay, FiniteSetTheorems, SequenceTheorems, TLAPS

(* A session, by its fields. *)
Record(f, p, q, n) == [flow |-> f, pc |-> p, queue |-> q, timer |-> n]

Queue(s) == session[s].queue

Distinct(q) == \A i, j \in DOMAIN q : q[i] = q[j] => i = j

Disjoint(q, r) == \A i \in DOMAIN q, j \in DOMAIN r : q[i] # r[j]

(* Where datagram d is. *)
Queued(d) == \E s \in DOMAIN session : \E i \in DOMAIN Queue(s) : Queue(s)[i] = d

WasForwarded(d) == \E i \in DOMAIN forwarded : forwarded[i] = d

QueuesInOrder ==
    /\ \A s \in DOMAIN session : Distinct(Queue(s))
    /\ \A s, t \in DOMAIN session : s # t => Disjoint(Queue(s), Queue(t))
    /\ \A s \in DOMAIN session : Disjoint(Queue(s), forwarded)
    /\ \A s \in DOMAIN session : \A i \in DOMAIN Queue(s) :
          /\ Queue(s)[i] \in 1..Len(arrived) /\ Queue(s)[i] \notin lost
          /\ arrived[Queue(s)[i]] = session[s].flow
          /\ Live(s)

OutsideInOrder ==
    /\ Distinct(forwarded)
    /\ \A i \in DOMAIN forwarded : forwarded[i] \in 1..Len(arrived) /\ forwarded[i] \notin lost
    /\ lost \subseteq 1..Len(arrived)

NoneMissing == \A d \in 1..Len(arrived) : d \in lost \/ WasForwarded(d) \/ Queued(d)

Placed == QueuesInOrder /\ OutsideInOrder /\ NoneMissing

(* TypeOK as the steps need it, with no set of flows to be found anew. *)
Typed ==
    /\ session \in Seq(Session)
    /\ sessions \in [DOMAIN sessions -> DOMAIN session] /\ DOMAIN sessions \subseteq Flows
    /\ arrived \in Seq(Flows) /\ Len(arrived) <= MaxDatagrams
    /\ forwarded \in Seq(1..MaxDatagrams)
    /\ lost \subseteq 1..MaxDatagrams
    /\ replies \in 0..MaxReplies

IInv == Typed /\ NoDeadEntries /\ Placed

-----------------------------------------------------------------------------
LEMMA InitIInv == Init => IInv
<1> SUFFICES ASSUME Init PROVE IInv
  OBVIOUS
<1> USE DEF Init
<1>1. Typed
  BY RelayAssumption DEF Typed
<1>2. NoDeadEntries
  BY DEF NoDeadEntries
<1>3. Placed
  BY DEF Placed, QueuesInOrder, OutsideInOrder, NoneMissing, Distinct
<1> QED
  BY <1>1, <1>2, <1>3 DEF IInv

(* Session records, by their fields. *)
LEMMA Fields ==
    ASSUME NEW x \in Session
    PROVE  /\ x.flow \in Flows /\ x.queue \in Seq(1..MaxDatagrams)
           /\ x.pc \in {"associate", "loop", "select", "exited", "gone"}
           /\ x.timer \in 0..SESSION_IDLE_TIMEOUT
           /\ \A i \in DOMAIN x.queue : x.queue[i] \in 1..MaxDatagrams
           /\ x = Record(x.flow, x.pc, x.queue, x.timer)
<1>1. /\ x.flow \in Flows /\ x.queue \in Seq(1..MaxDatagrams)
      /\ x.pc \in {"associate", "loop", "select", "exited", "gone"}
      /\ x.timer \in 0..SESSION_IDLE_TIMEOUT
      /\ x = Record(x.flow, x.pc, x.queue, x.timer)
  BY DEF Session, Record
<1>2. \A i \in DOMAIN x.queue : x.queue[i] \in 1..MaxDatagrams
  BY <1>1, LenProperties, ElementOfSeq
<1> QED
  BY <1>1, <1>2

(* The task of session s changes to r. *)
Becomes(s, r) == session' = [session EXCEPT ![s] = r]

(* What each action makes of the record of its session. *)
LEMMA Updates ==
    ASSUME Typed, NEW s \in DOMAIN session
    PROVE  LET x == session[s] IN
           /\ Associated(s) => Becomes(s, Record(x.flow, "loop", x.queue, x.timer))
           /\ Cleanup(s) => Becomes(s, Record(x.flow, "gone", x.queue, x.timer))
           /\ ChannelPending(s) => Becomes(s, Record(x.flow, "select", x.queue, SESSION_IDLE_TIMEOUT))
           /\ RelayDatagram(s) => Becomes(s, Record(x.flow, "loop", x.queue, 0))
           /\ ForwardDatagram(s) => Becomes(s, Record(x.flow, "loop", Tail(x.queue), 0))
           /\ \A dropping : Exit(s, dropping) => Becomes(s, Record(x.flow, "exited", << >>, 0))
<1> DEFINE x == session[s]
<1>1. x \in Session
  BY DEF Typed
<1>2. ASSUME Associated(s)
      PROVE  Becomes(s, Record(x.flow, "loop", x.queue, x.timer))
  <2>1. session' = [session EXCEPT ![s] = [x EXCEPT !.pc = "loop"]]
    BY <1>2 DEF Associated, Typed
  <2> HIDE DEF x
  <2>2. [x EXCEPT !.pc = "loop"] = Record(x.flow, "loop", x.queue, x.timer)
    BY <1>1, Fields DEF Record
  <2> QED
    BY <2>1, <2>2 DEF Becomes
<1>3. ASSUME Cleanup(s)
      PROVE  Becomes(s, Record(x.flow, "gone", x.queue, x.timer))
  <2>1. session' = [session EXCEPT ![s] = [x EXCEPT !.pc = "gone"]]
    BY <1>3 DEF Cleanup, Typed
  <2> HIDE DEF x
  <2>2. [x EXCEPT !.pc = "gone"] = Record(x.flow, "gone", x.queue, x.timer)
    BY <1>1, Fields DEF Record
  <2> QED
    BY <2>1, <2>2 DEF Becomes
<1>4. ASSUME ChannelPending(s)
      PROVE  Becomes(s, Record(x.flow, "select", x.queue, SESSION_IDLE_TIMEOUT))
  <2>1. session' = [session EXCEPT ![s] = [x EXCEPT !.pc = "select", !.timer = SESSION_IDLE_TIMEOUT]]
    BY <1>4 DEF ChannelPending, Typed
  <2> HIDE DEF x
  <2> DEFINE y == [x EXCEPT !.pc = "select"]
  <2>2. y = Record(x.flow, "select", x.queue, x.timer)
    BY <1>1, Fields DEF Record
  <2>3. [y EXCEPT !.timer = SESSION_IDLE_TIMEOUT] = Record(x.flow, "select", x.queue, SESSION_IDLE_TIMEOUT)
    <3> HIDE DEF y
    <3> QED
      BY <2>2 DEF Record
  <2> QED
    BY <2>1, <2>3 DEF Becomes
<1>5. ASSUME RelayDatagram(s)
      PROVE  Becomes(s, Record(x.flow, "loop", x.queue, 0))
  <2>1. session' = [session EXCEPT ![s] = [x EXCEPT !.pc = "loop", !.timer = 0]]
    BY <1>5 DEF RelayDatagram, Typed
  <2> HIDE DEF x
  <2> DEFINE y == [x EXCEPT !.pc = "loop"]
  <2>2. y = Record(x.flow, "loop", x.queue, x.timer)
    BY <1>1, Fields DEF Record
  <2>3. [y EXCEPT !.timer = 0] = Record(x.flow, "loop", x.queue, 0)
    <3> HIDE DEF y
    <3> QED
      BY <2>2 DEF Record
  <2> QED
    BY <2>1, <2>3 DEF Becomes
<1>6. ASSUME ForwardDatagram(s)
      PROVE  Becomes(s, Record(x.flow, "loop", Tail(x.queue), 0))
  <2> DEFINE tail == Tail(x.queue)
  <2>1. session' = [session EXCEPT ![s] = [x EXCEPT !.pc = "loop", !.queue = tail, !.timer = 0]]
    BY <1>6 DEF ForwardDatagram, Typed
  <2> HIDE DEF x, tail
  <2> DEFINE y == [x EXCEPT !.pc = "loop"]
             z == [y EXCEPT !.queue = tail]
  <2>2. y = Record(x.flow, "loop", x.queue, x.timer)
    BY <1>1, Fields DEF Record
  <2>3. z = Record(x.flow, "loop", tail, x.timer)
    <3> HIDE DEF y
    <3> QED
      BY <2>2 DEF Record
  <2>4. [z EXCEPT !.timer = 0] = Record(x.flow, "loop", tail, 0)
    <3> HIDE DEF z
    <3> QED
      BY <2>3 DEF Record
  <2> QED
    BY <2>1, <2>4 DEF Becomes, tail
<1>7. ASSUME NEW dropping, Exit(s, dropping)
      PROVE  Becomes(s, Record(x.flow, "exited", << >>, 0))
  <2>1. session' = [session EXCEPT ![s] = [x EXCEPT !.pc = "exited", !.queue = << >>, !.timer = 0]]
    BY <1>7 DEF Exit, Typed
  <2> HIDE DEF x
  <2> DEFINE y == [x EXCEPT !.pc = "exited"]
             z == [y EXCEPT !.queue = << >>]
  <2>2. y = Record(x.flow, "exited", x.queue, x.timer)
    BY <1>1, Fields DEF Record
  <2>3. z = Record(x.flow, "exited", << >>, x.timer)
    <3> HIDE DEF y
    <3> QED
      BY <2>2 DEF Record
  <2>4. [z EXCEPT !.timer = 0] = Record(x.flow, "exited", << >>, 0)
    <3> HIDE DEF z
    <3> QED
      BY <2>3 DEF Record
  <2> QED
    BY <2>1, <2>4 DEF Becomes
<1> QED
  BY <1>2, <1>3, <1>4, <1>5, <1>6, <1>7

(* The task of session s changes: the others stay as they are. *)
LEMMA SessionStep ==
    ASSUME Typed, NEW s \in DOMAIN session, NEW r \in Session,
           session' = [session EXCEPT ![s] = r]
    PROVE  /\ session' \in Seq(Session)
           /\ DOMAIN session' = DOMAIN session
           /\ session'[s] = r
           /\ \A t \in DOMAIN session : t # s => session'[t] = session[t]
BY DEF Typed

(* A step that moves no datagram: what waits in a queue still waits there. *)
LEMMA NothingMoves ==
    ASSUME Placed, DOMAIN session' = DOMAIN session,
           \A s \in DOMAIN session :
              /\ session'[s].queue = session[s].queue
              /\ session'[s].flow = session[s].flow
              /\ session[s].queue # << >> /\ Live(s) => Live(s)',
           \A s \in DOMAIN session : session[s].queue = << >> => DOMAIN session[s].queue = {},
           UNCHANGED <<arrived, forwarded, lost>>
    PROVE  Placed'
<1>1. QueuesInOrder'
  BY DEF Placed, QueuesInOrder, Queue, Distinct, Disjoint
<1>2. OutsideInOrder'
  BY DEF Placed, OutsideInOrder, Distinct
<1>3. NoneMissing'
  BY DEF Placed, NoneMissing, Queued, WasForwarded, Queue
<1> QED
  BY <1>1, <1>2, <1>3 DEF Placed

(* A session ends: its queue is lost, and nothing else. *)
LEMMA ExitStep ==
    ASSUME IInv, NEW s \in Sessions, Live(s), NEW dropping,
           dropping = Range(Queue(s)), Exit(s, dropping),
           UNCHANGED <<sessions, arrived, forwarded, replies>>
    PROVE  IInv'
<1> DEFINE r == Record(session[s].flow, "exited", << >>, 0)
<1>1. s \in DOMAIN session /\ session[s] \in Session
  BY DEF Live, At, IInv, Typed
<1>2. r \in Session /\ r.queue = << >> /\ r.flow = session[s].flow /\ r.pc = "exited"
  BY <1>1, Fields, RelayAssumption DEF Session, Record
<1>3. session' = [session EXCEPT ![s] = r]
  BY <1>1, Updates DEF Becomes, IInv
<1> HIDE DEF r
<1>4. /\ session' \in Seq(Session) /\ DOMAIN session' = DOMAIN session /\ session'[s] = r
      /\ \A t \in DOMAIN session : t # s => session'[t] = session[t]
  BY <1>1, <1>2, <1>3, SessionStep DEF IInv
<1>5. \A d : d \in dropping <=> \E i \in DOMAIN Queue(s) : Queue(s)[i] = d
  BY DEF Range
<1>6. lost' = lost \cup dropping
  BY DEF Exit
<1>7. Typed'
  <2>1. \A i \in DOMAIN Queue(s) : Queue(s)[i] \in 1..MaxDatagrams
    BY <1>1, Fields DEF Queue
  <2>2. lost' \subseteq 1..MaxDatagrams
    BY <1>5, <1>6, <2>1 DEF IInv, Typed
  <2> QED
    BY <1>4, <2>2 DEF IInv, Typed
<1>8. NoDeadEntries'
  BY <1>2, <1>4 DEF IInv, NoDeadEntries, Typed
<1>9. QueuesInOrder'
  <2>1. DOMAIN session'[s].queue = {}
    BY <1>2, <1>4
  <2>2. \A t \in DOMAIN session : t # s => \A i \in DOMAIN Queue(t) : Queue(t)[i] \notin dropping
    BY <1>1, <1>5 DEF IInv, Placed, QueuesInOrder, Disjoint
  <2>3. \A t \in DOMAIN session : t # s /\ Live(t) => Live(t)'
    BY <1>4 DEF Live, At
  <2> QED
    BY <1>4, <1>6, <2>1, <2>2, <2>3 DEF IInv, Placed, QueuesInOrder, Queue, Distinct, Disjoint
<1>10. OutsideInOrder'
  <2>1. \A i \in DOMAIN forwarded : forwarded[i] \notin dropping
    BY <1>1, <1>5 DEF IInv, Placed, QueuesInOrder, Disjoint
  <2>2. dropping \subseteq 1..Len(arrived)
    BY <1>1, <1>5 DEF IInv, Placed, QueuesInOrder
  <2> QED
    BY <1>6, <2>1, <2>2 DEF IInv, Placed, OutsideInOrder, Distinct
<1>11. NoneMissing'
  <2> SUFFICES ASSUME NEW d \in 1..Len(arrived) PROVE d \in lost' \/ WasForwarded(d)' \/ Queued(d)'
    BY DEF NoneMissing
  <2>1. CASE d \in lost \/ WasForwarded(d)
    BY <1>6, <2>1 DEF WasForwarded
  <2>2. CASE Queued(d)
    <3>1. PICK t \in DOMAIN session : \E i \in DOMAIN Queue(t) : Queue(t)[i] = d
      BY <2>2 DEF Queued
    <3>2. CASE t = s
      BY <1>5, <1>6, <3>1, <3>2
    <3>3. CASE t # s
      BY <1>4, <3>1, <3>3 DEF Queued, Queue
    <3> QED
      BY <3>2, <3>3
  <2> QED
    BY <2>1, <2>2 DEF IInv, Placed, NoneMissing
<1> QED
  BY <1>7, <1>8, <1>9, <1>10, <1>11 DEF IInv, Placed

(* A session step that leaves all datagrams where they are. *)
LEMMA QuietStep ==
    ASSUME IInv, NEW s \in Sessions,
           Associated(s) \/ ChannelPending(s) \/ RelayDatagram(s) \/ Cleanup(s)
    PROVE  IInv'
<1>1. s \in DOMAIN session /\ session[s] \in Session
  BY DEF Associated, ChannelPending, RelayDatagram, Cleanup, At, IInv, Typed
<1>2. PICK r \in Session :
         /\ session' = [session EXCEPT ![s] = r]
         /\ r.queue = session[s].queue /\ r.flow = session[s].flow
         /\ r.pc = "gone" => sessions' = Without(sessions, session[s].flow) /\ ~Live(s)
         /\ r.pc # "gone" => Live(s) /\ r.pc \in {"loop", "select"} /\ sessions' = sessions
  <2> DEFINE q(p, n) == Record(session[s].flow, p, session[s].queue, n)
  <2>1. CASE Associated(s)
    <3>1. q("loop", session[s].timer) \in Session /\ session' = [session EXCEPT ![s] = q("loop", session[s].timer)]
      BY <1>1, <2>1, Fields, Updates DEF Becomes, IInv, Session, Record
    <3> QED
      BY <2>1, <3>1 DEF Associated, At, Live, Record
  <2>2. CASE ChannelPending(s)
    <3>1. q("select", SESSION_IDLE_TIMEOUT) \in Session
      BY <1>1, Fields, RelayAssumption DEF Session, Record
    <3>2. session' = [session EXCEPT ![s] = q("select", SESSION_IDLE_TIMEOUT)]
      BY <1>1, <2>2, Updates DEF Becomes, IInv
    <3> QED
      BY <2>2, <3>1, <3>2 DEF ChannelPending, At, Live, Record
  <2>3. CASE RelayDatagram(s)
    <3>1. q("loop", 0) \in Session
      BY <1>1, Fields, RelayAssumption DEF Session, Record
    <3>2. session' = [session EXCEPT ![s] = q("loop", 0)]
      BY <1>1, <2>3, Updates DEF Becomes, IInv
    <3> QED
      BY <2>3, <3>1, <3>2 DEF RelayDatagram, At, Live, Record
  <2>4. CASE Cleanup(s)
    <3>1. q("gone", session[s].timer) \in Session /\ session' = [session EXCEPT ![s] = q("gone", session[s].timer)]
      BY <1>1, <2>4, Fields, Updates DEF Becomes, IInv, Session, Record
    <3> QED
      BY <2>4, <3>1 DEF Cleanup, At, Live, Record
  <2> QED
    BY <2>1, <2>2, <2>3, <2>4
<1>3. /\ session' \in Seq(Session) /\ DOMAIN session' = DOMAIN session /\ session'[s] = r
      /\ \A t \in DOMAIN session : t # s => session'[t] = session[t]
  BY <1>1, <1>2, SessionStep DEF IInv
<1>4. UNCHANGED <<arrived, forwarded, lost>> /\ replies' \in 0..MaxReplies
  BY RelayAssumption DEF Associated, ChannelPending, RelayDatagram, Cleanup, IInv, Typed
<1>5. /\ sessions' \in [DOMAIN sessions' -> DOMAIN session] /\ DOMAIN sessions' \subseteq DOMAIN sessions
      /\ \A f \in DOMAIN sessions' : sessions'[f] = sessions[f] /\ (r.pc = "gone" => f # session[s].flow)
  <2>1. CASE r.pc = "gone"
    BY <1>2, <2>1 DEF IInv, Typed, Without, Restrict
  <2>2. CASE r.pc # "gone"
    BY <1>2, <2>2 DEF IInv, Typed
  <2> QED
    BY <2>1, <2>2
<1>6. Typed'
  BY <1>3, <1>4, <1>5 DEF IInv, Typed
<1>7. NoDeadEntries'
  BY <1>2, <1>3, <1>5 DEF IInv, Typed, NoDeadEntries
<1>8. Placed'
  <2>1. \A t \in DOMAIN session :
          /\ session'[t].queue = session[t].queue /\ session'[t].flow = session[t].flow
          /\ session[t].queue # << >> /\ Live(t) => Live(t)'
    BY <1>2, <1>3 DEF Live, At
  <2>2. \A t \in DOMAIN session : session[t].queue = << >> => DOMAIN session[t].queue = {}
    OBVIOUS
  <2> QED
    BY <1>3, <1>4, <2>1, <2>2, NothingMoves DEF IInv
<1> QED
  BY <1>6, <1>7, <1>8 DEF IInv

(* Time passes in the selects. *)
LEMMA TickStep ==
    ASSUME IInv, Tick
    PROVE  IInv'
<1> DEFINE n(s) == IF session[s].timer > 0 THEN session[s].timer - 1 ELSE 0
           r(s) == Record(session[s].flow, session[s].pc, session[s].queue, n(s))
<1>1. \A s \in DOMAIN session : session[s] \in Session
  BY DEF IInv, Typed
<1>2. DOMAIN session' = DOMAIN session /\ \A s \in DOMAIN session : session'[s] = r(s)
  <2>1. DOMAIN session' = DOMAIN session
        /\ \A s \in DOMAIN session : session'[s] = [session[s] EXCEPT !.timer = n(s)]
    BY DEF Tick
  <2> SUFFICES ASSUME NEW s \in DOMAIN session PROVE session'[s] = r(s)
    BY <2>1
  <2> DEFINE x == session[s]
             m == n(s)
  <2>2. x \in Session
    BY <1>1
  <2>3. [x EXCEPT !.timer = m] = Record(x.flow, x.pc, x.queue, m)
    <3> HIDE DEF x, m
    <3> QED
      BY <2>2, Fields DEF Record
  <2> QED
    BY <2>1, <2>3
<1>3. \A s \in DOMAIN session : r(s) \in Session
  <2> SUFFICES ASSUME NEW s \in DOMAIN session PROVE r(s) \in Session
    OBVIOUS
  <2>1. n(s) \in 0..SESSION_IDLE_TIMEOUT
    BY <1>1, Fields, RelayAssumption
  <2> QED
    BY <1>1, <2>1, Fields DEF Record, Session
<1>4. /\ DOMAIN session' = 1..Len(session) /\ session' \in Seq(Session)
  <2>1. DOMAIN session = 1..Len(session) /\ Len(session) \in Nat
    BY DEF IInv, Typed
  <2>2. session' = [s \in 1..Len(session) |-> session'[s]]
    BY <1>2, <2>1 DEF Tick
  <2>3. session' \in [1..Len(session) -> Session]
    BY <1>2, <1>3, <2>1, <2>2
  <2> QED
    BY <1>2, <2>1, <2>3, SeqDef
<1>5. UNCHANGED <<sessions, arrived, forwarded, lost, replies>>
  BY DEF Tick
<1>6. \A s \in DOMAIN session : /\ session'[s].queue = session[s].queue
                                /\ session'[s].flow = session[s].flow
                                /\ session'[s].pc = session[s].pc
  BY <1>2 DEF Record
<1> HIDE DEF r, n
<1>7. Typed'
  BY <1>2, <1>4, <1>5 DEF IInv, Typed
<1>8. NoDeadEntries'
  BY <1>2, <1>5, <1>6 DEF IInv, NoDeadEntries, Typed
<1>9. Placed'
  <2>1. \A s \in DOMAIN session : session[s].queue = << >> => DOMAIN session[s].queue = {}
    OBVIOUS
  <2>2. \A s \in DOMAIN session : Live(s) => Live(s)'
    BY <1>2, <1>6 DEF Live, At
  <2> QED
    BY <1>2, <1>5, <1>6, <2>1, <2>2, NothingMoves DEF IInv
<1> QED
  BY <1>7, <1>8, <1>9 DEF IInv

(* The head of a queue is forwarded, and is nowhere else afterwards. *)
LEMMA ForwardStep ==
    ASSUME IInv, NEW s \in Sessions, ForwardDatagram(s)
    PROVE  IInv'
<1> DEFINE q == Queue(s)
           h == Head(q)
           r == Record(session[s].flow, "loop", Tail(q), 0)
<1>1. s \in DOMAIN session /\ session[s] \in Session /\ Live(s)
      /\ session[s].pc \in {"loop", "select"}
  BY DEF ForwardDatagram, At, Live, IInv, Typed
<1>2. q \in Seq(1..MaxDatagrams) /\ q # << >>
  BY <1>1, Fields DEF Queue, ForwardDatagram
<1>3. session' = [session EXCEPT ![s] = r]
  BY <1>1, Updates DEF Becomes, IInv, Queue
<1>4. /\ forwarded' = Append(forwarded, h)
      /\ UNCHANGED <<sessions, arrived, lost, replies>>
  BY DEF ForwardDatagram, Queue
<1>5. session[s].flow \in Flows
  BY <1>1, Fields
<1>6. \A i \in DOMAIN q : q[i] \in 1..Len(arrived) /\ q[i] \notin lost /\ arrived[q[i]] = session[s].flow
  BY <1>1 DEF IInv, Placed, QueuesInOrder
<1>7. Distinct(q) /\ Disjoint(q, forwarded)
      /\ \A t \in DOMAIN session : t # s => Disjoint(q, Queue(t)) /\ Disjoint(Queue(t), q)
  BY <1>1 DEF IInv, Placed, QueuesInOrder
<1> HIDE DEF q
<1>8. /\ Tail(q) \in Seq(1..MaxDatagrams) /\ h = q[1] /\ 1 \in DOMAIN q
      /\ \A i \in DOMAIN Tail(q) : i + 1 \in DOMAIN q /\ Tail(q)[i] = q[i + 1]
      /\ \A i \in DOMAIN q : i = 1 \/ (i - 1 \in DOMAIN Tail(q) /\ Tail(q)[i - 1] = q[i])
      /\ \A i \in DOMAIN q : i \in Nat
      /\ \A i \in DOMAIN Tail(q) : i \in Nat /\ i + 1 # 1
  BY <1>2
<1>9. r \in Session /\ r.queue = Tail(q) /\ r.flow = session[s].flow /\ r.pc = "loop"
  BY <1>5, <1>8, RelayAssumption DEF Session, Record
<1> HIDE DEF r, h
<1>10. /\ session' \in Seq(Session) /\ DOMAIN session' = DOMAIN session /\ session'[s] = r
       /\ \A t \in DOMAIN session : t # s => session'[t] = session[t]
  BY <1>1, <1>3, <1>9, SessionStep DEF IInv
<1>11. h \in 1..MaxDatagrams
  BY <1>2, HeadTailProperties DEF h
<1>12. /\ forwarded' \in Seq(1..MaxDatagrams)
       /\ \A i \in DOMAIN forwarded' : \/ i \in DOMAIN forwarded /\ forwarded'[i] = forwarded[i]
                                       \/ i = Len(forwarded) + 1 /\ forwarded'[i] = h
       /\ \A i \in DOMAIN forwarded : i \in DOMAIN forwarded' /\ forwarded'[i] = forwarded[i] /\ i # Len(forwarded) + 1
       /\ Len(forwarded) + 1 \in DOMAIN forwarded' /\ forwarded'[Len(forwarded) + 1] = h
  BY <1>4, <1>11 DEF IInv, Typed
<1>13. Typed'
  BY <1>4, <1>10, <1>12 DEF IInv, Typed
<1>14. NoDeadEntries'
  BY <1>4, <1>9, <1>10 DEF IInv, NoDeadEntries, Typed
<1>15. /\ Queue(s)' = Tail(q) /\ \A t \in DOMAIN session : t # s => Queue(t)' = Queue(t)
  BY <1>9, <1>10 DEF Queue
<1>16. \A t \in DOMAIN session : Live(t) => Live(t)'
  BY <1>9, <1>10 DEF Live, At
<1>17. QueuesInOrder'
  <2>1. ASSUME NEW t \in DOMAIN session PROVE Distinct(Queue(t))'
    <3>1. CASE t = s
      BY <1>7, <1>8, <1>15, <3>1 DEF Distinct
    <3>2. CASE t # s
      BY <1>15, <3>2 DEF IInv, Placed, QueuesInOrder, Distinct
    <3> QED
      BY <3>1, <3>2
  <2>2. ASSUME NEW t \in DOMAIN session, NEW u \in DOMAIN session, t # u
        PROVE  Disjoint(Queue(t)', Queue(u)')
    <3>1. CASE t = s
      BY <1>7, <1>8, <1>15, <2>2, <3>1 DEF Disjoint
    <3>2. CASE u = s
      BY <1>7, <1>8, <1>15, <2>2, <3>2 DEF Disjoint
    <3>3. CASE t # s /\ u # s
      BY <1>15, <2>2, <3>3 DEF IInv, Placed, QueuesInOrder
    <3> QED
      BY <3>1, <3>2, <3>3
  <2>3. ASSUME NEW t \in DOMAIN session PROVE Disjoint(Queue(t)', forwarded')
    <3>1. CASE t = s
      BY <1>7, <1>8, <1>12, <1>15, <3>1 DEF Disjoint, Distinct
    <3>2. CASE t # s
      <4>1. Disjoint(Queue(t), forwarded) /\ Disjoint(Queue(t), q)
        BY <1>7, <3>2 DEF IInv, Placed, QueuesInOrder
      <4> QED
        BY <1>8, <1>12, <1>15, <3>2, <4>1 DEF Disjoint
    <3> QED
      BY <3>1, <3>2
  <2>4. ASSUME NEW t \in DOMAIN session, NEW i \in DOMAIN (Queue(t)')
        PROVE  /\ Queue(t)'[i] \in 1..Len(arrived) /\ Queue(t)'[i] \notin lost
               /\ arrived[Queue(t)'[i]] = session'[t].flow
               /\ Live(t)'
    <3>1. CASE t = s
      <4>1. i \in DOMAIN Tail(q) /\ Queue(t)'[i] = q[i + 1] /\ i + 1 \in DOMAIN q
        BY <1>8, <1>15, <2>4, <3>1
      <4>2. session'[t].flow = session[s].flow
        BY <1>9, <1>10, <3>1
      <4> QED
        BY <1>1, <1>6, <1>16, <3>1, <4>1, <4>2
    <3>2. CASE t # s
      <4>1. i \in DOMAIN Queue(t) /\ Queue(t)'[i] = Queue(t)[i] /\ session'[t].flow = session[t].flow
        BY <1>10, <1>15, <2>4, <3>2
      <4> QED
        BY <1>16, <4>1 DEF IInv, Placed, QueuesInOrder
    <3> QED
      BY <3>1, <3>2
  <2> QED
    BY <1>4, <1>10, <2>1, <2>2, <2>3, <2>4 DEF QueuesInOrder
<1>18. OutsideInOrder'
  <2>1. \A i \in DOMAIN forwarded : forwarded[i] # h
    BY <1>7, <1>8 DEF Disjoint
  <2>2. Distinct(forwarded)'
    BY <1>12, <2>1 DEF IInv, Placed, OutsideInOrder, Distinct
  <2>3. h \in 1..Len(arrived) /\ h \notin lost
    BY <1>6, <1>8
  <2> QED
    BY <1>4, <1>12, <2>2, <2>3 DEF IInv, Placed, OutsideInOrder
<1>19. NoneMissing'
  <2> SUFFICES ASSUME NEW d \in 1..Len(arrived)
               PROVE  d \in lost \/ WasForwarded(d)' \/ Queued(d)'
    BY <1>4 DEF NoneMissing
  <2>1. CASE d \in lost
    BY <2>1
  <2>2. CASE WasForwarded(d)
    BY <1>12, <2>2 DEF WasForwarded
  <2>3. CASE Queued(d)
    <3>1. PICK t \in DOMAIN session : \E i \in DOMAIN Queue(t) : Queue(t)[i] = d
      BY <2>3 DEF Queued
    <3>2. CASE t # s
      BY <1>10, <1>15, <3>1, <3>2 DEF Queued
    <3>3. CASE t = s
      <4>1. PICK i \in DOMAIN q : q[i] = d
        BY <3>1, <3>3 DEF q
      <4>2. CASE i = 1
        BY <1>8, <1>12, <4>1, <4>2 DEF WasForwarded
      <4>3. CASE i # 1
        <5>1. i - 1 \in DOMAIN (Queue(s)') /\ Queue(s)'[i - 1] = d /\ s \in DOMAIN session'
          BY <1>1, <1>8, <1>10, <1>15, <4>1, <4>3
        <5> QED
          BY <5>1 DEF Queued
      <4> QED
        BY <4>2, <4>3
    <3> QED
      BY <3>2, <3>3
  <2> QED
    BY <2>1, <2>2, <2>3 DEF IInv, Placed, NoneMissing
<1> QED
  BY <1>13, <1>14, <1>17, <1>18, <1>19 DEF IInv, Placed

(* A datagram that has arrived is in no place yet, and is put into one. *)
LEMMA ArrivalStep ==
    ASSUME IInv, NEW f \in Flows, Arrives(f)
    PROVE  LET n == Len(arrived) + 1 IN
           /\ n \in 1..MaxDatagrams
           /\ arrived' \in Seq(Flows) /\ Len(arrived') = n
           /\ arrived'[n] = f /\ \A d \in 1..Len(arrived) : arrived'[d] = arrived[d]
           /\ \A d : d \in 1..n <=> d \in 1..Len(arrived) \/ d = n
           /\ n \notin lost
           /\ \A i \in DOMAIN forwarded : forwarded[i] # n
           /\ \A s \in DOMAIN session : \A i \in DOMAIN Queue(s) : Queue(s)[i] # n
<1>1. /\ arrived \in Seq(Flows) /\ Len(arrived) < MaxDatagrams
      /\ arrived' = Append(arrived, f)
  BY DEF IInv, Typed, Arrives
<1>2. Len(arrived) + 1 \notin 1..Len(arrived)
  BY <1>1
<1>3. /\ Len(arrived) + 1 \notin lost
      /\ \A i \in DOMAIN forwarded : forwarded[i] # Len(arrived) + 1
      /\ \A s \in DOMAIN session : \A i \in DOMAIN Queue(s) : Queue(s)[i] # Len(arrived) + 1
  BY <1>2 DEF IInv, Placed, QueuesInOrder, OutsideInOrder
<1> QED
  BY <1>1, <1>3, RelayAssumption

LEMMA DispatchToStaleStep ==
    ASSUME IInv, NEW f \in Flows, DispatchToStale(f)
    PROVE  IInv'
<1> DEFINE n == Len(arrived) + 1
<1>1. /\ n \in 1..MaxDatagrams
      /\ arrived' \in Seq(Flows) /\ Len(arrived') = n
      /\ \A d \in 1..Len(arrived) : arrived'[d] = arrived[d]
      /\ \A d : d \in 1..n <=> d \in 1..Len(arrived) \/ d = n
      /\ \A i \in DOMAIN forwarded : forwarded[i] # n
      /\ \A s \in DOMAIN session : \A i \in DOMAIN Queue(s) : Queue(s)[i] # n
  BY ArrivalStep DEF DispatchToStale
<1>2. /\ lost' = lost \cup {n} /\ sessions' = Without(sessions, f)
      /\ UNCHANGED <<session, forwarded, replies>>
  BY DEF DispatchToStale
<1> HIDE DEF n
<1>3. /\ sessions' \in [DOMAIN sessions' -> DOMAIN session] /\ DOMAIN sessions' \subseteq DOMAIN sessions
      /\ \A g \in DOMAIN sessions' : sessions'[g] = sessions[g]
  BY <1>2 DEF IInv, Typed, Without, Restrict
<1>4. Typed'
  BY <1>1, <1>2, <1>3 DEF IInv, Typed
<1>5. NoDeadEntries'
  BY <1>2, <1>3 DEF IInv, NoDeadEntries
<1>6. Placed'
  <2>1. \A s \in DOMAIN session : Live(s) => Live(s)'
    BY <1>2 DEF Live, At
  <2>2. QueuesInOrder'
    BY <1>1, <1>2, <2>1 DEF IInv, Placed, QueuesInOrder, Queue, Distinct, Disjoint
  <2>3. OutsideInOrder'
    BY <1>1, <1>2 DEF IInv, Placed, OutsideInOrder, Distinct
  <2>4. NoneMissing'
    BY <1>1, <1>2 DEF IInv, Placed, NoneMissing, Queued, WasForwarded, Queue
  <2> QED
    BY <2>2, <2>3, <2>4 DEF Placed
<1> QED
  BY <1>4, <1>5, <1>6 DEF IInv

(* The datagram is queued: last in the queue of a live session, or alone in
   that of a new one. *)
LEMMA EnqueueStep ==
    ASSUME IInv, NEW f \in Flows, Arrives(f), NEW s, s \in DOMAIN session',
           UNCHANGED <<forwarded, lost, replies>>, session' \in Seq(Session),
           \/ /\ s \in DOMAIN session /\ DOMAIN session' = DOMAIN session
              /\ session'[s].queue = Append(Queue(s), Len(arrived) + 1)
              /\ session'[s].flow = session[s].flow
           \/ /\ s \notin DOMAIN session /\ DOMAIN session' = DOMAIN session \cup {s}
              /\ session'[s].queue = <<Len(arrived) + 1>>,
           session'[s].flow = f, Live(s)',
           \A t \in DOMAIN session : t # s => session'[t] = session[t]
    PROVE  Placed'
<1> DEFINE n == Len(arrived) + 1
           q == session'[s].queue
<1>1. /\ n \in 1..MaxDatagrams /\ Len(arrived') = n
      /\ arrived'[n] = f /\ \A d \in 1..Len(arrived) : arrived'[d] = arrived[d]
      /\ \A d : d \in 1..n <=> d \in 1..Len(arrived) \/ d = n
      /\ n \notin lost
      /\ \A i \in DOMAIN forwarded : forwarded[i] # n
      /\ \A t \in DOMAIN session : \A i \in DOMAIN Queue(t) : Queue(t)[i] # n
  BY ArrivalStep
<1>2. \E m \in DOMAIN q :
         /\ q[m] = n
         /\ \A i \in DOMAIN q : i # m => /\ s \in DOMAIN session /\ session[s].flow = f
                                         /\ i \in DOMAIN Queue(s) /\ q[i] = Queue(s)[i]
         /\ s \in DOMAIN session => \A i \in DOMAIN Queue(s) : i \in DOMAIN q /\ q[i] = Queue(s)[i]
  <2>1. CASE s \in DOMAIN session
    <3> DEFINE p == Queue(s)
    <3>1. q = Append(p, n) /\ session[s].flow = f
      BY <2>1
    <3>2. p \in Seq(1..MaxDatagrams)
      BY <2>1, Fields DEF IInv, Typed, Queue
    <3> HIDE DEF p, n, q
    <3>3. /\ Len(p) + 1 \in DOMAIN q /\ q[Len(p) + 1] = n
          /\ \A i \in DOMAIN q : i # Len(p) + 1 => i \in DOMAIN p /\ q[i] = p[i]
          /\ \A i \in DOMAIN p : i \in DOMAIN q /\ q[i] = p[i]
      BY <1>1, <3>1, <3>2
    <3> QED
      BY <2>1, <3>1, <3>3 DEF p
  <2>2. CASE s \notin DOMAIN session
    <3>1. q = <<n>>
      BY <2>2
    <3> HIDE DEF q, n
    <3>2. 1 \in DOMAIN q /\ q[1] = n /\ \A i \in DOMAIN q : i = 1
      BY <3>1
    <3> QED
      BY <2>2, <3>2
  <2> QED
    BY <2>1, <2>2
<1>3. PICK m \in DOMAIN q :
         /\ q[m] = n
         /\ \A i \in DOMAIN q : i # m => /\ s \in DOMAIN session /\ session[s].flow = f
                                         /\ i \in DOMAIN Queue(s) /\ q[i] = Queue(s)[i]
         /\ s \in DOMAIN session => \A i \in DOMAIN Queue(s) : i \in DOMAIN q /\ q[i] = Queue(s)[i]
  BY <1>2
<1>4. /\ Queue(s)' = q
      /\ \A t \in DOMAIN session : t # s => Queue(t)' = Queue(t) /\ (Live(t) => Live(t)')
      /\ \A t \in DOMAIN session' : t # s => t \in DOMAIN session
      /\ \A t \in DOMAIN session : t \in DOMAIN session'
  BY DEF Queue, Live, At
<1> HIDE DEF n, q
<1>5. QueuesInOrder'
  <2>1. ASSUME NEW t \in DOMAIN session' PROVE Distinct(Queue(t))'
    <3>1. CASE t = s
      BY <1>1, <1>3, <1>4, <3>1 DEF IInv, Placed, QueuesInOrder, Distinct
    <3>2. CASE t # s
      BY <1>4, <3>2 DEF IInv, Placed, QueuesInOrder, Distinct
    <3> QED
      BY <3>1, <3>2
  <2>2. ASSUME NEW t \in DOMAIN session', NEW u \in DOMAIN session', t # u
        PROVE  Disjoint(Queue(t)', Queue(u)')
    <3>1. CASE t = s
      BY <1>1, <1>3, <1>4, <2>2, <3>1 DEF IInv, Placed, QueuesInOrder, Disjoint
    <3>2. CASE u = s
      BY <1>1, <1>3, <1>4, <2>2, <3>2 DEF IInv, Placed, QueuesInOrder, Disjoint
    <3>3. CASE t # s /\ u # s
      BY <1>4, <2>2, <3>3 DEF IInv, Placed, QueuesInOrder
    <3> QED
      BY <3>1, <3>2, <3>3
  <2>3. ASSUME NEW t \in DOMAIN session' PROVE Disjoint(Queue(t)', forwarded)
    <3>1. CASE t = s
      BY <1>1, <1>3, <1>4, <3>1 DEF IInv, Placed, QueuesInOrder, Disjoint
    <3>2. CASE t # s
      BY <1>4, <3>2 DEF IInv, Placed, QueuesInOrder
    <3> QED
      BY <3>1, <3>2
  <2>4. ASSUME NEW t \in DOMAIN session', NEW i \in DOMAIN (Queue(t)')
        PROVE  /\ Queue(t)'[i] \in 1..n /\ Queue(t)'[i] \notin lost
               /\ arrived'[Queue(t)'[i]] = session'[t].flow
               /\ Live(t)'
    <3>1. CASE t = s /\ i = m
      BY <1>1, <1>3, <1>4, <3>1
    <3>2. CASE t = s /\ i # m
      <4>1. /\ s \in DOMAIN session /\ i \in DOMAIN Queue(s)
            /\ Queue(t)'[i] = Queue(s)[i] /\ session[s].flow = f
        BY <1>3, <1>4, <2>4, <3>2
      <4>2. /\ Queue(s)[i] \in 1..Len(arrived) /\ Queue(s)[i] \notin lost
            /\ arrived[Queue(s)[i]] = session[s].flow
        BY <4>1 DEF IInv, Placed, QueuesInOrder
      <4> QED
        BY <1>1, <3>2, <4>1, <4>2
    <3>3. CASE t # s
      <4>1. /\ t \in DOMAIN session /\ i \in DOMAIN Queue(t) /\ Queue(t)'[i] = Queue(t)[i]
            /\ session'[t].flow = session[t].flow /\ (Live(t) => Live(t)')
        BY <1>4, <2>4, <3>3
      <4>2. /\ Queue(t)[i] \in 1..Len(arrived) /\ Queue(t)[i] \notin lost
            /\ arrived[Queue(t)[i]] = session[t].flow /\ Live(t)
        BY <4>1 DEF IInv, Placed, QueuesInOrder
      <4> QED
        BY <1>1, <4>1, <4>2
    <3> QED
      BY <3>1, <3>2, <3>3
  <2> QED
    BY <1>1, <2>1, <2>2, <2>3, <2>4 DEF QueuesInOrder
<1>6. OutsideInOrder'
  BY <1>1 DEF IInv, Placed, OutsideInOrder, Distinct
<1>7. NoneMissing'
  <2> SUFFICES ASSUME NEW d \in 1..n PROVE d \in lost \/ WasForwarded(d)' \/ Queued(d)'
    BY <1>1 DEF NoneMissing
  <2>1. CASE d = n
    BY <1>3, <1>4, <2>1 DEF Queued
  <2>2. CASE d \in 1..Len(arrived) /\ (d \in lost \/ WasForwarded(d))
    BY <2>2 DEF WasForwarded
  <2>3. CASE Queued(d)
    <3>1. PICK t \in DOMAIN session : \E i \in DOMAIN Queue(t) : Queue(t)[i] = d
      BY <2>3 DEF Queued
    <3>2. PICK i \in DOMAIN Queue(t) : Queue(t)[i] = d
      BY <3>1
    <3>3. t \in DOMAIN session' /\ i \in DOMAIN (Queue(t)') /\ Queue(t)'[i] = d
      BY <1>3, <1>4, <3>2
    <3> QED
      BY <3>3 DEF Queued
  <2> QED
    BY <1>1, <2>1, <2>2, <2>3 DEF IInv, Placed, NoneMissing
<1> QED
  BY <1>5, <1>6, <1>7 DEF Placed

LEMMA DispatchToSessionStep ==
    ASSUME IInv, NEW f \in Flows, DispatchToSession(f)
    PROVE  IInv'
<1>0. PICK s : s = sessions[f]
  OBVIOUS
<1> DEFINE n == Len(arrived) + 1
           q == Append(Queue(s), n)
           r == Record(session[s].flow, session[s].pc, q, session[s].timer)
<1>1. /\ Arrives(f) /\ f \in DOMAIN sessions /\ s \in DOMAIN session /\ session[s] \in Session
      /\ Live(s) /\ session[s].flow = f
      /\ UNCHANGED <<sessions, forwarded, lost, replies>>
  BY <1>0 DEF DispatchToSession, IInv, Typed, NoDeadEntries
<1>2. session' = [session EXCEPT ![s] = r]
  <2> DEFINE x == session[s]
  <2>1. session' = [session EXCEPT ![s] = [x EXCEPT !.queue = q]]
    BY <1>0, <1>1 DEF DispatchToSession, IInv, Typed, Queue
  <2>2. [x EXCEPT !.queue = q] = Record(x.flow, x.pc, q, x.timer)
    <3>1. x = Record(x.flow, x.pc, x.queue, x.timer)
      BY <1>1, Fields
    <3> HIDE DEF x, q
    <3> QED
      BY <3>1 DEF Record
  <2> QED
    BY <2>1, <2>2
<1>3. r \in Session /\ r.queue = q /\ r.flow = f /\ r.pc = session[s].pc
  <2>1. n \in 1..MaxDatagrams
    BY <1>1, ArrivalStep
  <2>2. Queue(s) \in Seq(1..MaxDatagrams)
    BY <1>1, Fields DEF Queue
  <2> HIDE DEF n
  <2>3. q \in Seq(1..MaxDatagrams)
    BY <2>1, <2>2, AppendProperties
  <2> HIDE DEF q
  <2> QED
    BY <1>1, <2>3, Fields DEF Record, Session
<1> HIDE DEF r
<1>4. /\ session' \in Seq(Session) /\ DOMAIN session' = DOMAIN session /\ session'[s] = r
      /\ \A t \in DOMAIN session : t # s => session'[t] = session[t]
  BY <1>1, <1>2, <1>3, SessionStep DEF IInv
<1>5. Typed'
  BY <1>1, <1>4, ArrivalStep DEF IInv, Typed
<1>6. NoDeadEntries'
  BY <1>1, <1>3, <1>4 DEF IInv, NoDeadEntries, Typed
<1>7. Placed'
  <2>1. Live(s)'
    BY <1>1, <1>3, <1>4 DEF Live, At
  <2>2. session'[s].queue = q /\ session'[s].flow = f /\ session'[s].flow = session[s].flow
    BY <1>1, <1>3, <1>4
  <2> QED
    BY <1>1, <1>4, <2>1, <2>2, EnqueueStep
<1> QED
  BY <1>5, <1>6, <1>7 DEF IInv

LEMMA DispatchNewStep ==
    ASSUME IInv, NEW f \in Flows, DispatchNew(f)
    PROVE  IInv'
<1>0. PICK s : s = Len(session) + 1
  OBVIOUS
<1> DEFINE n == Len(arrived) + 1
           r == Record(f, "associate", <<n>>, 0)
<1>1. /\ Arrives(f) /\ f \notin DOMAIN sessions
      /\ session' = Append(session, r)
      /\ sessions' = [g \in DOMAIN sessions \cup {f} |-> IF g = f THEN s ELSE sessions[g]]
      /\ UNCHANGED <<forwarded, lost, replies>>
  BY <1>0 DEF DispatchNew, Record
<1>2. r \in Session /\ r.queue = <<n>> /\ r.flow = f /\ r.pc = "associate"
  <2>1. n \in 1..MaxDatagrams
    BY <1>1, ArrivalStep
  <2> HIDE DEF n
  <2> QED
    BY <2>1, RelayAssumption DEF Record, Session
<1> HIDE DEF r
<1>3. session \in Seq(Session)
  BY DEF IInv, Typed
<1>4. /\ session' \in Seq(Session) /\ DOMAIN session' = DOMAIN session \cup {s}
      /\ s \notin DOMAIN session /\ session'[s] = r
      /\ \A t \in DOMAIN session : session'[t] = session[t]
  BY <1>0, <1>1, <1>2, <1>3
<1>5. Typed'
  <2>1. sessions' \in [DOMAIN sessions' -> DOMAIN session'] /\ DOMAIN sessions' \subseteq Flows
    BY <1>1, <1>4 DEF IInv, Typed
  <2> QED
    BY <1>1, <1>4, <2>1, ArrivalStep DEF IInv, Typed
<1>6. NoDeadEntries'
  BY <1>1, <1>2, <1>4 DEF IInv, NoDeadEntries, Typed
<1>7. Placed'
  <2>1. Live(s)'
    BY <1>2, <1>4 DEF Live, At
  <2>2. session'[s].queue = <<n>> /\ session'[s].flow = f
    BY <1>2, <1>4
  <2> QED
    BY <1>1, <1>4, <2>1, <2>2, EnqueueStep
<1> QED
  BY <1>5, <1>6, <1>7 DEF IInv

LEMMA EndStep ==
    ASSUME IInv, NEW s \in Sessions,
           \/ AssociateFails(s) \/ ForwardFails(s) \/ ChannelClosed(s)
           \/ AssociationEnds(s) \/ IdleTimeout(s)
    PROVE  IInv'
<1>1. Live(s) /\ UNCHANGED <<sessions, arrived, forwarded, replies>>
  BY DEF AssociateFails, ForwardFails, ChannelClosed, AssociationEnds, IdleTimeout, Live, At
<1>2. Exit(s, Range(Queue(s)))
  <2>1. CASE ChannelClosed(s)
    <3>1. Range(Queue(s)) = {}
      BY <2>1 DEF ChannelClosed, Queue, Range
    <3> QED
      BY <2>1, <3>1 DEF ChannelClosed
  <2>2. CASE ~ChannelClosed(s)
    BY <2>2 DEF AssociateFails, ForwardFails, AssociationEnds, IdleTimeout, Queue
  <2> QED
    BY <2>1, <2>2
<1> QED
  BY <1>1, <1>2, ExitStep

LEMMA NextIInv == IInv /\ [Next]_vars => IInv'
<1> SUFFICES ASSUME IInv, [Next]_vars PROVE IInv'
  OBVIOUS
<1>1. ASSUME NEW f \in Flows, Dispatch(f)
      PROVE  IInv'
  BY <1>1, DispatchToSessionStep, DispatchToStaleStep, DispatchNewStep DEF Dispatch
<1>2. ASSUME NEW s \in Sessions, Associate(s) \/ Run(s) \/ RelayDatagram(s) \/ AssociationEnds(s)
      PROVE  IInv'
  BY <1>2, QuietStep, ForwardStep, EndStep DEF Associate, Run
<1>3. CASE UNCHANGED vars
  BY <1>3 DEF vars, IInv, Typed, NoDeadEntries, Placed, QueuesInOrder, OutsideInOrder,
     NoneMissing, Queue, Queued, WasForwarded, Distinct, Disjoint, Live, At
<1> QED
  BY <1>1, <1>2, <1>3, TickStep DEF Next

LEMMA IInvAlways == Spec => []IInv
BY InitIInv, NextIInv, PTL DEF Spec

-----------------------------------------------------------------------------
(* From places to numbers: a datagram is in one of three places, and there
   once. *)
LEMMA PlacedCounts ==
    ASSUME IInv, NEW d \in 1..Len(arrived)
    PROVE  Cardinality({s \in DOMAIN session : d \in Range(Queue(s))})
             + Cardinality({i \in DOMAIN forwarded : forwarded[i] = d})
             + (IF d \in lost THEN 1 ELSE 0) = 1
<1> DEFINE holders == {s \in DOMAIN session : d \in Range(Queue(s))}
           places == {i \in DOMAIN forwarded : forwarded[i] = d}
<1>1. \A s \in DOMAIN session : s \in holders <=> \E i \in DOMAIN Queue(s) : Queue(s)[i] = d
  BY DEF Range
<1>2. \A s, t \in holders : s = t
  BY <1>1 DEF IInv, Placed, QueuesInOrder, Disjoint
<1>3. \A i, j \in places : i = j
  BY DEF IInv, Placed, OutsideInOrder, Distinct
<1>4. holders # {} => places = {} /\ d \notin lost
  BY <1>1 DEF IInv, Placed, QueuesInOrder, Disjoint
<1>5. places # {} => d \notin lost
  BY DEF IInv, Placed, OutsideInOrder
<1>6. d \in lost \/ places # {} \/ holders # {}
  BY <1>1 DEF IInv, Placed, NoneMissing, Queued, WasForwarded
<1> HIDE DEF holders, places
<1>7. Cardinality({}) = 0 /\ \A x : Cardinality({x}) = 1
  BY FS_EmptySet, FS_Singleton
<1>8. /\ holders # {} => Cardinality(holders) = 1
      /\ places # {} => Cardinality(places) = 1
  <2>1. ASSUME NEW s \in holders PROVE holders = {s}
    BY <1>2
  <2>2. ASSUME NEW i \in places PROVE places = {i}
    BY <1>3
  <2> QED
    BY <1>7, <2>1, <2>2
<1>9. Cardinality(holders) + Cardinality(places) + (IF d \in lost THEN 1 ELSE 0) = 1
  <2>1. CASE d \in lost
    <3>1. holders = {} /\ places = {}
      BY <1>4, <1>5, <2>1
    <3> QED
      BY <1>7, <2>1, <3>1
  <2>2. CASE d \notin lost /\ holders # {}
    BY <1>4, <1>7, <1>8, <2>2
  <2>3. CASE d \notin lost /\ holders = {} /\ places # {}
    BY <1>7, <1>8, <2>3
  <2> QED
    BY <1>6, <2>1, <2>2, <2>3
<1> QED
  BY <1>9 DEF holders, places

(* The types of the state: the map leads to sessions that exist, queues hold
   datagrams that have arrived (SessionMap, dispatch). *)
THEOREM TypeCorrect == Spec => []TypeOK
<1>1. IInv => TypeOK
  BY DEF IInv, Typed, TypeOK
<1> QED
  BY <1>1, IInvAlways, PTL

(* An entry of the session map always leads to a session of its own flow that
   still has its cleanup to do: although the cleanup removes whatever entry the
   flow has by then, none is left behind that would swallow datagrams
   (dispatch, and the task that it spawns). *)
THEOREM NoDeadEntriesAlways == Spec => []NoDeadEntries
<1>1. IInv => NoDeadEntries
  BY DEF IInv
<1> QED
  BY <1>1, IInvAlways, PTL

(* No datagram is sent twice, sent by another flow's session, or parked where
   no task looks, whatever sessions end while it is on its way (dispatch,
   run_session). *)
THEOREM AccountedAlways == Spec => []Accounted
<1>1. IInv => Accounted
  <2> SUFFICES ASSUME IInv PROVE Accounted
    OBVIOUS
  <2>1. \A d \in 1..Len(arrived) :
          Cardinality({s \in DOMAIN session : d \in Range(session[s].queue)})
            + Cardinality({i \in DOMAIN forwarded : forwarded[i] = d})
            + (IF d \in lost THEN 1 ELSE 0) = 1
    BY PlacedCounts DEF Queue
  <2>2. ASSUME NEW s \in DOMAIN session, session[s].queue # << >>
        PROVE  Live(s) /\ \A d \in Range(session[s].queue) : arrived[d] = session[s].flow
    <3> DEFINE q == session[s].queue
    <3>1. q \in Seq(1..MaxDatagrams)
      BY Fields DEF IInv, Typed
    <3>2. \A i \in DOMAIN q : Live(s) /\ arrived[q[i]] = session[s].flow
      BY DEF IInv, Placed, QueuesInOrder, Queue
    <3>3. 1 \in DOMAIN q
      <4> HIDE DEF q
      <4>1. q # << >>
        BY <2>2 DEF q
      <4> QED
        BY <3>1, <4>1
    <3> QED
      BY <3>2, <3>3 DEF Range
  <2> QED
    BY <2>1, <2>2 DEF Accounted
<1> QED
  BY <1>1, IInvAlways, PTL
=============================================================================
