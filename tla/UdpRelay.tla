------------------------------ MODULE UdpRelay ------------------------------
(***************************************************************************)
(* The transparent UDP relay of src/udp.rs: run, dispatch, run_session.    *)
(*                                                                         *)
(* The listener dispatches each datagram to the session of its flow (the   *)
(* pair of client and original destination) over an unbounded channel,     *)
(* creating the session on first sight.  A session is a task that opens a  *)
(* SOCKS5 UDP association, shuttles datagrams in both directions and ends  *)
(* when it is idle, when the association closes, on an error, or when its  *)
(* channel has no sender left.  The only sender is the one in the session  *)
(* map; the task removes the map entry of its flow after run_session has   *)
(* returned, in a step of its own.                                         *)
(*                                                                         *)
(* Sessions and datagrams are numbered in order of creation and arrival.   *)
(* Timers count down, so time needs no bound.                              *)
(***************************************************************************)
EXTENDS Integers, Sequences, FiniteSets, Functions

CONSTANTS
    Flows,                 \* (client, original destination) pairs
    SESSION_IDLE_TIMEOUT,
    MaxDatagrams,          \* bound: client datagrams in a behaviour
    MaxReplies             \* bound: relay datagrams in a behaviour

ASSUME RelayAssumption ==
    /\ SESSION_IDLE_TIMEOUT \in Nat \ {0}
    /\ MaxDatagrams \in Nat /\ MaxReplies \in Nat

VARIABLES
    sessions,   \* the SessionMap: flow -> session whose sender it holds
    session,    \* every session task ever spawned, in order
    arrived,    \* the flow of every datagram dispatched so far
    forwarded,  \* datagrams sent to the SOCKS5 relay, in order
    lost,       \* auxiliary: datagrams that will never be forwarded
    replies     \* number of relay datagrams handled so far

vars == <<sessions, session, arrived, forwarded, lost, replies>>

(***************************************************************************)
(* A session: before its loop ("associate"), at the top of its loop        *)
(* ("loop"), in the select with the channel found empty ("select"),        *)
(* returned from run_session with its receiver dropped ("exited"), map     *)
(* cleaned ("gone").  Every datagram may spawn a session, so there are at  *)
(* most MaxDatagrams of them.                                              *)
(***************************************************************************)
Session == [flow : Flows, pc : {"associate", "loop", "select", "exited", "gone"},
            queue : Seq(1..MaxDatagrams), timer : 0..SESSION_IDLE_TIMEOUT]

Sessions == 1..MaxDatagrams

(* Session s exists and is at one of the given points. *)
At(s, pcs) == s \in DOMAIN session /\ session[s].pc \in pcs

Live(s) == At(s, {"associate", "loop", "select"})

Without(map, k) == Restrict(map, DOMAIN map \ {k})

Init ==
    /\ sessions = << >>
    /\ session = << >>
    /\ arrived = << >>
    /\ forwarded = << >>
    /\ lost = {}
    /\ replies = 0

-----------------------------------------------------------------------------
(***************************************************************************)
(* dispatch, under the lock on the map.  The datagram is number            *)
(* Len(arrived) + 1.                                                       *)
(***************************************************************************)
Arrives(f) ==
    /\ Len(arrived) < MaxDatagrams
    /\ arrived' = Append(arrived, f)

(* The flow has an entry and its session still holds the receiver. *)
DispatchToSession(f) ==
    /\ Arrives(f)
    /\ f \in DOMAIN sessions /\ Live(sessions[f])
    /\ session' = [session EXCEPT ![sessions[f]].queue = Append(@, Len(arrived) + 1)]
    /\ UNCHANGED <<sessions, forwarded, lost, replies>>

(* The send fails: the entry is stale.  It is removed, the datagram lost. *)
DispatchToStale(f) ==
    /\ Arrives(f)
    /\ f \in DOMAIN sessions /\ ~Live(sessions[f])
    /\ sessions' = Without(sessions, f)
    /\ lost' = lost \cup {Len(arrived) + 1}
    /\ UNCHANGED <<session, forwarded, replies>>

(* First sight of the flow: a session with the datagram already queued. *)
DispatchNew(f) ==
    /\ Arrives(f)
    /\ f \notin DOMAIN sessions
    /\ session' = Append(session, [flow |-> f, pc |-> "associate",
                                   queue |-> <<Len(arrived) + 1>>, timer |-> 0])
    /\ sessions' = [g \in DOMAIN sessions \cup {f} |->
                      IF g = f THEN Len(session) + 1 ELSE sessions[g]]
    /\ UNCHANGED <<forwarded, lost, replies>>

-----------------------------------------------------------------------------
(***************************************************************************)
(* run_session.  Exit(s) is every return from it: the receiver is dropped  *)
(* with whatever it still holds.                                           *)
(***************************************************************************)
SenderAlive(s) == \E f \in DOMAIN sessions : sessions[f] = s

Exit(s, dropping) ==
    /\ session' = [session EXCEPT ![s].pc = "exited", ![s].queue = << >>, ![s].timer = 0]
    /\ lost' = lost \cup dropping

(* udp_associate and the two sockets succeed: enter the loop. *)
Associated(s) ==
    /\ At(s, {"associate"})
    /\ session' = [session EXCEPT ![s].pc = "loop"]
    /\ UNCHANGED <<sessions, arrived, forwarded, lost, replies>>

AssociateFails(s) ==
    /\ At(s, {"associate"})
    /\ Exit(s, Range(session[s].queue))
    /\ UNCHANGED <<sessions, arrived, forwarded, replies>>

ForwardAgain(s) ==                          \* mutated: the datagram stays queued
    /\ At(s, {"loop", "select"}) /\ session[s].queue # << >>
    /\ Len(forwarded) < MaxDatagrams
    /\ forwarded' = Append(forwarded, Head(session[s].queue))
    /\ session' = [session EXCEPT ![s].pc = "loop", ![s].timer = 0]
    /\ UNCHANGED <<sessions, arrived, lost, replies>>

(* The biased select polls the channel first: a queued datagram is wrapped
   and sent, and the loop starts over ... *)
ForwardDatagram(s) ==
    /\ At(s, {"loop", "select"}) /\ session[s].queue # << >>
    /\ forwarded' = Append(forwarded, Head(session[s].queue))
    /\ session' = [session EXCEPT ![s].pc = "loop", ![s].queue = Tail(@), ![s].timer = 0]
    /\ UNCHANGED <<sessions, arrived, lost, replies>>

(* ... or the send to the relay fails and takes it along ... *)
ForwardFails(s) ==
    /\ At(s, {"loop", "select"}) /\ session[s].queue # << >>
    /\ Exit(s, Range(session[s].queue))
    /\ UNCHANGED <<sessions, arrived, forwarded, replies>>

ChannelClosedIgnored(s) ==                  \* mutated: None starts the loop over
    /\ At(s, {"loop", "select"}) /\ session[s].queue = << >>
    /\ ~SenderAlive(s)
    /\ session' = [session EXCEPT ![s].pc = "loop"]
    /\ UNCHANGED <<sessions, arrived, forwarded, lost, replies>>

(* ... the channel is empty and has no sender: recv returns None ... *)
ChannelClosed(s) ==
    /\ At(s, {"loop", "select"}) /\ session[s].queue = << >>
    /\ ~SenderAlive(s)
    /\ Exit(s, {})
    /\ UNCHANGED <<sessions, arrived, forwarded, replies>>

(* ... or it is empty for now and the other branches are polled, the idle timer
   armed anew.  A datagram may still be queued before one of them is taken. *)
ChannelPending(s) ==
    /\ At(s, {"loop"}) /\ session[s].queue = << >>
    /\ SenderAlive(s)
    /\ session' = [session EXCEPT ![s].pc = "select", ![s].timer = SESSION_IDLE_TIMEOUT]
    /\ UNCHANGED <<sessions, arrived, forwarded, lost, replies>>

(* A datagram from the relay, passed to the client or not understood, or
   data on the control connection (ignored): the loop starts over. *)
RelayDatagram(s) ==
    /\ At(s, {"select"})
    /\ replies < MaxReplies
    /\ replies' = replies + 1
    /\ session' = [session EXCEPT ![s].pc = "loop", ![s].timer = 0]
    /\ UNCHANGED <<sessions, arrived, forwarded, lost>>

(* The relay socket fails, or the control connection closes or fails. *)
AssociationEnds(s) ==
    /\ At(s, {"select"})
    /\ Exit(s, Range(session[s].queue))
    /\ UNCHANGED <<sessions, arrived, forwarded, replies>>

IdleTimeout(s) ==
    /\ At(s, {"select"}) /\ session[s].timer = 0
    /\ Exit(s, Range(session[s].queue))
    /\ UNCHANGED <<sessions, arrived, forwarded, replies>>

CleanupForgotten(s) ==                      \* mutated: the entry is left behind
    /\ At(s, {"exited"})
    /\ session' = [session EXCEPT ![s].pc = "gone"]
    /\ UNCHANGED <<sessions, arrived, forwarded, lost, replies>>

(* What the spawned task does after run_session: remove the flow's entry,
   whichever session it holds by now. *)
Cleanup(s) ==
    /\ At(s, {"exited"})
    /\ sessions' = Without(sessions, session[s].flow)
    /\ session' = [session EXCEPT ![s].pc = "gone"]
    /\ UNCHANGED <<arrived, forwarded, lost, replies>>

(* Time passes for the sessions that wait in their select. *)
Tick ==
    /\ \E s \in DOMAIN session : session[s].timer > 0
    /\ session' = [s \in DOMAIN session |->
                     [session[s] EXCEPT !.timer = IF @ > 0 THEN @ - 1 ELSE 0]]
    /\ UNCHANGED <<sessions, arrived, forwarded, lost, replies>>

-----------------------------------------------------------------------------
Dispatch(f) == DispatchToSession(f) \/ DispatchToStale(f) \/ DispatchNew(f)

Associate(s) == Associated(s) \/ AssociateFails(s)

(* What a session does whenever it is scheduled. *)
Run(s) ==
    \/ ForwardDatagram(s) \/ ForwardFails(s)
    \/ ChannelClosed(s) \/ ChannelPending(s)
    \/ IdleTimeout(s) \/ Cleanup(s)

Next ==
    \/ \E f \in Flows : Dispatch(f)
    \/ \E s \in Sessions :
          Associate(s) \/ Run(s) \/ RelayDatagram(s) \/ AssociationEnds(s)
    \/ Tick

(***************************************************************************)
(* Tasks keep being scheduled, time passes, and every phase of             *)
(* udp_associate has a timeout.  Nothing obliges clients or relay to send. *)
(***************************************************************************)
Fairness ==
    /\ WF_vars(Tick)
    /\ \A s \in Sessions : WF_vars(Associate(s)) /\ WF_vars(Run(s))

Spec == Init /\ [][Next]_vars /\ Fairness

-----------------------------------------------------------------------------
TypeOK ==
    /\ session \in Seq(Session)
    /\ \E S \in SUBSET Flows : sessions \in [S -> DOMAIN session]
    /\ arrived \in Seq(Flows)
    /\ forwarded \in Seq(1..MaxDatagrams)
    /\ lost \subseteq 1..MaxDatagrams
    /\ replies \in 0..MaxReplies

(* An entry of the map leads to a session of its flow that has not been
   cleaned up: no task ends for good and leaves its sender behind, where it
   would swallow the flow's datagrams. *)
NoDeadEntries ==
    \A f \in DOMAIN sessions :
        session[sessions[f]].flow = f /\ session[sessions[f]].pc # "gone"

(* Every datagram is queued in exactly one live session, forwarded, or lost:
   forwarded once at most, by a session of its own flow, and never parked
   where no task will look. *)
Accounted ==
    /\ \A d \in 1..Len(arrived) :
          Cardinality({s \in DOMAIN session : d \in Range(session[s].queue)})
            + Cardinality({i \in DOMAIN forwarded : forwarded[i] = d})
            + (IF d \in lost THEN 1 ELSE 0) = 1
    /\ \A s \in DOMAIN session :
          session[s].queue # << >> =>
             Live(s) /\ \A d \in Range(session[s].queue) : arrived[d] = session[s].flow

(* Nothing leaks: once clients and relay fall silent, every session task ends
   and the map is empty, also for sessions whose entry was taken by another. *)
EventuallyQuiet == <>[](sessions = << >> /\ \A s \in DOMAIN session : session[s].pc = "gone")

(* "Each unique (client, original-destination) pair becomes a session"
   (udp.rs, module documentation): no two sessions serve one flow at once. *)
OneSessionPerFlow ==
    \A s, t \in DOMAIN session :
        Live(s) /\ Live(t) /\ session[s].flow = session[t].flow => s = t
=============================================================================
