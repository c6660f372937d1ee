-------------------------------- MODULE Relay --------------------------------
(***************************************************************************)
(* The life of an established tunnel in src/proxy.rs: the end of           *)
(* handle_connection (the bytes the upstream proxy sent along with its     *)
(* CONNECT response go to the client first) and relay_with_shutdown.       *)
(*                                                                         *)
(* Direction "up" carries the client's bytes to the upstream proxy, "down" *)
(* the bytes of the upstream proxy to the client.  Since TCP keeps order,  *)
(* a direction is described by how many of its bytes have got how far:     *)
(*                                                                         *)
(*      sent >= read >= written >= taken                                   *)
(*                                                                         *)
(* sent by the source, read by the relay, written by the relay, taken by   *)
(* the destination.  sent - read lies in the receive buffer of the relay's *)
(* socket, written - taken in the buffers towards the destination; both    *)
(* are bounded.                                                            *)
(***************************************************************************)
EXTENDS Integers

CONSTANTS
    GRACE_PERIOD,    \* SHUTDOWN_GRACE_PERIOD
    RELAY_BUF_SIZE,  \* most bytes one read returns
    SocketBuffer,    \* bytes that fit between two ends of a connection
    MaxBytes,        \* bound: bytes a source sends
    MaxLeftover      \* bound: payload that arrived with the CONNECT response

ASSUME RelayAssumption ==
    /\ GRACE_PERIOD \in Nat \ {0}
    /\ RELAY_BUF_SIZE \in Nat \ {0}
    /\ SocketBuffer \in Nat \ {0}
    /\ MaxBytes \in Nat
    /\ MaxLeftover \in 0..MaxBytes

VARIABLES
    sent, read, written, taken,  \* progress of either direction
    closed,   \* the source has closed its sending half
    eof,      \* client_eof ("up") and server_eof ("down")
    shut,     \* the write half towards the destination has been shut down
    pc,       \* "select", inside write_all for a direction, "done", "error"
    timer,    \* grace_timer: what is left of it, or None (-1)
    expired,  \* auxiliary: the grace period has run out
    elapsed   \* auxiliary: time since the first EOF, or None (-1)

vars == <<sent, read, written, taken, closed, eof, shut, pc, timer, expired, elapsed>>

peers == <<sent, closed, taken>>
relay == <<read, written, eof, shut, pc, timer, expired, elapsed>>

Dirs == {"up", "down"}
Other(d) == IF d = "up" THEN "down" ELSE "up"
None == -1

(* The leftover of the handshake has been read already and is being written
   (inbound.write_all) before the relay's loop starts. *)
Init ==
    \E leftover \in 0..MaxLeftover :
        /\ sent = [d \in Dirs |-> IF d = "down" THEN leftover ELSE 0]
        /\ read = sent
        /\ written = [d \in Dirs |-> 0]
        /\ taken = [d \in Dirs |-> 0]
        /\ closed = [d \in Dirs |-> FALSE]
        /\ eof = [d \in Dirs |-> FALSE]
        /\ shut = [d \in Dirs |-> FALSE]
        /\ pc = IF leftover > 0 THEN "down" ELSE "select"
        /\ timer = None
        /\ expired = FALSE
        /\ elapsed = None

Running == pc \notin {"done", "error"}

-----------------------------------------------------------------------------
(***************************************************************************)
(* The two peers (external).                                               *)
(***************************************************************************)
PeerSends(d) ==
    /\ Running /\ ~closed[d]
    /\ sent[d] < MaxBytes /\ sent[d] - read[d] < SocketBuffer
    /\ sent' = [sent EXCEPT ![d] = @ + 1]
    /\ UNCHANGED <<closed, taken, relay>>

PeerCloses(d) ==
    /\ Running /\ ~closed[d]
    /\ closed' = [closed EXCEPT ![d] = TRUE]
    /\ UNCHANGED <<sent, taken, relay>>

PeerTakes(d) ==
    /\ taken[d] < written[d]
    /\ taken' = [taken EXCEPT ![d] = @ + 1]
    /\ UNCHANGED <<sent, closed, relay>>

-----------------------------------------------------------------------------
(***************************************************************************)
(* relay_with_shutdown.                                                    *)
(***************************************************************************)
ReadDataRearms(d) ==                        \* mutated: traffic restarts the timer
    /\ pc = "select" /\ ~eof[d]
    /\ \E n \in 1..RELAY_BUF_SIZE :
          /\ read[d] + n <= sent[d]
          /\ read' = [read EXCEPT ![d] = @ + n]
    /\ pc' = d
    /\ timer' = IF timer = None THEN None ELSE GRACE_PERIOD
    /\ UNCHANGED <<peers, written, eof, shut, expired, elapsed>>

(* A read returns some of what is there; write_all of it begins. *)
ReadData(d) ==
    /\ pc = "select" /\ ~eof[d]
    /\ \E n \in 1..RELAY_BUF_SIZE :
          /\ read[d] + n <= sent[d]
          /\ read' = [read EXCEPT ![d] = @ + n]
    /\ pc' = d
    /\ UNCHANGED <<peers, written, eof, shut, timer, expired, elapsed>>

WriteShort(d) ==                            \* mutated: write instead of write_all
    /\ pc = d
    /\ written[d] - taken[d] < SocketBuffer
    /\ written' = [written EXCEPT ![d] = @ + 1]
    /\ pc' = "select"
    /\ UNCHANGED <<peers, read, eof, shut, timer, expired, elapsed>>

(* write_all proceeds while there is room, and returns to the select when all
   is written.  Neither the other direction nor the timer is polled before. *)
WriteSome(d) ==
    /\ pc = d
    /\ written[d] - taken[d] < SocketBuffer
    /\ written' = [written EXCEPT ![d] = @ + 1]
    /\ pc' = IF written[d] + 1 = read[d] THEN "select" ELSE d
    /\ UNCHANGED <<peers, read, eof, shut, timer, expired, elapsed>>

ReadEofEnds(d) ==                           \* mutated: the first EOF ends the tunnel
    /\ pc = "select" /\ ~eof[d]
    /\ closed[d] /\ read[d] = sent[d]
    /\ eof' = [eof EXCEPT ![d] = TRUE]
    /\ shut' = [shut EXCEPT ![d] = TRUE]
    /\ pc' = "done"
    /\ elapsed' = IF elapsed = None THEN 0 ELSE elapsed
    /\ UNCHANGED <<peers, read, written, timer, expired>>

ReadEofUntimed(d) ==                        \* mutated: no grace timer is started
    /\ pc = "select" /\ ~eof[d]
    /\ closed[d] /\ read[d] = sent[d]
    /\ eof' = [eof EXCEPT ![d] = TRUE]
    /\ shut' = [shut EXCEPT ![d] = TRUE]
    /\ elapsed' = IF elapsed = None THEN 0 ELSE elapsed
    /\ pc' = IF eof[Other(d)] THEN "done" ELSE "select"
    /\ UNCHANGED <<peers, read, written, timer, expired>>

(* A read of 0 bytes: flag it, start the grace timer unless there is nothing
   left to wait for, shut the other side's write half down. *)
ReadEof(d) ==
    /\ pc = "select" /\ ~eof[d]
    /\ closed[d] /\ read[d] = sent[d]
    /\ eof' = [eof EXCEPT ![d] = TRUE]
    /\ shut' = [shut EXCEPT ![d] = TRUE]
    /\ timer' = IF ~eof[Other(d)] /\ timer = None THEN GRACE_PERIOD ELSE timer
    /\ elapsed' = IF elapsed = None THEN 0 ELSE elapsed
    /\ pc' = IF eof[Other(d)] THEN "done" ELSE "select"
    /\ UNCHANGED <<peers, read, written, expired>>

(* The grace timer fires in the select: both directions end. *)
GraceExpires ==
    /\ pc = "select" /\ timer = 0
    /\ \E d \in Dirs : ~eof[d]
    /\ shut' = [d \in Dirs |-> shut[d] \/ ~eof[d]]
    /\ eof' = [d \in Dirs |-> TRUE]
    /\ expired' = TRUE
    /\ pc' = "done"
    /\ UNCHANGED <<peers, read, written, timer, elapsed>>

(* A read fails in the select, or a write fails in write_all: both sockets
   are dropped. *)
Fails ==
    /\ Running
    /\ pc' = "error"
    /\ UNCHANGED <<peers, read, written, eof, shut, timer, expired, elapsed>>

(* Seconds pass only while the relay waits: not in a select whose timer has
   fired, nor in a write for which there is room. *)
Blocked(d) == pc = d /\ written[d] - taken[d] = SocketBuffer

Tick ==
    /\ elapsed # None
    /\ (pc = "select" /\ timer # 0) \/ \E d \in Dirs : Blocked(d)
    /\ elapsed <= GRACE_PERIOD
    /\ elapsed' = elapsed + 1
    /\ timer' = IF timer > 0 THEN timer - 1 ELSE timer
    /\ UNCHANGED <<peers, read, written, eof, shut, pc, expired>>

-----------------------------------------------------------------------------
Next ==
    \/ \E d \in Dirs : PeerSends(d) \/ PeerCloses(d) \/ PeerTakes(d)
    \/ \E d \in Dirs : ReadData(d) \/ WriteSome(d) \/ ReadEof(d)
    \/ GraceExpires
    \/ Fails
    \/ Tick

(***************************************************************************)
(* The relay task is scheduled and time passes.  The select is not biased: *)
(* it picks among its ready branches at random, so a branch that is ready  *)
(* again and again is taken.                                               *)
(***************************************************************************)
Fairness ==
    /\ \A d \in Dirs : SF_vars(ReadData(d)) /\ WF_vars(WriteSome(d)) /\ SF_vars(ReadEof(d))
    /\ WF_vars(GraceExpires)
    /\ WF_vars(Tick)

Spec == Init /\ [][Next]_vars /\ Fairness

-----------------------------------------------------------------------------
TypeOK ==
    /\ sent \in [Dirs -> 0..MaxBytes] /\ read \in [Dirs -> 0..MaxBytes]
    /\ written \in [Dirs -> 0..MaxBytes] /\ taken \in [Dirs -> 0..MaxBytes]
    /\ closed \in [Dirs -> BOOLEAN] /\ eof \in [Dirs -> BOOLEAN]
    /\ shut \in [Dirs -> BOOLEAN]
    /\ pc \in Dirs \cup {"select", "done", "error"}
    /\ timer \in {None} \cup 0..GRACE_PERIOD
    /\ expired \in BOOLEAN
    /\ elapsed \in {None} \cup Nat

(* A destination that sees the end of the stream has been sent all of it: the
   relay shuts a write half down only when the source has closed and every
   byte, the leftover of the handshake included, has been written, unless
   the grace period cut the direction off. *)
CleanEnd ==
    \A d \in Dirs : shut[d] /\ ~expired => closed[d] /\ written[d] = sent[d]

(* A half-close is not a close: the relay ends by itself only when both
   directions are complete, or when the grace period is over. *)
HalfCloseIsNotClose ==
    pc = "done" => \/ \A d \in Dirs : closed[d] /\ written[d] = sent[d]
                   \/ expired /\ elapsed >= GRACE_PERIOD

(* The grace period is absolute ("relay grace period was extended by
   continued upstream data" is the failure message of its test): however much
   traffic there is in the other direction, and however often the select is
   entered anew, nothing but a write that is blocked lets time pass beyond
   the grace period. *)
GraceIsAbsolute ==
    [][elapsed' > elapsed /\ elapsed >= GRACE_PERIOD => \E d \in Dirs : Blocked(d)]_vars

(* A write that never finds room again: nothing bounds the wait of write_all. *)
Stuck == \E d \in Dirs : []Blocked(d)

(* A tunnel one side of which has closed ends, whatever its peers do: however
   slowly they read, however long the other one goes on sending, the timer gets
   its turn, but for a write that is blocked for good. *)
HalfClosedEnds == (\E d \in Dirs : eof[d]) ~> (~Running \/ Stuck)

(* Whatever a source sends is eventually written to its destination, in both
   directions at once, or the tunnel ends.  The exception is again a write that
   is blocked for good: it holds up the other direction too, so that two peers
   that both write before they read wait for each other. *)
AllIsPassedOn ==
    \A d \in Dirs, n \in 1..MaxBytes : (sent[d] = n) ~> (written[d] >= n \/ ~Running \/ Stuck)

(* "If the remaining direction doesn't complete within SHUTDOWN_GRACE_PERIOD,
   the connection is forcibly closed" (relay_with_shutdown): a tunnel one side
   of which has closed ends, without exception. *)
HalfClosedIsForced == (\E d \in Dirs : eof[d]) ~> ~Running

=============================================================================
