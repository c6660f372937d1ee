----------------------------- MODULE RelayProofs -----------------------------
(***************************************************************************)
(* Theorems about module Relay, for any number of bytes, any sizes of the  *)
(* buffers and any grace period.                                           *)
(*                                                                         *)
(* The inductive invariant has two parts that do not depend on each other. *)
(* InOrder says how far the bytes of a direction are: all that was read is *)
(* written whenever the relay is not inside write_all for that direction,  *)
(* and an EOF that was not forced by the timer was seen after the last of  *)
(* them.  Timed says that the timer runs from the first EOF on and has     *)
(* always as much left as the grace period is long.                        *)
(***************************************************************************)
EXTENDS Relay, TLAPS

(* Where the bytes of direction d are, and what its flags say about them. *)
InOrderAt(d) ==
    /\ taken[d] <= written[d] /\ written[d] <= read[d] /\ read[d] <= sent[d]
    /\ pc = d => written[d] < read[d] /\ ~eof[d]
    /\ pc \notin {d, "error"} => written[d] = read[d]
    /\ shut[d] = eof[d]
    /\ eof[d] /\ ~expired => closed[d] /\ written[d] = sent[d]

InOrder == \A d \in Dirs : InOrderAt(d)

Timed ==
    /\ (\A d \in Dirs : ~eof[d]) => timer = None /\ elapsed = None
    /\ (\E d \in Dirs : eof[d]) =>
          /\ elapsed \in Nat
          /\ timer = IF elapsed < GRACE_PERIOD THEN GRACE_PERIOD - elapsed ELSE 0
    /\ expired => elapsed >= GRACE_PERIOD
    /\ pc = "done" => \A d \in Dirs : eof[d]

IInv == TypeOK /\ InOrder /\ Timed

-----------------------------------------------------------------------------
(* The start, with or without a leftover of the handshake. *)
LEMMA InitIInv == Init => IInv
<1> SUFFICES ASSUME Init PROVE IInv
  OBVIOUS
<1>1. PICK leftover \in 0..MaxLeftover :
          /\ sent = [d \in Dirs |-> IF d = "down" THEN leftover ELSE 0]
          /\ read = sent
          /\ pc = IF leftover > 0 THEN "down" ELSE "select"
  BY DEF Init
<1>2. /\ written = [d \in Dirs |-> 0] /\ taken = [d \in Dirs |-> 0]
      /\ closed = [d \in Dirs |-> FALSE] /\ eof = [d \in Dirs |-> FALSE]
      /\ shut = [d \in Dirs |-> FALSE]
      /\ timer = None /\ expired = FALSE /\ elapsed = None
  BY DEF Init
<1>3. TypeOK
  <2>1. leftover \in 0..MaxBytes /\ 0 \in 0..MaxBytes
    BY RelayAssumption
  <2>2. sent \in [Dirs -> 0..MaxBytes] /\ read \in [Dirs -> 0..MaxBytes]
    BY <1>1, <2>1
  <2>3. written \in [Dirs -> 0..MaxBytes] /\ taken \in [Dirs -> 0..MaxBytes]
    BY <1>2, <2>1
  <2>4. pc \in Dirs \cup {"select", "done", "error"}
    BY <1>1 DEF Dirs
  <2> QED
    BY <1>2, <2>2, <2>3, <2>4 DEF TypeOK
<1>4. InOrder
  BY <1>1, <1>2, RelayAssumption DEF InOrder, InOrderAt, Dirs
<1>5. Timed
  BY <1>1, <1>2 DEF Timed, Dirs
<1> QED
  BY <1>3, <1>4, <1>5 DEF IInv

(* What the peers do leaves the relay's own state alone. *)
LEMMA PeerStep ==
    ASSUME IInv, NEW d \in Dirs, PeerSends(d) \/ PeerCloses(d) \/ PeerTakes(d)
    PROVE  IInv'
<1>1. CASE PeerSends(d)
  <2>1. TypeOK'
    BY <1>1, RelayAssumption DEF PeerSends, IInv, TypeOK, relay
  <2>2. InOrder'
    BY <1>1 DEF PeerSends, IInv, TypeOK, InOrder, InOrderAt, Running, relay, Dirs
  <2>3. Timed'
    BY <1>1 DEF PeerSends, IInv, Timed, relay
  <2> QED
    BY <2>1, <2>2, <2>3 DEF IInv
<1>2. CASE PeerCloses(d)
  <2>1. TypeOK'
    BY <1>2 DEF PeerCloses, IInv, TypeOK, relay
  <2>2. InOrder'
    BY <1>2 DEF PeerCloses, IInv, TypeOK, InOrder, InOrderAt, relay, Dirs
  <2>3. Timed'
    BY <1>2 DEF PeerCloses, IInv, Timed, relay
  <2> QED
    BY <2>1, <2>2, <2>3 DEF IInv
<1>3. CASE PeerTakes(d)
  <2>1. TypeOK'
    <3>1. taken[d] + 1 \in 0..MaxBytes
      BY <1>3, RelayAssumption DEF PeerTakes, IInv, TypeOK
    <3>2. taken' \in [Dirs -> 0..MaxBytes]
      BY <1>3, <3>1 DEF PeerTakes, IInv, TypeOK
    <3> QED
      BY <1>3, <3>2 DEF PeerTakes, IInv, TypeOK, relay
  <2>2. InOrder'
    BY <1>3 DEF PeerTakes, IInv, TypeOK, InOrder, InOrderAt, relay, Dirs
  <2>3. Timed'
    BY <1>3 DEF PeerTakes, IInv, Timed, relay
  <2> QED
    BY <2>1, <2>2, <2>3 DEF IInv
<1> QED
  BY <1>1, <1>2, <1>3

(* A read and the writes of write_all move bytes on and touch no flag. *)
LEMMA CopyStep ==
    ASSUME IInv, NEW d \in Dirs, ReadData(d) \/ WriteSome(d)
    PROVE  IInv'
<1>1. CASE ReadData(d)
  <2>1. PICK n \in 1..RELAY_BUF_SIZE :
            read[d] + n <= sent[d] /\ read' = [read EXCEPT ![d] = @ + n]
    BY <1>1 DEF ReadData
  <2>2. /\ pc = "select" /\ ~eof[d] /\ pc' = d
        /\ UNCHANGED <<peers, written, eof, shut, timer, expired, elapsed>>
    BY <1>1 DEF ReadData
  <2>3. n \in Nat /\ n > 0
    BY RelayAssumption
  <2>4. TypeOK'
    BY <2>1, <2>2, <2>3, RelayAssumption DEF IInv, TypeOK, peers, Dirs
  <2>5. InOrder'
    BY <2>1, <2>2, <2>3 DEF IInv, TypeOK, InOrder, InOrderAt, peers, Dirs
  <2>6. Timed'
    BY <2>2 DEF IInv, Timed, peers, Dirs
  <2> QED
    BY <2>4, <2>5, <2>6 DEF IInv
<1>2. CASE WriteSome(d)
  <2>1. TypeOK'
    BY <1>2, RelayAssumption DEF WriteSome, IInv, TypeOK, InOrder, InOrderAt, peers, Dirs
  <2>2. InOrder'
    BY <1>2 DEF WriteSome, IInv, TypeOK, InOrder, InOrderAt, peers, Dirs
  <2>3. Timed'
    BY <1>2 DEF WriteSome, IInv, Timed, peers, Dirs
  <2> QED
    BY <2>1, <2>2, <2>3 DEF IInv
<1> QED
  BY <1>1, <1>2

(* EOF in a direction, the first or the second one: it is seen in the select,
   where all that was read has been written. *)
LEMMA EofStep ==
    ASSUME IInv, NEW d \in Dirs, ReadEof(d)
    PROVE  IInv'
<1>1. TypeOK'
  BY RelayAssumption DEF ReadEof, IInv, TypeOK, peers, Dirs, None
<1>2. InOrder'
  BY DEF ReadEof, IInv, TypeOK, InOrder, InOrderAt, peers, Dirs
<1>3. Timed'
  BY RelayAssumption DEF ReadEof, IInv, TypeOK, Timed, peers, Dirs, Other, None
<1> QED
  BY <1>1, <1>2, <1>3 DEF IInv

(* The timer fires, something fails, or time passes. *)
LEMMA EndOrTick ==
    ASSUME IInv, GraceExpires \/ Fails \/ Tick
    PROVE  IInv'
<1>1. CASE GraceExpires
  <2>1. TypeOK'
    BY <1>1 DEF GraceExpires, IInv, TypeOK, peers, Dirs
  <2>2. InOrder'
    BY <1>1 DEF GraceExpires, IInv, TypeOK, InOrder, InOrderAt, peers, Dirs
  <2>3. Timed'
    BY <1>1, RelayAssumption DEF GraceExpires, IInv, TypeOK, Timed, peers, Dirs, None
  <2> QED
    BY <2>1, <2>2, <2>3 DEF IInv
<1>2. CASE Fails
  <2>1. TypeOK'
    BY <1>2 DEF Fails, IInv, TypeOK, peers
  <2>2. InOrder'
    BY <1>2 DEF Fails, IInv, InOrder, InOrderAt, peers, Dirs
  <2>3. Timed'
    BY <1>2 DEF Fails, IInv, Timed, peers
  <2> QED
    BY <2>1, <2>2, <2>3 DEF IInv
<1>3. CASE Tick
  <2>1. TypeOK'
    BY <1>3, RelayAssumption DEF Tick, IInv, TypeOK, peers, None
  <2>2. InOrder'
    BY <1>3 DEF Tick, IInv, InOrder, InOrderAt, peers
  <2>3. Timed'
    BY <1>3, RelayAssumption DEF Tick, IInv, TypeOK, Timed, peers, None
  <2> QED
    BY <2>1, <2>2, <2>3 DEF IInv
<1> QED
  BY <1>1, <1>2, <1>3

LEMMA NextIInv == IInv /\ [Next]_vars => IInv'
<1> SUFFICES ASSUME IInv, [Next]_vars PROVE IInv'
  OBVIOUS
<1>1. CASE UNCHANGED vars
  BY <1>1 DEF vars, IInv, TypeOK, InOrder, InOrderAt, Timed
<1>2. CASE Next
  BY <1>2, PeerStep, CopyStep, EofStep, EndOrTick DEF Next
<1> QED
  BY <1>1, <1>2

LEMMA IInvAlways == Spec => []IInv
BY InitIInv, NextIInv, PTL DEF Spec

-----------------------------------------------------------------------------
(* The destination of a direction that was ended by an EOF has been written
   all of its bytes, the leftover of the handshake included, however reads and
   writes are cut (relay_with_shutdown, handle_connection). *)
THEOREM CleanEndAlways == Spec => []CleanEnd
<1>1. IInv => CleanEnd
  BY DEF IInv, InOrder, InOrderAt, CleanEnd
<1> QED
  BY <1>1, IInvAlways, PTL

(* The relay ends by itself only when both directions are complete or the
   grace period is over: one EOF never ends the other direction
   (relay_with_shutdown). *)
THEOREM HalfCloseIsNotCloseAlways == Spec => []HalfCloseIsNotClose
<1>1. IInv => HalfCloseIsNotClose
  BY DEF IInv, InOrder, InOrderAt, Timed, HalfCloseIsNotClose
<1> QED
  BY <1>1, IInvAlways, PTL

(* No traffic, and no number of passes through the select, lets time go beyond
   the grace period; only a blocked write does (relay_with_shutdown, the
   pinned timer). *)
THEOREM GraceIsAbsoluteAlways == Spec => GraceIsAbsolute
<1>1. ASSUME IInv, [Next]_vars, elapsed' > elapsed, elapsed >= GRACE_PERIOD
      PROVE  \E d \in Dirs : Blocked(d)
  <2>1. elapsed # None
    BY <1>1, RelayAssumption DEF None
  <2>2. timer = 0
    <3>1. \E d \in Dirs : eof[d]
      BY <1>1, <2>1 DEF IInv, TypeOK, Timed
    <3>2. elapsed \in Nat /\ timer = IF elapsed < GRACE_PERIOD THEN GRACE_PERIOD - elapsed ELSE 0
      BY <1>1, <3>1 DEF IInv, Timed
    <3>3. ~(elapsed < GRACE_PERIOD)
      BY <1>1, <3>2, RelayAssumption
    <3> QED
      BY <3>2, <3>3
  <2>3. CASE Tick
    BY <2>2, <2>3 DEF Tick
  <2>4. CASE ~Tick
    <3>1. elapsed' = elapsed
      BY <1>1, <2>1, <2>4 DEF Next, vars, relay, PeerSends, PeerCloses, PeerTakes, ReadData,
         WriteSome, ReadEof, GraceExpires, Fails
    <3>2. elapsed \in Int
      BY <1>1, RelayAssumption DEF IInv, TypeOK, None
    <3> QED
      BY <1>1, <3>1, <3>2
  <2> QED
    BY <2>3, <2>4
<1>2. IInv /\ [Next]_vars
          => [elapsed' > elapsed /\ elapsed >= GRACE_PERIOD => \E d \in Dirs : Blocked(d)]_vars
  BY <1>1
<1> QED
  BY <1>2, IInvAlways, PTL DEF Spec, GraceIsAbsolute
=============================================================================
