--------------------------- MODULE ConnectionProofs ---------------------------
(***************************************************************************)
(* Proofs about modules Tunnel and Connection, for every value of their    *)
(* constants: any script of the upstream proxy, any ClientHello, names of  *)
(* any length, buffers and numbers of peeks of any size.                   *)
(***************************************************************************)
EXTENDS Connection, TLAPS, SequenceTheorems, WellFoundedInduction

-----------------------------------------------------------------------------
(***************************************************************************)
(* Numbers and sequences.                                                  *)
(***************************************************************************)

(* The smaller of two numbers, as usize::min computes it. *)
LEMMA MinOfTwo ==
    ASSUME NEW a \in Int, NEW b \in Int
    PROVE  Min({a, b}) = IF a <= b THEN a ELSE b
<1>1. \E x \in {a, b} : \A y \in {a, b} : x =< y
  OBVIOUS
<1>2. Min({a, b}) \in {a, b} /\ \A y \in {a, b} : Min({a, b}) =< y
  BY <1>1, Zenon DEF Min
<1> QED
  BY <1>2

(* A nonempty set of numbers has a least element, which Min finds. *)
LEMMA MinIsLeast ==
    ASSUME NEW S \in SUBSET Nat, S # {}
    PROVE  Min(S) \in S /\ \A y \in S : Min(S) =< y
<1> DEFINE R == {ss \in Nat \X Nat : ss[1] < ss[2]}
<1>1. IsWellFoundedOn(R, Nat)
  BY NatLessThanWellFounded DEF OpToRel
<1>2. PICK x \in S : \A y \in S : ~(<<y, x>> \in R)
  <2> HIDE DEF R
  <2> QED
    BY <1>1, WFMin
<1>3. \A y \in S : x =< y
  <2> TAKE y \in S
  <2>1. x \in Nat /\ y \in Nat /\ <<y, x>> \notin R
    BY <1>2
  <2>2. <<y, x>> \in R <=> y < x
    BY <2>1
  <2> QED
    BY <2>1, <2>2
<1> QED
  BY <1>3, Zenon DEF Min

(* What follows the first part of a stream is the second part. *)
LEMMA RestOfConcat ==
    ASSUME NEW s \in Seq(Nat), NEW t \in Seq(Nat)
    PROVE  SubSeq(s \o t, Len(s) + 1, Len(s \o t)) = t
<1>1. s \o t \in Seq(Nat) /\ Len(s \o t) = Len(s) + Len(t) /\ Len(s) \in Nat /\ Len(t) \in Nat
  OBVIOUS
<1>2. CASE t = << >>
  BY <1>1, <1>2, SubSeqEmpty
<1>3. CASE t # << >>
  <2>1. Len(t) > 0
    BY <1>3, EmptySeq
  <2>2. SubSeq(s \o t, Len(s) + 1, Len(s) + Len(t)) = SubSeq(t, Len(s) + 1 - Len(s), Len(s) + Len(t) - Len(s))
    BY <1>1, <2>1, SubSeqOfConcat2
  <2> QED
    BY <1>1, <2>2, SubSeqFull
<1> QED
  BY <1>2, <1>3

(* find_header_end on a part of the stream finds the terminators in it. *)
LEMMA HeaderEndsOfPrefix ==
    ASSUME NEW s \in Seq(Nat), NEW r \in 0..Len(s)
    PROVE  HeaderEnds(SubSeq(s, 1, r)) = {p \in HeaderEnds(s) : p <= r}
<1> DEFINE t == SubSeq(s, 1, r)
<1>1. t \in Seq(Nat) /\ Len(t) = r /\ Len(s) \in Nat /\ r \in Nat /\ r <= Len(s)
  BY LenProperties
<1>2. \A p \in 4..r : SubSeq(t, p - 3, p) = SubSeq(s, p - 3, p)
  <2> TAKE p \in 4..r
  <2>1. SubSeq(SubSeq(s, 1, r), p - 3, p) = SubSeq(s, 1 + (p - 3) - 1, 1 + p - 1)
    BY <1>1, SubSeqOfSubSeq
  <2> QED
    BY <2>1
<1> HIDE DEF t
<1>3. ASSUME NEW p
      PROVE  p \in HeaderEnds(t) <=> p \in HeaderEnds(s) /\ p <= r
  <2>1. p \in HeaderEnds(t) <=> p \in 4..r /\ SubSeq(t, p - 3, p) = CRLF2
    BY <1>1 DEF HeaderEnds
  <2>2. p \in HeaderEnds(s) <=> p \in 4..Len(s) /\ SubSeq(s, p - 3, p) = CRLF2
    BY DEF HeaderEnds
  <2>3. p \in 4..r <=> p \in 4..Len(s) /\ p <= r
    BY <1>1
  <2>4. p \in 4..r => SubSeq(t, p - 3, p) = SubSeq(s, p - 3, p)
    BY <1>2
  <2> QED
    BY <2>1, <2>2, <2>3, <2>4, Zenon
<1> QED
  BY <1>3, Zenon DEF t

-----------------------------------------------------------------------------
(***************************************************************************)
(* Consent.                                                                *)
(***************************************************************************)

(* What PlanAssumption says of one plan. *)
LEMMA PlanIsTyped ==
    ASSUME NEW p \in Plans
    PROVE  /\ p \in Plan
           /\ p.job \in {"tcp", "udp"} /\ p.protocol \in {"http", "socks5"}
           /\ p.dest.ip \in STRING /\ p.dest.port \in Nat
           /\ p.handshake \in Seq(Nat) /\ p.payload \in Seq(Nat) /\ p.grants \in BOOLEAN
           /\ p.hello.bytes \in Seq(Nat) /\ p.hello.host \in Host \cup {None}
           /\ ScriptOf(p) \in Seq(Nat)
           /\ Len(p.handshake) \in 0..Len(ScriptOf(p))
<1>1. p \in Plan
  BY PlanAssumption
<1>2. p.handshake \in Seq(Nat) /\ p.payload \in Seq(Nat)
  BY <1>1 DEF Plan
<1>3. ScriptOf(p) \in Seq(Nat) /\ Len(p.handshake) \in 0..Len(ScriptOf(p))
  <2>1. /\ ScriptOf(p) \in Seq(Nat)
        /\ Len(ScriptOf(p)) = Len(p.handshake) + Len(p.payload)
    BY <1>2, ConcatProperties DEF ScriptOf
  <2>2. Len(p.handshake) \in Nat /\ Len(p.payload) \in Nat
    BY <1>2, LenProperties
  <2> DEFINE h == Len(p.handshake)  l == Len(ScriptOf(p))  r == Len(p.payload)
  <2>3. h \in 0..l
    <3> HIDE DEF h, l, r
    <3>1. l = h + r /\ h \in Nat /\ r \in Nat
      BY <2>1, <2>2, Zenon DEF h, l, r
    <3> QED
      BY <3>1
  <2> QED
    BY <2>1, <2>3, Zenon
<1> QED
  BY <1>1, <1>3 DEF Plan

(* A stream grants the tunnel at one place only. *)
LEMMA ConsentIsUnique ==
    ASSUME NEW p \in Plans, NEW a \in Nat, NEW b \in Nat, Consents(p, a), Consents(p, b)
    PROVE  a = b
<1> DEFINE s == ScriptOf(p)
<1>1. CASE p.protocol = "http"
  <2>1. HttpConsent(s, a) /\ HttpConsent(s, b)
    BY <1>1 DEF Consents
  <2> QED
    BY <2>1 DEF HttpConsent
<1>2. CASE p.protocol # "http"
  <2>1. SocksConsent(p, s, a) /\ SocksConsent(p, s, b)
    BY <1>2 DEF Consents
  <2> HIDE DEF s
  <2> QED
    BY <2>1 DEF SocksConsent, MethodConsent
<1> QED
  BY <1>1, <1>2

(* If the upstream proxy consents within the first n bytes, they are the
   handshake, and the payload follows them. *)
LEMMA ConsentIsGranted ==
    ASSUME NEW p \in Plans, NEW n \in 0..Len(ScriptOf(p)), Consents(p, n)
    PROVE  p.grants /\ n = Len(p.handshake)
           /\ SubSeq(ScriptOf(p), n + 1, Len(ScriptOf(p))) = p.payload
<1>1. p.grants
  BY PlanAssumption
<1>2. Consents(p, Len(p.handshake))
  BY <1>1, PlanAssumption
<1>3. n = Len(p.handshake)
  BY <1>2, ConsentIsUnique, PlanIsTyped
<1> QED
  BY <1>1, <1>3, PlanIsTyped, RestOfConcat DEF ScriptOf

-----------------------------------------------------------------------------
(***************************************************************************)
(* The inductive invariant.                                                *)
(***************************************************************************)

(* The stages before the first byte is read, and those before the tunnel is
   open. *)
Opening == {"backlog", "dest", "sni", "lookup", "connect", "greeting", "method"}
Underway == Opening \cup {"request", "response", "auth", "reply", "bound", "domain", "name"}

(* The method took m bytes, and the header of the reply after it is one of
   success. *)
ReplyConsent(m) ==
    /\ m \in {2, 4} /\ MethodConsent(plan, script, m)
    /\ script[m + 1] = 5 /\ script[m + 2] = 0 /\ script[m + 4] \in {1, 3, 4}

(* How much has been read in each stage, and what it says. *)
Place ==
    /\ pc \in Opening => read = 0
    /\ pc \in {"greeting", "method", "auth", "reply", "bound", "domain", "name"} =>
          plan.protocol = "socks5"
    /\ pc = "request" /\ plan.protocol = "http" => read = 0
    /\ pc = "response" => plan.protocol = "http" /\ HeaderEnds(SubSeq(script, 1, read)) = {}
    /\ plan.job = "udp" /\ plan.protocol = "http" => pc \in {"connect", "closed"}
    /\ pc = "auth" => read = 2 /\ script[1] = 5 /\ script[2] = 2 /\ plan.auth = "valid"
    /\ pc \in {"request", "reply"} /\ plan.protocol = "socks5" =>
          read \in {2, 4} /\ MethodConsent(plan, script, read)
    /\ pc \in {"bound", "domain"} => ReplyConsent(read - 4) /\ (script[read] = 3 <=> pc = "domain")
    /\ pc = "name" => ReplyConsent(read - 5) /\ script[read - 1] = 3

(* Nothing is sent to the client before the tunnel is open, and nothing opens
   it but consent to a request. *)
Granted ==
    /\ pc \in {"response", "reply", "bound", "domain", "name"} => req # None
    /\ pc \in Underway => leftover = << >>
    /\ pc \in Underway \cup {"leftover"} => client_got = << >>
    /\ OnlyWithConsent
    /\ Established =>
          client_got \o leftover \o SubSeq(script, read + 1, Len(script)) = plan.payload

(* The name in a ClientHello of which no byte is missing. *)
WholeName == parse_sni_from_client_hello(Min({Len(plan.hello.bytes), MAX_CLIENT_HELLO}))

(* A name that was parsed from a whole record is not looked for again. *)
Named ==
    /\ pc \in {"backlog", "dest", "sni"} => sni = "none"
    /\ sni = "parsed" /\ WholeName # None =>
          hostname = WholeName /\ pc \notin {"backlog", "dest", "sni", "lookup"}

Inv == TypeOK /\ Place /\ Granted /\ NameFits /\ Named

-----------------------------------------------------------------------------
(* A behaviour starts with nothing read, nothing sent and nothing known. *)
LEMMA InvInit == Init => Inv
<1> SUFFICES ASSUME Init PROVE Inv
  OBVIOUS
<1> USE DEF Init
<1>1. plan \in Plans
  OBVIOUS
<1>2. Len(script) \in Nat /\ Len(plan.hello.bytes) \in Nat
  BY <1>1, PlanIsTyped, LenProperties DEF script
<1>3. TypeOK
  <2>1. arrived \in 0..Len(script) /\ read \in 0..arrived
    BY <1>2
  <2>2. sent \in 0..Len(plan.hello.bytes) /\ attempts \in 0..MAX_PEEK_ATTEMPTS
    BY <1>2, ConnectionAssumption
  <2>3. leftover \in Seq(Nat) /\ client_got \in Seq(Nat)
    BY EmptySeq
  <2>4. pc \in Stages
    BY DEF Stages
  <2> QED
    BY <1>1, <2>1, <2>2, <2>3, <2>4 DEF TypeOK
<1>4. Place
  BY DEF Place, Opening
<1>5. Granted /\ NameFits /\ Named
  BY DEF Granted, OnlyWithConsent, Established, NameFits, Named
<1> QED
  BY <1>3, <1>4, <1>5 DEF Inv

(* The parts of the invariant only look at some of the variables: the rest may
   change. *)
LEMMA Unmoved ==
    ASSUME Inv, UNCHANGED <<plan, pc, read, req, leftover, relay_addr, client_got>>
    PROVE  Place' /\ Granted' /\ NameFits'
<1>1. script' = script
  BY DEF script
<1>2. Place'
  BY <1>1 DEF Inv, Place, ReplyConsent
<1>3. Granted'
  BY <1>1 DEF Inv, Granted, OnlyWithConsent, Established
<1>4. NameFits'
  BY DEF Inv, NameFits, LengthField
<1> QED
  BY <1>2, <1>3, <1>4

(* What has arrived is part of the script, and what was read is part of that;
   likewise for the client. *)
LEMMA Bounds ==
    ASSUME TypeOK
    PROVE  /\ script \in Seq(Nat) /\ Len(script) \in Nat
           /\ arrived \in Nat /\ read \in Nat /\ arrived <= Len(script) /\ read <= arrived
           /\ plan.hello.bytes \in Seq(Nat) /\ Len(plan.hello.bytes) \in Nat
           /\ sent \in Nat /\ sent <= Len(plan.hello.bytes)
           /\ attempts \in Nat /\ attempts <= MAX_PEEK_ATTEMPTS
<1> DEFINE l == Len(script)  c == Len(plan.hello.bytes)
<1>1. /\ arrived \in 0..l /\ read \in 0..arrived /\ sent \in 0..c
      /\ attempts \in 0..MAX_PEEK_ATTEMPTS
  BY DEF TypeOK
<1>2. script \in Seq(Nat) /\ plan.hello.bytes \in Seq(Nat)
  BY PlanIsTyped DEF TypeOK, script
<1>3. l \in Nat /\ c \in Nat
  BY <1>2, LenProperties
<1> HIDE DEF l, c
<1>4. /\ arrived \in Nat /\ read \in Nat /\ arrived <= l /\ read <= arrived
      /\ sent \in Nat /\ sent <= c /\ attempts \in Nat /\ attempts <= MAX_PEEK_ATTEMPTS
  BY <1>1, <1>3, ConnectionAssumption
<1> QED
  BY <1>2, <1>3, <1>4 DEF l, c

(* What the hello says is fixed with the plan. *)
LEMMA WholeNameFixed == plan' = plan => WholeName' = WholeName
BY DEF WholeName, parse_sni_from_client_hello

(* The attempt may end at any time: nothing is claimed of a closed one but the
   name. *)
LEMMA Ends ==
    ASSUME Inv, pc' = "closed", TypeOK',
           UNCHANGED <<plan, hostname, req, sni>>
    PROVE  Inv'
<1>1. Place'
  BY DEF Place, Opening
<1>2. Granted'
  BY DEF Granted, OnlyWithConsent, Established, Underway, Opening
<1>3. NameFits'
  BY DEF Inv, NameFits, LengthField
<1>4. Named'
  BY WholeNameFixed DEF Inv, Named
<1> QED
  BY <1>1, <1>2, <1>3, <1>4 DEF Inv

(* The client and the upstream proxy move nothing but what has
   arrived; so do a failing accept and a peek that comes too early. *)
LEMMA OthersStep ==
    ASSUME Inv,
           \/ ClientSends \/ ClientCloses \/ AcceptFails \/ Retry \/ PeekAgain
           \/ UpstreamSends /\ UNCHANGED <<listener, client>>
    PROVE  Inv'
<1>1. UNCHANGED <<plan, pc, read, req, leftover, relay_addr, client_got, hostname, sni>>
  BY DEF ClientSends, ClientCloses, AcceptFails, Retry, PeekAgain, UpstreamSends, tunnel, client
<1>2. script' = script
  BY <1>1 DEF script
<1>3. TypeOK
  BY DEF Inv
<1>4. TypeOK'
  <2>1. arrived' = arrived \/ (arrived < Len(script) /\ arrived' = arrived + 1)
    BY DEF ClientSends, ClientCloses, AcceptFails, Retry, PeekAgain, UpstreamSends, tunnel, client
  <2>2. arrived' \in 0..Len(script) /\ read \in 0..arrived'
    BY <1>3, <2>1, Bounds
  <2>3. sent' = sent \/ (sent < Len(plan.hello.bytes) /\ sent' = sent + 1)
    BY DEF ClientSends, ClientCloses, AcceptFails, Retry, PeekAgain, UpstreamSends, tunnel, client
  <2>4. sent' \in 0..Len(plan.hello.bytes)
    BY <1>3, <2>3, Bounds
  <2>5. attempts' = attempts \/ (attempts + 1 < MAX_PEEK_ATTEMPTS /\ attempts' = attempts + 1)
    BY DEF ClientSends, ClientCloses, AcceptFails, Retry, PeekAgain, UpstreamSends, tunnel, client
  <2>6. attempts' \in 0..MAX_PEEK_ATTEMPTS
    BY <1>3, <2>5, Bounds, ConnectionAssumption
  <2>7. ended' \in BOOLEAN /\ listener' \in {"accepting", "backoff"}
    BY DEF Inv, TypeOK, ClientSends, ClientCloses, AcceptFails, Retry, PeekAgain, UpstreamSends,
           tunnel, client
  <2> QED
    BY <1>1, <1>2, <2>2, <2>4, <2>6, <2>7 DEF Inv, TypeOK
<1>5. Place' /\ Granted' /\ NameFits'
  BY <1>1, Unmoved
<1>6. Named'
  BY <1>1, WholeNameFixed DEF Inv, Named
<1> QED
  BY <1>4, <1>5, <1>6 DEF Inv

(* Until the upstream proxy is connected to, only the name is found out. *)
LEMMA NothingReadYet ==
    ASSUME Inv, pc \in {"backlog", "dest", "sni", "lookup"},
           pc' \in {"dest", "sni", "lookup", "connect", "closed"},
           UNCHANGED <<plan, arrived, read, req, leftover, relay_addr, listener,
                       sent, ended, attempts, client_got>>,
           hostname' \in TableHosts \cup {plan.hello.host, None},
           sni' \in {"none", "eof", "not TLS", "parsed", "budget", "timeout"}
    PROVE  TypeOK' /\ Place' /\ Granted' /\ NameFits'
<1>1. script' = script
  BY DEF script
<1>2. TypeOK'
  BY <1>1 DEF Inv, TypeOK, Stages
<1>3. plan.job = "udp" => plan.protocol # "http"
  BY DEF Inv, Place
<1>4. Place'
  BY <1>1, <1>3 DEF Inv, Place, Opening
<1>5. Granted'
  BY <1>1 DEF Inv, Granted, OnlyWithConsent, Established, Underway, Opening
<1>6. NameFits'
  BY DEF Inv, NameFits, LengthField
<1> QED
  BY <1>2, <1>4, <1>5, <1>6

(* Accepting a connection and finding its destination. *)
LEMMA DestinationStep == Inv /\ (Accept \/ GetOriginalDest) => Inv'
<1> SUFFICES ASSUME Inv, Accept \/ GetOriginalDest PROVE Inv'
  OBVIOUS
<1>1. /\ pc \in {"backlog", "dest", "sni", "lookup"}
      /\ pc' \in {"dest", "sni", "lookup", "connect", "closed"}
      /\ UNCHANGED <<plan, arrived, read, req, leftover, relay_addr, listener,
                     sent, ended, attempts, client_got, hostname, sni>>
  BY DEF Accept, GetOriginalDest, client
<1>2. TypeOK' /\ Place' /\ Granted' /\ NameFits'
  BY <1>1, NothingReadYet DEF Inv, TypeOK
<1>3. pc \in {"backlog", "dest"}
  BY DEF Accept, GetOriginalDest
<1>4. Named'
  BY <1>1, <1>3, WholeNameFixed DEF Inv, Named
<1> QED
  BY <1>2, <1>4 DEF Inv

(* What is there of a complete record names the host that the whole of it
   names. *)
LEMMA CompleteRecordNames ==
    ASSUME TypeOK, sent >= HEADER, sent >= Needed, WholeName # None
    PROVE  parse_sni_from_client_hello(Min({sent, MAX_CLIENT_HELLO})) = WholeName
<1> DEFINE b == plan.hello.bytes
           n == Min({sent, MAX_CLIENT_HELLO})
           w == Min({Len(b), MAX_CLIENT_HELLO})
           r == HEADER + b[2]
<1>0. b \in Seq(Nat) /\ sent \in 0..Len(b)
  BY PlanIsTyped DEF TypeOK
<1>1. /\ b \in Seq(Nat) /\ Len(b) \in Nat /\ sent \in 0..Len(b) /\ sent \in Nat
      /\ MAX_CLIENT_HELLO \in Nat
  <2> HIDE DEF b
  <2> QED
    BY <1>0, LenProperties, ConnectionAssumption
<1>2. b[2] \in Nat /\ r \in Nat
  <2> HIDE DEF b
  <2>1. 2 \in 1..Len(b)
    BY <1>1 DEF HEADER
  <2>2. b[2] \in Nat
    BY <1>1, <2>1, ElementOfSeq
  <2> QED
    BY <2>2 DEF HEADER
<1> HIDE DEF b
<1>3. /\ n = IF sent <= MAX_CLIENT_HELLO THEN sent ELSE MAX_CLIENT_HELLO
      /\ w = IF Len(b) <= MAX_CLIENT_HELLO THEN Len(b) ELSE MAX_CLIENT_HELLO
  BY <1>1, MinOfTwo
<1>4. Needed = IF r <= MAX_CLIENT_HELLO THEN r ELSE MAX_CLIENT_HELLO
  <2>1. Needed = Min({r, MAX_CLIENT_HELLO})
    BY DEF Needed, b
  <2> HIDE DEF r
  <2> QED
    BY <1>1, <1>2, <2>1, MinOfTwo
<1> HIDE DEF n, w
<1>5. n \in Nat /\ w \in Nat /\ n <= w /\ (n = w \/ r <= n)
  BY <1>1, <1>2, <1>3, <1>4
<1>6. Min({n, r}) = Min({w, r})
  BY <1>2, <1>5, MinOfTwo
<1>7. WholeName = IF w > HEADER /\ b[1] = 22 /\ b[3] = 1 /\ \E i \in 4..Min({w, r}) : b[i] = 99
                  THEN plan.hello.host ELSE None
  BY DEF WholeName, parse_sni_from_client_hello, b, w, r
<1>8. parse_sni_from_client_hello(n) =
          IF n > HEADER /\ b[1] = 22 /\ b[3] = 1 /\ \E i \in 4..Min({n, r}) : b[i] = 99
          THEN plan.hello.host ELSE None
  BY DEF parse_sni_from_client_hello, b, r
<1>9. \E i \in 4..Min({w, r}) : b[i] = 99
  BY <1>7
<1>10. Min({w, r}) >= 4
  BY <1>2, <1>5, <1>9, MinOfTwo
<1>11. n > HEADER
  BY <1>2, <1>5, <1>10, MinOfTwo DEF HEADER
<1>12. w > HEADER
  BY <1>5, <1>11 DEF HEADER
<1>13. parse_sni_from_client_hello(n) = WholeName
  BY <1>6, <1>7, <1>8, <1>11, <1>12
<1> QED
  BY <1>13 DEF n

(* The SNI stage: each way in which it ends. *)
LEMMA SniStep == Inv /\ (PeekEnds \/ SniTimeout) => Inv'
<1> SUFFICES ASSUME Inv, PeekEnds \/ SniTimeout PROVE Inv'
  OBVIOUS
<1>1. PICK how, name :
          /\ SniEnds(how, name) /\ pc = "sni"
          /\ how \in {"eof", "not TLS", "parsed", "budget", "timeout"}
          /\ name \in {plan.hello.host, None}
          /\ how = "parsed" => /\ sent >= HEADER /\ sent >= Needed
                               /\ name = parse_sni_from_client_hello(Min({sent, MAX_CLIENT_HELLO}))
  <2> DEFINE Ended(how, name) ==
          /\ SniEnds(how, name) /\ pc = "sni"
          /\ how \in {"eof", "not TLS", "parsed", "budget", "timeout"}
          /\ name \in {plan.hello.host, None}
          /\ how = "parsed" => /\ sent >= HEADER /\ sent >= Needed
                               /\ name = parse_sni_from_client_hello(Min({sent, MAX_CLIENT_HELLO}))
  <2>1. \A n : parse_sni_from_client_hello(n) \in {plan.hello.host, None}
    BY DEF parse_sni_from_client_hello
  <2>2. \/ Ended("eof", None) \/ Ended("not TLS", None) \/ Ended("timeout", None)
        \/ Ended("parsed", parse_sni_from_client_hello(Min({sent, MAX_CLIENT_HELLO})))
        \/ Ended("budget", parse_sni_from_client_hello(sent))
    <3> HIDE DEF Needed
    <3> QED
      BY <2>1 DEF PeekEnds, SniTimeout
  <2> QED
    BY <2>2, Zenon
<1>2. /\ pc \in {"backlog", "dest", "sni", "lookup"}
      /\ pc' \in {"dest", "sni", "lookup", "connect", "closed"}
      /\ UNCHANGED <<plan, arrived, read, req, leftover, relay_addr, listener,
                     sent, ended, attempts, client_got>>
      /\ hostname' = name /\ sni' = how
      /\ name # None => pc' = "connect"
  BY <1>1 DEF SniEnds
<1>3. TypeOK' /\ Place' /\ Granted' /\ NameFits'
  BY <1>1, <1>2, NothingReadYet
<1>4. how = "parsed" /\ WholeName # None => name = WholeName
  BY <1>1, CompleteRecordNames DEF Inv
<1>5. pc' \in {"lookup", "connect"}
  BY <1>1 DEF SniEnds
<1>6. Named'
  BY <1>2, <1>4, <1>5, WholeNameFixed DEF Named
<1> QED
  BY <1>3, <1>6 DEF Inv

(* The table is asked only where no name is known. *)
LEMMA LookupStep == Inv /\ Lookup => Inv'
<1> SUFFICES ASSUME Inv, Lookup PROVE Inv'
  OBVIOUS
<1>1. /\ pc = "lookup" /\ pc' = "connect" /\ sni' = sni
      /\ UNCHANGED <<plan, arrived, read, req, leftover, relay_addr, listener,
                     sent, ended, attempts, client_got>>
      /\ hostname' \in TableHosts \cup {plan.hello.host, None}
  BY DEF Lookup, client
<1>2. TypeOK' /\ Place' /\ Granted' /\ NameFits'
  BY <1>1, NothingReadYet DEF Inv, TypeOK
<1>3. Named'
  BY <1>1, WholeNameFixed DEF Inv, Named
<1> QED
  BY <1>2, <1>3 DEF Inv

-----------------------------------------------------------------------------
(***************************************************************************)
(* The handshakes.                                                         *)
(***************************************************************************)

(* A request names the host only by a name that fits. *)
LEMMA TargetFits ==
    ASSUME TypeOK
    PROVE  LET t == Target(plan.dest)
           IN  /\ t \in Request /\ t # None
               /\ t.by = "name" => t.host.len % 256 = t.host.len /\ t.host.clean
<1> DEFINE t == Target(plan.dest)
<1>1. hostname \in Host \cup {None} /\ plan.dest.ip \in STRING /\ plan.dest.port \in Nat
  BY PlanIsTyped, ConnectionAssumption DEF TypeOK
<1>2. CASE hostname # None /\ is_safe_proxy_hostname(hostname)
  <2>1. t = [by |-> "name", host |-> hostname, port |-> plan.dest.port]
    BY <1>2 DEF Target
  <2>2. hostname \in Host /\ hostname.len \in Nat /\ hostname.len <= 253 /\ hostname.clean
    BY <1>1, <1>2 DEF is_safe_proxy_hostname, Host
  <2>3. t \in Request
    BY <1>1, <2>1, <2>2 DEF Request
  <2>4. hostname.len % 256 = hostname.len
    BY <2>2
  <2> QED
    BY <2>1, <2>2, <2>3, <2>4, TunnelAssumption
<1>3. CASE ~(hostname # None /\ is_safe_proxy_hostname(hostname))
  <2>1. t = [by |-> "address", ip |-> plan.dest.ip, port |-> plan.dest.port]
    BY <1>3 DEF Target
  <2>2. t \in Request
    BY <1>1, <2>1 DEF Request
  <2> QED
    BY <2>1, <2>2, TunnelAssumption
<1> QED
  BY <1>2, <1>3

(* A step that reads on in the script and leaves what is not its business. *)
LEMMA ReadsOn ==
    ASSUME Inv, pc \in Underway \ {"backlog", "dest", "sni", "lookup"},
           pc' \in Stages \ {"backlog", "dest", "sni", "lookup"},
           UNCHANGED <<plan, arrived, hostname, listener, client>>,
           read' \in Nat, read <= read', read' <= arrived,
           req' \in Request \cup {None},
           leftover' \in Seq(Nat), relay_addr' \in [ip : {"bound", "proxy"}, port : Nat] \cup {None}
    PROVE  TypeOK' /\ Named'
<1>1. script' = script /\ TypeOK
  BY DEF script, Inv
<1>2. read' \in 0..arrived
  BY <1>1, Bounds
<1>3. TypeOK'
  BY <1>1, <1>2 DEF TypeOK, client
<1>4. Named'
  BY WholeNameFixed DEF Inv, Named, client
<1> QED
  BY <1>3, <1>4

(* As long as the tunnel is not open, there is nothing to grant. *)
LEMMA StaysUnderway ==
    ASSUME Inv, pc \in Underway \ {"backlog", "dest", "sni", "lookup"},
           pc' \in Underway \ {"backlog", "dest", "sni", "lookup"},
           UNCHANGED <<plan, arrived, hostname, leftover, relay_addr, listener, client>>,
           read' \in Nat, read <= read', read' <= arrived,
           req' \in Request \cup {None},
           pc' \in {"response", "reply", "bound", "domain", "name"} => req' # None,
           Place', NameFits'
    PROVE  Inv'
<1>1. pc' \in Stages \ {"backlog", "dest", "sni", "lookup"}
  BY DEF Underway, Opening, Stages
<1>2. leftover' \in Seq(Nat) /\ relay_addr' \in [ip : {"bound", "proxy"}, port : Nat] \cup {None}
  BY DEF Inv, TypeOK
<1>3. TypeOK' /\ Named'
  BY <1>1, <1>2, ReadsOn
<1>4. Granted'
  BY DEF Inv, Granted, OnlyWithConsent, Established, Underway, Opening, client
<1> QED
  BY <1>3, <1>4 DEF Inv

(* The same, where the request does not change either. *)
LEMMA GoesOn ==
    ASSUME Inv, NEW l, GoTo(l), l \in {"greeting", "method", "auth", "request", "bound", "domain", "name"},
           pc \in Underway \ {"backlog", "dest", "sni", "lookup"},
           UNCHANGED <<listener, client>>,
           read' \in Nat, read <= read', read' <= arrived,
           l \in {"bound", "domain", "name"} => req # None,
           Place'
    PROVE  Inv'
<1>1. /\ pc' = l /\ UNCHANGED <<plan, arrived, hostname, req, leftover, relay_addr>>
  BY DEF GoTo
<1>2. NameFits'
  BY <1>1 DEF Inv, NameFits, LengthField
<1>3. req' \in Request \cup {None}
  BY <1>1 DEF Inv, TypeOK
<1>4. pc' \in Underway \ {"backlog", "dest", "sni", "lookup"}
  BY <1>1 DEF Underway, Opening
<1>5. pc' \in {"response", "reply", "bound", "domain", "name"} => req' # None
  BY <1>1
<1> QED
  BY <1>1, <1>2, <1>3, <1>4, <1>5, StaysUnderway

(* An answer that is not one of success ends the attempt. *)
LEMMA Closes ==
    ASSUME Inv, GoTo("closed"),
           pc \in Underway \ {"backlog", "dest", "sni", "lookup"},
           UNCHANGED <<listener, client>>,
           read' \in Nat, read <= read', read' <= arrived
    PROVE  Inv'
<1>1. /\ pc' = "closed" /\ UNCHANGED <<plan, arrived, hostname, req, leftover, relay_addr, sni>>
  BY DEF GoTo, client
<1>2. TypeOK'
  BY <1>1, ReadsOn DEF Inv, TypeOK, Stages
<1> QED
  BY <1>1, <1>2, Ends

(* read_exact reads n of the bytes that are there. *)
LEMMA ExactlyRead ==
    ASSUME TypeOK, NEW n \in Nat, ReadExact(n)
    PROVE  /\ read' = read + n /\ read' \in Nat /\ read <= read' /\ read' <= arrived
           /\ arrived <= Len(script) /\ read \in Nat
           /\ \A i \in 1..n : Byte(i) = script[read + i] /\ Byte(i) \in Nat
<1>1. /\ read' = read + n /\ arrived - read >= n
  BY DEF ReadExact, Unread
<1>2. /\ read' \in Nat /\ read <= read' /\ read' <= arrived /\ arrived <= Len(script)
      /\ read \in Nat /\ Len(script) \in Nat /\ script \in Seq(Nat)
  BY <1>1, Bounds
<1>3. ASSUME NEW i \in 1..n PROVE script[read + i] \in Nat
  <2>1. read + i \in 1..Len(script)
    BY <1>1, <1>2, Bounds
  <2> QED
    BY <1>2, <2>1, ElementOfSeq
<1> QED
  BY <1>1, <1>2, <1>3 DEF Byte

(* Failures and time-outs at any await. *)
LEMMA FailStep == Inv /\ (HandshakeTimeout \/ DeliverFails) => Inv'
<1> SUFFICES ASSUME Inv, HandshakeTimeout \/ DeliverFails PROVE Inv'
  OBVIOUS
<1>1. /\ pc' = "closed"
      /\ UNCHANGED <<plan, arrived, read, hostname, req, leftover, relay_addr, listener, client>>
  BY DEF HandshakeTimeout, ConnectOrHandshakeFails, DeliverFails, Fail
<1>2. TypeOK'
  BY <1>1 DEF Inv, TypeOK, Stages, client, script
<1> QED
  BY <1>1, <1>2, Ends DEF client

(* Connecting to the upstream proxy. *)
LEMMA ConnectStep == Inv /\ Connect /\ UNCHANGED <<listener, client>> => Inv'
<1> SUFFICES ASSUME Inv, Connect, UNCHANGED <<listener, client>> PROVE Inv'
  OBVIOUS
<1>0. /\ pc = "connect" /\ TypeOK /\ pc \in Underway \ {"backlog", "dest", "sni", "lookup"}
      /\ read = 0 /\ plan.job \in {"tcp", "udp"} /\ plan.protocol \in {"http", "socks5"}
  BY PlanIsTyped DEF Connect, Inv, Underway, Opening, Place, TypeOK
<1>1. read' = read => read' \in Nat /\ read <= read' /\ read' <= arrived
  BY <1>0, Bounds
<1>2. CASE Fail
  <2>1. GoTo("closed") /\ read' = read
    BY <1>2 DEF Fail, GoTo
  <2> QED
    BY <1>0, <1>1, <2>1, Closes
<1>3. CASE plan.protocol = "http" /\ plan.job # "udp" /\ GoTo("request") /\ UNCHANGED read
  <2>1. Place'
    BY <1>0, <1>3 DEF Place, Opening, GoTo, ReplyConsent
  <2> QED
    BY <1>0, <1>1, <1>3, <2>1, GoesOn
<1>4. CASE plan.protocol = "socks5" /\ GoTo("greeting") /\ UNCHANGED read
  <2>1. Place'
    BY <1>0, <1>4 DEF Place, Opening, GoTo, ReplyConsent
  <2> QED
    BY <1>0, <1>1, <1>4, <2>1, GoesOn
<1> QED
  BY <1>0, <1>2, <1>3, <1>4 DEF Connect

(* Sending a request. *)
LEMMA RequestStep ==
    Inv /\ (SendConnectRequest \/ SendSocksRequest) /\ UNCHANGED <<listener, client>> => Inv'
<1> SUFFICES ASSUME Inv, SendConnectRequest \/ SendSocksRequest, UNCHANGED <<listener, client>>
             PROVE  Inv'
  OBVIOUS
<1>0. /\ pc = "request" /\ TypeOK /\ read' = read
      /\ UNCHANGED <<plan, arrived, hostname, leftover, relay_addr>>
      /\ pc \in Underway \ {"backlog", "dest", "sni", "lookup"}
      /\ script' = script /\ script \in Seq(Nat)
  BY Bounds DEF SendConnectRequest, SendSocksRequest, Inv, Underway, Opening, script
<1>1. /\ req' \in Request /\ req' # None
      /\ req'.by = "name" => LengthField(req') = req'.host.len /\ req'.host.clean
  <2>1. CASE req' = Target(plan.dest)
    BY <1>0, <2>1, TargetFits DEF LengthField
  <2>2. CASE req' = [by |-> "associate"]
    <3>1. req' \in Request
      BY <2>2 DEF Request
    <3>2. req'.by = "associate"
      BY <2>2
    <3> QED
      BY <3>1, <3>2, TunnelAssumption
  <2> QED
    BY <2>1, <2>2 DEF SendConnectRequest, SendSocksRequest
<1>2. NameFits'
  BY <1>1 DEF NameFits, LengthField
<1>3. \/ plan.protocol = "http" /\ pc' = "response"
      \/ plan.protocol = "socks5" /\ pc' = "reply"
  BY DEF SendConnectRequest, SendSocksRequest
<1>4. Place'
  <2>1. CASE plan.protocol = "http" /\ pc' = "response"
    <3>1. read = 0
      BY <1>0, <2>1 DEF Inv, Place
    <3>2. HeaderEnds(SubSeq(script, 1, 0)) = {}
      BY <1>0, SubSeqEmpty, EmptySeq DEF HeaderEnds
    <3>3. plan.job # "udp"
      BY <1>0, <2>1 DEF Inv, Place
    <3> QED
      BY <1>0, <2>1, <3>1, <3>2, <3>3 DEF Place, Opening
  <2>2. CASE plan.protocol = "socks5" /\ pc' = "reply"
    BY <1>0, <2>2 DEF Inv, Place, Opening
  <2> QED
    BY <1>3, <2>1, <2>2
<1>5. /\ pc' \in Underway \ {"backlog", "dest", "sni", "lookup"}
      /\ req' \in Request \cup {None}
      /\ read' \in Nat /\ read <= read' /\ read' <= arrived
  BY <1>0, <1>1, <1>3, Bounds DEF Underway, Opening
<1> QED
  BY <1>0, <1>1, <1>2, <1>4, <1>5, StaysUnderway

(* The choice of a method. *)
LEMMA MethodStep ==
    Inv /\ (SendGreeting \/ ReadMethod) /\ UNCHANGED <<listener, client>> => Inv'
<1> SUFFICES ASSUME Inv, SendGreeting \/ ReadMethod, UNCHANGED <<listener, client>>
             PROVE  Inv'
  OBVIOUS
<1>0. /\ TypeOK /\ pc \in {"greeting", "method"} /\ read = 0 /\ plan.protocol = "socks5"
      /\ pc \in Underway \ {"backlog", "dest", "sni", "lookup"}
  BY DEF SendGreeting, ReadMethod, Inv, Place, Underway, Opening
<1>1. CASE SendGreeting
  <2>1. GoTo("method") /\ read' = read
    BY <1>1 DEF SendGreeting
  <2>2. Place'
    BY <1>0, <2>1 DEF Place, Opening, GoTo
  <2> QED
    BY <1>0, <2>1, <2>2, GoesOn, Bounds
<1>2. CASE ReadMethod
  <2>1. ReadExact(2)
    BY <1>2 DEF ReadMethod
  <2>2. /\ read' = 2 /\ read' \in Nat /\ read <= read' /\ read' <= arrived
        /\ Byte(1) = script[1] /\ Byte(2) = script[2]
    BY <1>0, <2>1, ExactlyRead
  <2>3. CASE GoTo("closed")
    BY <1>0, <2>2, <2>3, Closes
  <2>4. CASE script[1] = 5 /\ script[2] = 0 /\ GoTo("request")
    <3>1. /\ pc' = "request" /\ plan' = plan /\ script' = script
      BY <2>4 DEF GoTo, script
    <3>2. MethodConsent(plan, script, 2)
      BY <2>4 DEF MethodConsent
    <3>3. Place'
      BY <1>0, <2>2, <3>1, <3>2 DEF Place, Opening
    <3> QED
      BY <1>0, <2>2, <2>4, <3>3, GoesOn
  <2>5. CASE script[1] = 5 /\ script[2] = 2 /\ plan.auth = "valid" /\ GoTo("auth")
    <3>1. /\ pc' = "auth" /\ plan' = plan /\ script' = script
      BY <2>5 DEF GoTo, script
    <3>2. Place'
      BY <1>0, <2>2, <2>5, <3>1 DEF Place, Opening
    <3> QED
      BY <1>0, <2>2, <2>5, <3>2, GoesOn
  <2> QED
    BY <1>2, <2>2, <2>3, <2>4, <2>5 DEF ReadMethod
<1> QED
  BY <1>1, <1>2

(* The status of the credentials. *)
LEMMA AuthStep == Inv /\ ReadAuth /\ UNCHANGED <<listener, client>> => Inv'
<1> SUFFICES ASSUME Inv, ReadAuth, UNCHANGED <<listener, client>> PROVE Inv'
  OBVIOUS
<1>0. /\ TypeOK /\ pc = "auth" /\ read = 2 /\ plan.protocol = "socks5"
      /\ script[1] = 5 /\ script[2] = 2 /\ plan.auth = "valid"
      /\ pc \in Underway \ {"backlog", "dest", "sni", "lookup"}
  BY DEF ReadAuth, Inv, Place, Underway, Opening
<1>1. ReadExact(2)
  BY DEF ReadAuth
<1>2. /\ read' = 4 /\ read' \in Nat /\ read <= read' /\ read' <= arrived
      /\ Byte(2) = script[4]
  BY <1>0, <1>1, ExactlyRead
<1>3. CASE GoTo("closed")
  BY <1>0, <1>2, <1>3, Closes
<1>4. CASE script[4] = 0 /\ GoTo("request")
  <2>1. /\ pc' = "request" /\ plan' = plan /\ script' = script
    BY <1>4 DEF GoTo, script
  <2>2. MethodConsent(plan, script, 4)
    BY <1>0, <1>4 DEF MethodConsent
  <2>3. Place'
    BY <1>0, <1>2, <2>1, <2>2 DEF Place, Opening
  <2> QED
    BY <1>0, <1>2, <1>4, <2>3, GoesOn
<1> QED
  BY <1>2, <1>3, <1>4 DEF ReadAuth

(* The header of the reply. *)
LEMMA ReplyStep == Inv /\ ReadReply /\ UNCHANGED <<listener, client>> => Inv'
<1> SUFFICES ASSUME Inv, ReadReply, UNCHANGED <<listener, client>> PROVE Inv'
  OBVIOUS
<1>0. /\ TypeOK /\ pc = "reply" /\ plan.protocol = "socks5" /\ req # None
      /\ read \in {2, 4} /\ MethodConsent(plan, script, read)
      /\ pc \in Underway \ {"backlog", "dest", "sni", "lookup"}
  BY DEF ReadReply, Inv, Place, Granted, Underway, Opening
<1>1. ReadExact(4)
  BY DEF ReadReply
<1>2. /\ read' = read + 4 /\ read' \in Nat /\ read <= read' /\ read' <= arrived
      /\ Byte(1) = script[read + 1] /\ Byte(2) = script[read + 2] /\ Byte(4) = script[read + 4]
  BY <1>0, <1>1, ExactlyRead
<1>3. CASE GoTo("closed")
  BY <1>0, <1>2, <1>3, Closes
<1>4. CASE /\ script[read + 1] = 5 /\ script[read + 2] = 0 /\ script[read + 4] \in {1, 3, 4}
           /\ GoTo(IF script[read + 4] = 3 THEN "domain" ELSE "bound")
  <2> DEFINE l == IF script[read + 4] = 3 THEN "domain" ELSE "bound"
  <2>1. /\ pc' = l /\ plan' = plan /\ script' = script
    BY <1>4 DEF GoTo, script
  <2>2. ReplyConsent(read)
    BY <1>0, <1>4 DEF ReplyConsent
  <2>3. Place'
    BY <1>0, <1>2, <2>1, <2>2 DEF Place, Opening, ReplyConsent
  <2> QED
    BY <1>0, <1>2, <1>4, <2>3, GoesOn
<1> QED
  BY <1>2, <1>3, <1>4 DEF ReadReply

(* The length of a domain. *)
LEMMA DomainLengthStep == Inv /\ ReadDomainLength /\ UNCHANGED <<listener, client>> => Inv'
<1> SUFFICES ASSUME Inv, ReadDomainLength, UNCHANGED <<listener, client>> PROVE Inv'
  OBVIOUS
<1>0. /\ TypeOK /\ pc = "domain" /\ plan.protocol = "socks5" /\ req # None
      /\ ReplyConsent(read - 4) /\ script[read] = 3
      /\ pc \in Underway \ {"backlog", "dest", "sni", "lookup"}
  BY DEF ReadDomainLength, Inv, Place, Granted, Underway, Opening
<1>1. ReadExact(1) /\ GoTo("name")
  BY DEF ReadDomainLength
<1>2. /\ read' = read + 1 /\ read' \in Nat /\ read <= read' /\ read' <= arrived /\ read \in Nat
  BY <1>0, <1>1, ExactlyRead
<1>3. /\ pc' = "name" /\ plan' = plan /\ script' = script
  BY <1>1 DEF GoTo, script
<1>4. read' - 5 = read - 4 /\ read' - 1 = read
  BY <1>2
<1>5. Place'
  BY <1>0, <1>3, <1>4 DEF Place, Opening, ReplyConsent
<1> QED
  BY <1>0, <1>1, <1>2, <1>5, GoesOn

(* The handshake is complete: the upstream proxy has consented, and nothing
   after its handshake was read. *)
LEMMA Opens ==
    ASSUME Inv, pc \in {"bound", "name"}, plan.protocol = "socks5",
           Consents(plan, read'),
           read' \in Nat, read <= read', read' <= arrived,
           NEW ip \in {"unspecified", "bound"}, NEW port \in Nat, BoundIs(ip, port),
           UNCHANGED <<listener, client>>
    PROVE  Inv'
<1>0. /\ TypeOK /\ pc \in Underway \ {"backlog", "dest", "sni", "lookup"}
      /\ leftover = << >> /\ client_got = << >> /\ req # None
      /\ plan \in Plans /\ plan.job \in {"tcp", "udp"} /\ plan.payload \in Seq(Nat)
  BY PlanIsTyped DEF Inv, TypeOK, Granted, Underway, Opening
<1>1. /\ pc' = IF plan.job = "tcp" THEN "leftover" ELSE "control"
      /\ relay_addr' = IF plan.job = "tcp" THEN None
                       ELSE [ip |-> IF ip = "unspecified" THEN "proxy" ELSE ip, port |-> port]
      /\ UNCHANGED <<plan, arrived, hostname, req, leftover>>
      /\ script' = script /\ client_got' = client_got
  BY DEF BoundIs, client, script
<1>2. TypeOK' /\ Named'
  <2>1. pc' \in Stages \ {"backlog", "dest", "sni", "lookup"}
    BY <1>1 DEF Stages
  <2>2. relay_addr' \in [ip : {"bound", "proxy"}, port : Nat] \cup {None}
    BY <1>1
  <2>3. leftover' \in Seq(Nat) /\ req' \in Request \cup {None}
    BY <1>1 DEF Inv, TypeOK
  <2> QED
    BY <1>0, <1>1, <2>1, <2>2, <2>3, ReadsOn
<1>3. NameFits'
  BY <1>1 DEF Inv, NameFits, LengthField
<1>4. Place'
  BY <1>1 DEF Inv, Place, Opening
<1>5. /\ plan.grants /\ SubSeq(script, read' + 1, Len(script)) = plan.payload
  <2>1. read' \in 0..Len(ScriptOf(plan))
    BY <1>0, Bounds DEF script
  <2> QED
    BY <1>0, <2>1, ConsentIsGranted DEF script
<1>6. plan.job = "udp" => pc' = "control" /\ relay_addr'.ip # "unspecified"
  BY <1>1
<1>7. client_got \o leftover \o SubSeq(script, read' + 1, Len(script)) = plan.payload
  BY <1>0, <1>5, ConcatEmptySeq, EmptySeq
<1>8. Granted'
  BY <1>0, <1>1, <1>5, <1>6, <1>7 DEF Granted, OnlyWithConsent, Established, Underway, Opening
<1> QED
  BY <1>2, <1>3, <1>4, <1>8 DEF Inv

(* The address in the reply. *)
LEMMA BoundStep == Inv /\ ReadBound /\ UNCHANGED <<listener, client>> => Inv'
<1> SUFFICES ASSUME Inv, ReadBound, UNCHANGED <<listener, client>> PROVE Inv'
  OBVIOUS
<1>0. /\ TypeOK /\ pc = "bound" /\ plan.protocol = "socks5"
      /\ ReplyConsent(read - 4) /\ script[read] # 3
  BY DEF ReadBound, Inv, Place
<1>1. BoundSize \in {4, 16} /\ BoundSize + 2 \in Nat /\ BoundSize + 2 \in 1..(BoundSize + 2)
  BY DEF BoundSize
<1>2. /\ ReadExact(BoundSize + 2)
      /\ BoundIs(AddressOf(SubSeq(script, read + 1, read + BoundSize)), Byte(BoundSize + 2))
  BY DEF ReadBound
<1>3. /\ read' = read + (BoundSize + 2) /\ read' \in Nat /\ read <= read' /\ read' <= arrived
      /\ read \in Nat /\ Byte(BoundSize + 2) \in Nat
  BY <1>0, <1>1, <1>2, ExactlyRead
<1>4. PICK m \in {2, 4} : /\ read = m + 4 /\ MethodConsent(plan, script, m)
                          /\ script[m + 1] = 5 /\ script[m + 2] = 0
                          /\ script[m + 4] \in {1, 3, 4} /\ script[m + 4] = script[read]
  <2>1. read - 4 \in {2, 4} /\ read = (read - 4) + 4
    BY <1>0, <1>3 DEF ReplyConsent
  <2> QED
    BY <1>0, <2>1 DEF ReplyConsent
<1>5. AddressSize(script, m) = BoundSize
  <2>1. CASE script[m + 4] = 1
    BY <1>4, <2>1 DEF AddressSize, BoundSize, LastByte
  <2>2. CASE script[m + 4] = 4
    BY <1>4, <2>2 DEF AddressSize, BoundSize, LastByte
  <2> QED
    BY <1>0, <1>4, <2>1, <2>2
<1>6. Consents(plan, read')
  <2>1. m + 5 <= read' /\ read' = m + 4 + AddressSize(script, m) + 2
    BY <1>1, <1>3, <1>4, <1>5
  <2>2. SocksConsent(plan, script, read')
    BY <1>4, <2>1 DEF SocksConsent
  <2> QED
    BY <1>0, <2>2 DEF Consents, script
<1>7. AddressOf(SubSeq(script, read + 1, read + BoundSize)) \in {"unspecified", "bound"}
  BY DEF AddressOf
<1> QED
  BY <1>0, <1>2, <1>3, <1>6, <1>7, Opens

(* A domain in the reply. *)
LEMMA DomainStep == Inv /\ ReadDomain /\ UNCHANGED <<listener, client>> => Inv'
<1> SUFFICES ASSUME Inv, ReadDomain, UNCHANGED <<listener, client>> PROVE Inv'
  OBVIOUS
<1>0. /\ TypeOK /\ pc = "name" /\ plan.protocol = "socks5"
      /\ ReplyConsent(read - 5) /\ script[read - 1] = 3
  BY DEF ReadDomain, Inv, Place
<1>1. PICK m \in {2, 4} : /\ read = m + 5 /\ MethodConsent(plan, script, m)
                          /\ script[m + 1] = 5 /\ script[m + 2] = 0 /\ script[m + 4] = 3
  <2>1. read \in Nat
    BY <1>0, Bounds
  <2>2. read - 5 \in {2, 4} /\ read = (read - 5) + 5 /\ read - 1 = (read - 5) + 4
    BY <1>0, <2>1 DEF ReplyConsent
  <2> QED
    BY <1>0, <2>2 DEF ReplyConsent
<1>2. LastByte \in Nat /\ LastByte = script[m + 5]
  <2>1. read \in 1..Len(script)
    BY <1>0, <1>1, Bounds
  <2> QED
    BY <1>0, <1>1, <2>1, Bounds, ElementOfSeq DEF LastByte
<1>3. LastByte + 2 \in Nat /\ LastByte + 2 \in 1..(LastByte + 2)
  BY <1>2
<1>4. ReadExact(LastByte + 2) /\ BoundIs("unspecified", Byte(LastByte + 2))
  BY DEF ReadDomain
<1>5. /\ read' = read + (LastByte + 2) /\ read' \in Nat /\ read <= read' /\ read' <= arrived
      /\ Byte(LastByte + 2) \in Nat
  BY <1>0, <1>3, <1>4, ExactlyRead
<1>6. Consents(plan, read')
  <2>1. AddressSize(script, m) = 1 + LastByte
    BY <1>1, <1>2 DEF AddressSize
  <2>2. m + 5 <= read' /\ read' = m + 4 + AddressSize(script, m) + 2
    BY <1>1, <1>2, <1>5, <2>1
  <2>3. SocksConsent(plan, script, read')
    BY <1>1, <2>2 DEF SocksConsent
  <2> QED
    BY <1>0, <2>3 DEF Consents, script
<1> QED
  BY <1>0, <1>4, <1>5, <1>6, Opens

(* The HTTP response: each read sees the first end of the header as soon as it
   is in the buffer, and keeps what follows it. *)
LEMMA ResponseStep == Inv /\ ReadResponse /\ UNCHANGED <<listener, client>> => Inv'
<1> SUFFICES ASSUME Inv, ReadResponse, UNCHANGED <<listener, client>> PROVE Inv'
  OBVIOUS
<1> DEFINE ends == HeaderEnds(SubSeq(script, 1, read'))
<1>0. /\ TypeOK /\ pc = "response" /\ plan.protocol = "http" /\ plan.job # "udp"
      /\ leftover = << >> /\ client_got = << >> /\ req # None
      /\ plan \in Plans /\ plan.payload \in Seq(Nat)
      /\ pc \in Underway \ {"backlog", "dest", "sni", "lookup"}
      /\ UNCHANGED <<plan, arrived, hostname, req, relay_addr>> /\ script' = script
  BY PlanIsTyped DEF ReadResponse, Inv, TypeOK, Place, Granted, Underway, Opening, script
<1>1. /\ read' \in Nat /\ read <= read' /\ read' <= arrived /\ read' <= MAX_RESPONSE_SIZE
      /\ read' \in 0..Len(script)
  <2>1. read' = Min({arrived, MAX_RESPONSE_SIZE}) /\ arrived - read > 0 /\ read < MAX_RESPONSE_SIZE
    BY DEF ReadResponse, Unread
  <2>2. read' = IF arrived <= MAX_RESPONSE_SIZE THEN arrived ELSE MAX_RESPONSE_SIZE
    <3>1. arrived \in Int /\ MAX_RESPONSE_SIZE \in Int
      BY <1>0, Bounds, TunnelAssumption
    <3> QED
      BY <2>1, <3>1, MinOfTwo
  <2> QED
    BY <1>0, <2>1, <2>2, Bounds, TunnelAssumption
<1>2. NameFits'
  BY <1>0 DEF Inv, NameFits, LengthField
<1>3. req' \in Request \cup {None} /\ req' # None
  BY <1>0 DEF Inv, TypeOK
<1>4. CASE ends = {} /\ UNCHANGED <<pc, leftover>>
  <2>1. Place'
    BY <1>0, <1>4 DEF Place, Opening
  <2>2. pc' \in Underway \ {"backlog", "dest", "sni", "lookup"}
    BY <1>0, <1>4
  <2> QED
    BY <1>0, <1>1, <1>2, <1>3, <1>4, <2>1, <2>2, StaysUnderway
<1>5. CASE ends # {} /\ script[1] # 200 /\ GoTo("closed")
  BY <1>0, <1>1, <1>5, Closes
<1>6. CASE ends # {} /\ script[1] = 200 /\ pc' = "leftover"
           /\ leftover' = SubSeq(script, Min(ends) + 1, read')
  <2> DEFINE n == Min(ends)
  <2>1. script \in Seq(Nat) /\ ends = {e \in HeaderEnds(script) : e <= read'}
    BY <1>0, <1>1, Bounds, HeaderEndsOfPrefix
  <2>2. HeaderEnds(script) \in SUBSET Nat /\ ends \in SUBSET Nat
    <3>1. HeaderEnds(script) \in SUBSET Nat
      BY DEF HeaderEnds
    <3> QED
      BY <2>1, <3>1
  <2>3. n \in ends /\ \A e \in ends : n <= e
    <3> HIDE DEF ends
    <3> QED
      BY <1>6, <2>2, MinIsLeast
  <2> HIDE DEF n
  <2>4. n \in HeaderEnds(script) /\ n \in Nat /\ n <= read'
    BY <2>1, <2>2, <2>3
  <2>5. \A e \in HeaderEnds(script) : n <= e
    BY <1>1, <2>1, <2>2, <2>3, <2>4
  <2>6. Consents(plan, n)
    <3>1. HttpConsent(script, n)
      BY <1>1, <1>6, <2>4, <2>5, TunnelAssumption DEF HttpConsent
    <3> QED
      BY <1>0, <3>1 DEF Consents, script
  <2>7. plan.grants /\ SubSeq(script, n + 1, Len(script)) = plan.payload
    <3>1. n \in 0..Len(ScriptOf(plan))
      BY <1>0, <1>1, <2>4, Bounds DEF script
    <3> QED
      BY <1>0, <2>6, <3>1, ConsentIsGranted DEF script
  <2>8. leftover' = SubSeq(script, n + 1, read')
    BY <1>6 DEF n
  <2>9. leftover' \o SubSeq(script, read' + 1, Len(script)) = plan.payload
    <3>1. /\ n + 1 \in 1..(Len(script) + 1) /\ read' \in ((n + 1) - 1)..Len(script)
          /\ Len(script) \in read'..Len(script)
      BY <1>0, <1>1, <2>4, Bounds
    <3> QED
      BY <2>1, <2>7, <2>8, <3>1, ConcatAdjacentSubSeq
  <2>10. leftover' \in Seq(Nat)
    <3>1. \A i \in (n + 1)..read' : script[i] \in Nat
      <4> TAKE i \in (n + 1)..read'
      <4>1. i \in 1..Len(script)
        BY <1>0, <1>1, <2>4, Bounds
      <4> QED
        BY <2>1, <4>1, ElementOfSeq
    <3> QED
      BY <1>1, <2>4, <2>8, <3>1, SubSeqProperties
  <2>11. client_got' \o leftover' \o SubSeq(script, read' + 1, Len(script)) = plan.payload
    <3>1. client_got' = << >>
      BY <1>0 DEF client
    <3>2. << >> \o leftover' = leftover'
      BY <2>10, ConcatEmptySeq
    <3> QED
      BY <2>9, <3>1, <3>2
  <2>12. TypeOK' /\ Named'
    <3>1. pc' \in Stages \ {"backlog", "dest", "sni", "lookup"}
      BY <1>6 DEF Stages
    <3>2. relay_addr' \in [ip : {"bound", "proxy"}, port : Nat] \cup {None}
      BY <1>0 DEF Inv, TypeOK
    <3> QED
      BY <1>0, <1>1, <1>3, <2>10, <3>1, <3>2, ReadsOn
  <2>13. Place'
    BY <1>0, <1>6 DEF Place, Opening
  <2>14. Granted'
    BY <1>0, <1>6, <2>7, <2>11 DEF Granted, OnlyWithConsent, Established, Underway, Opening, client
  <2> QED
    BY <1>2, <2>12, <2>13, <2>14 DEF Inv
<1> QED
  <2>1. \/ ends = {} /\ UNCHANGED <<pc, leftover>>
        \/ /\ ends # {}
           /\ IF script[1] = 200
              THEN leftover' = SubSeq(script, Min(ends) + 1, read') /\ pc' = "leftover"
              ELSE pc' = "closed" /\ UNCHANGED leftover
    BY DEF ReadResponse
  <2>2. ends # {} /\ script[1] # 200 => GoTo("closed")
    BY <1>0, <2>1 DEF GoTo
  <2> QED
    BY <1>4, <1>5, <1>6, <2>1, <2>2

(* What came with the handshake goes to the client before anything else. *)
LEMMA DeliverStep == Inv /\ DeliverLeftover => Inv'
<1> SUFFICES ASSUME Inv, DeliverLeftover PROVE Inv'
  OBVIOUS
<1>0. /\ pc = "leftover" /\ client_got = << >> /\ leftover \in Seq(Nat)
      /\ client_got' = leftover /\ leftover' = << >> /\ pc' = "relay"
      /\ UNCHANGED <<plan, arrived, read, hostname, req, relay_addr,
                     listener, sent, ended, attempts, sni>>
      /\ script' = script
  BY DEF DeliverLeftover, Inv, TypeOK, Granted, script
<1>1. TypeOK'
  BY <1>0, EmptySeq DEF Inv, TypeOK, Stages
<1>2. Place'
  BY <1>0 DEF Inv, Place, Opening
<1>3. NameFits' /\ Named'
  BY <1>0, WholeNameFixed DEF Inv, NameFits, LengthField, Named
<1>4. Granted'
  <2>1. /\ plan.grants /\ req # None /\ plan.job # "udp"
        /\ << >> \o leftover \o SubSeq(script, read + 1, Len(script)) = plan.payload
    BY <1>0 DEF Inv, Granted, OnlyWithConsent, Established
  <2>2. client_got' \o leftover' = client_got \o leftover
    BY <1>0, ConcatEmptySeq
  <2>3. client_got' \o leftover' \o SubSeq(script, read' + 1, Len(script')) = plan'.payload
    BY <1>0, <2>1, <2>2
  <2> QED
    BY <1>0, <2>1, <2>3 DEF Granted, OnlyWithConsent, Established, Underway, Opening
<1> QED
  BY <1>1, <1>2, <1>3, <1>4 DEF Inv

(* Every step keeps the invariant. *)
LEMMA InvStep == Inv /\ [Next]_vars => Inv'
<1> SUFFICES ASSUME Inv, [Next]_vars PROVE Inv'
  OBVIOUS
<1>1. CASE UNCHANGED vars
  <2>1. /\ UNCHANGED <<plan, pc, arrived, read, hostname, req, leftover, relay_addr>>
        /\ UNCHANGED <<listener, sent, ended, attempts, sni, client_got>>
    BY <1>1 DEF vars, tunnel, client
  <2>2. TypeOK' /\ Named'
    BY <2>1, WholeNameFixed DEF Inv, TypeOK, Named, script
  <2> QED
    BY <2>1, <2>2, Unmoved DEF Inv
<1>2. CASE Next
  <2>1. CASE Tunnelling
    BY <2>1, ConnectStep, RequestStep, ResponseStep, MethodStep, AuthStep, ReplyStep, BoundStep,
       DomainLengthStep, DomainStep DEF Tunnelling, Handshake
  <2> QED
    BY <1>2, <2>1, OthersStep, DestinationStep, SniStep, LookupStep, FailStep, DeliverStep DEF Next
<1> QED
  BY <1>1, <1>2

-----------------------------------------------------------------------------
(***************************************************************************)
(* The theorems.                                                           *)
(***************************************************************************)

(* Every reachable state satisfies the invariant. *)
THEOREM InvAlways == Spec => []Inv
<1> QED
  BY InvInit, InvStep, PTL DEF Spec

(* Every variable of a connection keeps its type, whatever arrives. *)
THEOREM TypeCorrect == Spec => []TypeOK
<1>1. Inv => TypeOK
  BY DEF Inv
<1> QED
  BY <1>1, InvAlways, PTL

(* However the upstream proxy's stream is cut into pieces, the payload behind
   its handshake reaches the client or the relay whole and in order, and the
   end of an HTTP header is not overlooked (handshake_http_connect,
   read_socks5_bound_addr, handle_connection). *)
THEOREM StreamIntactAlways == Spec => []StreamIntact
<1>1. Inv => StreamIntact
  BY DEF Inv, Place, Granted, StreamIntact
<1> QED
  BY <1>1, InvAlways, PTL

(* No tunnel is used that the upstream proxy did not open, in the terms of its
   protocol, for a request that was sent (connect_via_proxy, udp_associate). *)
THEOREM OnlyWithConsentAlways == Spec => []OnlyWithConsent
<1>1. Inv => OnlyWithConsent
  BY DEF Inv, Granted
<1> QED
  BY <1>1, InvAlways, PTL

(* Names of any length and content, from the ClientHello or the table: only
   what fits a request gets into one (is_safe_proxy_hostname). *)
THEOREM NameFitsAlways == Spec => []NameFits
<1>1. Inv => NameFits
  BY DEF Inv
<1> QED
  BY <1>1, InvAlways, PTL

(* A ClientHello of any length in any pieces: if it is complete before the
   peeks run out, the name is the one in the whole of it (extract_sni). *)
THEOREM SplitHelloKeepsNameAlways == Spec => []SplitHelloKeepsName
<1>1. Inv => SplitHelloKeepsName
  BY DEF Inv, Named, SplitHelloKeepsName, WholeName
<1> QED
  BY <1>1, InvAlways, PTL
=============================================================================
