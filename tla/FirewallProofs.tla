--------------------------- MODULE FirewallProofs ---------------------------
(***************************************************************************)
(* Theorems about module Firewalls: for any configurations, any number of   *)
(* programs and failures, and on both platforms.                            *)
(*                                                                          *)
(* On Linux the argument is about the commands that remain.  Each chain is  *)
(* a prefix of what it will be when set-up is complete (Full), the commands *)
(* that remain continue it (Emits), and they come in a fixed order of       *)
(* phases, so that no chain is begun while something before it is missing.  *)
(* What a packet meets is then read off the first rules of a prefix.        *)
(*                                                                          *)
(* On macOS the anchor holds the rules of one configuration, whole, or none; *)
(* what is left to show is that a set-up that ends well has loaded them and *)
(* made the main ruleset refer to them, and what they do with a packet.     *)
(***************************************************************************)
EXTENDS Firewalls, FiniteSetsExt, NaturalsInduction, WellFoundedInduction, TLAPS

(* A nonempty set of numbers has a least element, which Min finds. *)
LEMMA MinIsLeast ==
    ASSUME NEW S \in SUBSET Nat, S # {}
    PROVE  Min(S) \in S /\ \A y \in S : Min(S) =< y
<1> DEFINE R == {ss \in Nat \X Nat : ss[1] < ss[2]}
<1>1. IsWellFoundedOn(R, Nat)
  BY NatLessThanWellFounded DEF OpToRel
<1>2. PICK x \in S : \A y \in S : ~(<<y, x>> \in R)
  <2> HIDE DEF R
  <2> QED
    BY <1>1, WFMin
<1>3. \A y \in S : x =< y
  <2> TAKE y \in S
  <2>1. x \in Nat /\ y \in Nat /\ <<y, x>> \notin R
    BY <1>2
  <2>2. <<y, x>> \in R <=> y < x
    BY <2>1
  <2> QED
    BY <2>1, <2>2
<1> QED
  BY <1>3, Zenon DEF Min

(* What is kept of a list of ports is a list of ports other than 53.  The lack
   of the function that the definition names, and then a wrong value of it,
   would have a first place. *)
LEMMA WithoutDnsIsSeq ==
    ASSUME NEW S, NEW s \in Seq(S)
    PROVE  WithoutDns(s) \in Seq(S \ {53})
<1> DEFINE step(f, i) == IF s[i] = 53 THEN f[i - 1] ELSE Append(f[i - 1], s[i])
           kept(f, n) == f = [i \in 0..n |-> IF i = 0 THEN << >> ELSE step(f, i)]
           g == CHOOSE f : kept(f, Len(s))
           lack == {n \in 0..Len(s) : \A f : ~kept(f, n)}
           wrong == {n \in 0..Len(s) : g[n] \notin Seq(S \ {53})}
<1>1. WithoutDns(s) = g[Len(s)]
  BY DEF WithoutDns
<1>2. Len(s) \in Nat /\ lack \in SUBSET Nat /\ wrong \in SUBSET Nat
  OBVIOUS
<1>3. lack = {}
  <2> SUFFICES ASSUME lack # {}
               PROVE  FALSE
    OBVIOUS
  <2> DEFINE m == Min(lack)
  <2>1. m \in lack /\ \A y \in lack : m =< y
    <3> HIDE DEF lack
    <3> QED
      BY <1>2, MinIsLeast
  <2>2. m \in Nat /\ m =< Len(s)
    BY <2>1
  <2> HIDE DEF m
  <2>3. CASE m = 0
    <3>1. kept([i \in 0..0 |-> << >>], 0)
      OBVIOUS
    <3> QED
      BY <2>1, <2>3, <3>1
  <2>4. CASE m # 0
    <3>1. m - 1 \in 0..Len(s) /\ m - 1 \notin lack
      <4>1. m - 1 \in 0..Len(s) /\ ~(m =< m - 1)
        BY <1>2, <2>2, <2>4
      <4> QED
        BY <2>1, <4>1, Zenon
    <3>2. PICK f : kept(f, m - 1)
      BY <3>1
    <3> DEFINE h == [i \in 0..m |-> IF i = m THEN step(f, m) ELSE f[i]]
    <3>3. \A i \in 0..(m - 1) : f[i] = IF i = 0 THEN << >> ELSE step(f, i)
      BY <3>2
    <3>4. \A i \in 0..m : h[i] = IF i = 0 THEN << >> ELSE step(h, i)
      <4> TAKE i \in 0..m
      <4>1. CASE i = m
        BY <2>2, <2>4, <4>1
      <4>2. CASE i # m
        <5>1. i \in 0..(m - 1) /\ (i # 0 => i - 1 \in 0..m /\ i - 1 # m)
          BY <2>2, <4>2
        <5> QED
          BY <3>3, <4>2, <5>1
      <4> QED
        BY <4>1, <4>2
    <3>5. kept(h, m)
      BY <3>4
    <3> QED
      BY <2>1, <3>5
  <2> QED
    BY <2>3, <2>4
<1>4. kept(g, Len(s))
  <2>1. Len(s) \notin lack
    BY <1>3
  <2>2. \E f : kept(f, Len(s))
    BY <1>2, <2>1
  <2> HIDE DEF kept
  <2> QED
    BY <2>2
<1> HIDE DEF g
<1>5. \A n \in 0..Len(s) : g[n] = IF n = 0 THEN << >> ELSE step(g, n)
  BY <1>4
<1>6. wrong = {}
  <2> SUFFICES ASSUME wrong # {}
               PROVE  FALSE
    OBVIOUS
  <2> DEFINE m == Min(wrong)
  <2>1. m \in wrong /\ \A y \in wrong : m =< y
    <3> HIDE DEF wrong
    <3> QED
      BY <1>2, MinIsLeast
  <2>2. m \in 0..Len(s)
    BY <2>1
  <2> HIDE DEF m
  <2>3. m # 0
    <3>1. g[0] = << >>
      BY <1>2, <1>5
    <3>2. << >> \in Seq(S \ {53}) /\ g[m] \notin Seq(S \ {53})
      BY <2>1
    <3> QED
      BY <3>1, <3>2
  <2>4. m - 1 \in 0..Len(s) /\ m - 1 \notin wrong /\ m \in 1..Len(s)
    BY <1>2, <2>1, <2>2, <2>3
  <2>5. g[m - 1] \in Seq(S \ {53})
    BY <2>4
  <2>6. g[m] = step(g, m)
    BY <1>5, <2>4
  <2>7. s[m] \in S
    BY <2>4
  <2>8. g[m] \in Seq(S \ {53})
    BY <2>5, <2>6, <2>7
  <2> QED
    BY <2>1, <2>8
<1>7. g[Len(s)] \in Seq(S \ {53})
  BY <1>2, <1>6
<1> QED
  BY <1>1, <1>7

-----------------------------------------------------------------------------
(***************************************************************************)
(* Definitions.                                                            *)
(***************************************************************************)

(* The rules that a chain has once set-up is complete. *)
Full(c, f, ch) ==
    CASE ch = "prerouting"        -> Prerouting(c, f)
      [] ch = "output"            -> When(c.local_traffic, Output(c, f))
      [] ch = "tproxy_prerouting" -> When(proxy_udp(c), QuicRules(c, "lan", "tproxy"))
      [] ch = "quic_forward"      -> QuicRules(c, "lan", "drop")
      [] ch = "quic_output"       -> When(c.local_traffic, QuicRules(c, "to_lan", "drop"))

(* How many of them set-up adds unless TPROXY fails. *)
Planned(c, f, ch) ==
    IF ch = "quic_forward" /\ proxy_udp(c) THEN 0 ELSE Len(Full(c, f, ch))

Ops == {"delete", "forward", "unforward", "table", "chain", "rule", "rule del", "rule add",
        "route flush", "route add", "load", "reference", "enable", "flush", "restore"}

Removing == {"delete", "rule del", "route flush", "unforward", "flush", "restore"}

(* Those of pf's that are not for a family. *)
AnchorOps == {"load", "reference", "enable", "flush", "restore"}

Commands ==
    {r \in [op : Ops, chain : Chains \cup {""}, rule : Rule \cup {NoRule}, on : Severity,
            fam : Families \cup {""}] : r.op \notin AnchorOps => r.fam \in Families}

AddsTo(cmd, f, ch) == cmd.op = "rule" /\ cmd.fam = f /\ cmd.chain = ch

(* The commands of s that add to a chain follow one another, and what they add
   are the rules m + 1 to n of F. *)
Emits(s, f, ch, F, m, n) ==
    \E a \in 0..Len(s) :
        /\ a + (n - m) =< Len(s)
        /\ \A i \in 1..Len(s) : AddsTo(s[i], f, ch) <=> i \in (a + 1)..(a + (n - m))
        /\ \A i \in (a + 1)..(a + (n - m)) : s[i].rule = F[m + i - a]

Silent(s, f, ch) == \A i \in 1..Len(s) : ~AddsTo(s[i], f, ch)

(* The order in which set-up works: IPv4, IPv6, policy routing. *)
Base(f) == IF f = "ip" THEN 2 ELSE 6

Rank(f, ch) ==
    CASE ch \in {"prerouting", "output"} -> Base(f)
      [] ch = "tproxy_prerouting"        -> Base(f) + 1
      [] ch = "quic_forward"             -> Base(f) + 2
      [] ch = "quic_output"              -> Base(f) + 3

Phase(cmd) ==
    CASE cmd.op \in {"delete", "forward"} -> 1
      [] cmd.op = "table"                 -> Base(cmd.fam)
      [] cmd.op \in {"chain", "rule"}     -> Rank(cmd.fam, cmd.chain)
      [] OTHER                            -> 10

Sorted(s) == \A i, j \in 1..Len(s) : i =< j => Phase(s[i]) =< Phase(s[j])

(* A failure has consequences only for what comes at the same phase or later. *)
Sane(cmd) ==
    /\ cmd.op \in {"chain", "rule"} => cmd.fam \in Families /\ cmd.chain \in Chains
    /\ cmd.op = "rule" => cmd.rule \in Rule
    /\ cmd.op \in {"delete", "table"} => cmd.fam \in Families
    /\ cmd.on = "ignore" => cmd.op \notin {"chain", "rule", "table"}
    /\ cmd.on = "routing" => Phase(cmd) = 10
    /\ cmd.on = "v6" => Phase(cmd) >= 6
    /\ cmd.on = "tproxy" => cmd.op \in {"chain", "rule"} /\ cmd.chain = "tproxy_prerouting"

(* A part of set-up, from phase l to phase h. *)
Block(s, l, h) ==
    /\ s \in Seq(Commands) /\ Sorted(s)
    /\ \A i \in 1..Len(s) : Sane(s[i]) /\ l =< Phase(s[i]) /\ Phase(s[i]) =< h

-----------------------------------------------------------------------------
(***************************************************************************)
(* The rules of a configuration are sequences of rules.                    *)
(***************************************************************************)

(* A rule as Match builds it, with arguments of the right kind. *)
LEMMA MatchIsRule ==
    ASSUME NEW via \in {"any", "lan", "to_lan"}, NEW proto \in {"any", "tcp", "udp"},
           NEW dport \in Dports \cup {AnyPort}, NEW dst \in {"any", "iface", "local", "upstream"},
           NEW verdict \in {"return", "redirect", "dnat", "tproxy", "drop"}
    PROVE  Match(via, proto, dport, dst, verdict) \in Rule
  BY DEF Match, Rule

(* What is sent to the QUIC ports is never DNS. *)
LEMMA QuicPorts ==
    ASSUME NEW c \in Configs
    PROVE  quic_block_ports(c) \in Seq(Dports \ {53})
<1>1. c.ports \in Seq(Dports)
  BY ConfigsAssumption DEF Config
<1>2. WithoutDns(c.ports) \in Seq(Dports \ {53})
  BY <1>1, WithoutDnsIsSeq
<1>3. <<443>> \in Seq(Dports \ {53}) /\ << >> \in Seq(Dports \ {53})
  BY FirewallAssumption
<1> QED
  BY <1>2, <1>3 DEF quic_block_ports

(* One rule for each QUIC port, in their order. *)
LEMMA QuicRulesAreRules ==
    ASSUME NEW c \in Configs, NEW via \in {"lan", "to_lan"}, NEW verdict \in {"tproxy", "drop"}
    PROVE  /\ QuicRules(c, via, verdict) \in Seq(Rule)
           /\ Len(QuicRules(c, via, verdict)) = Len(quic_block_ports(c))
           /\ \A i \in 1..Len(quic_block_ports(c)) : QuicRules(c, via, verdict)[i] =
                  Match(via, "udp", quic_block_ports(c)[i], "any", verdict)
<1> DEFINE W == quic_block_ports(c)
           n == Len(W)
           rule(i) == Match(via, "udp", W[i], "any", verdict)
<1>1. W \in Seq(Dports \ {53})
  BY QuicPorts
<1>2. n \in Nat /\ DOMAIN W = 1..n /\ \A i \in 1..n : W[i] \in Dports
  BY <1>1
<1>3. \A i \in 1..n : rule(i) \in Rule
  BY <1>2, MatchIsRule
<1>4. QuicRules(c, via, verdict) = [i \in 1..n |-> rule(i)]
  BY <1>2 DEF QuicRules
<1> HIDE DEF n, rule
<1>5. [i \in 1..n |-> rule(i)] \in Seq(Rule) /\ Len([i \in 1..n |-> rule(i)]) = n
  BY <1>2, <1>3
<1>6. \A i \in 1..n : QuicRules(c, via, verdict)[i] = rule(i)
  BY <1>4
<1> QED
  BY <1>4, <1>5, <1>6 DEF n, rule

(* One redirect for each port of the list, in its order. *)
LEMMA PortRedirectsAreRules ==
    ASSUME NEW c \in Configs, NEW via \in {"any", "lan"}
    PROVE  /\ PortRedirects(c, via) \in Seq(Rule)
           /\ Len(PortRedirects(c, via)) = Len(c.ports)
           /\ \A i \in 1..Len(c.ports) :
                 PortRedirects(c, via)[i] = Match(via, "tcp", c.ports[i], "any", "redirect")
<1> DEFINE n == Len(c.ports)
           rule(i) == Match(via, "tcp", c.ports[i], "any", "redirect")
<1>1. c.ports \in Seq(Dports)
  BY ConfigsAssumption DEF Config
<1>2. n \in Nat /\ DOMAIN c.ports = 1..n /\ \A i \in 1..n : c.ports[i] \in Dports
  BY <1>1
<1>3. \A i \in 1..n : rule(i) \in Rule
  BY <1>2, MatchIsRule
<1>4. PortRedirects(c, via) = [i \in 1..n |-> rule(i)]
  BY <1>2 DEF PortRedirects
<1> HIDE DEF n, rule
<1>5. [i \in 1..n |-> rule(i)] \in Seq(Rule) /\ Len([i \in 1..n |-> rule(i)]) = n
  BY <1>2, <1>3
<1>6. \A i \in 1..n : PortRedirects(c, via)[i] = rule(i)
  BY <1>4
<1> QED
  BY <1>4, <1>5, <1>6 DEF n, rule

(* The parts that consist of single rules. *)
LEMMA PartsAreRules ==
    ASSUME NEW c \in Configs, NEW f \in Families, NEW via \in {"any", "lan"}
    PROVE  /\ SshReturn(c, f, via) \in Seq(Rule) /\ LocalReturn(via) \in Seq(Rule)
           /\ CatchAll(via) \in Seq(Rule) /\ DnsRules(c, f) \in Seq(Rule)
           /\ MarkReturn \in Seq(Rule) /\ UpstreamReturn(c, f) \in Seq(Rule)
<1>1. {22, 53, UpPort, AnyPort} \subseteq Dports \cup {AnyPort}
  BY FirewallAssumption
<1>2. Match(via, "tcp", 22, "iface", "return") \in Rule
  BY <1>1, MatchIsRule
<1>3. Match(via, "any", AnyPort, "local", "return") \in Rule
  BY <1>1, MatchIsRule
<1>4. Match(via, "tcp", AnyPort, "any", "redirect") \in Rule
  BY <1>1, MatchIsRule
<1>5. Match("lan", "udp", 53, "any", "dnat") \in Rule /\ Match("lan", "tcp", 53, "any", "dnat") \in Rule
  BY <1>1, MatchIsRule
<1>6. Match("any", "tcp", UpPort, "upstream", "return") \in Rule
  BY <1>1, MatchIsRule
<1>7. [Match("any", "any", AnyPort, "any", "return") EXCEPT !.marked = TRUE] \in Rule
  <2>1. Match("any", "any", AnyPort, "any", "return") \in Rule
    BY <1>1, MatchIsRule
  <2> QED
    BY <2>1 DEF Rule
<1> QED
  BY <1>2, <1>3, <1>4, <1>5, <1>6, <1>7
  DEF SshReturn, LocalReturn, CatchAll, DnsRules, MarkReturn, UpstreamReturn, When

(* The two NAT chains are put together of such parts. *)
LEMMA ChainsAreRules ==
    ASSUME NEW c \in Configs, NEW f \in Families
    PROVE  Prerouting(c, f) \in Seq(Rule) /\ Output(c, f) \in Seq(Rule)
<1>1. PortRedirects(c, "lan") \in Seq(Rule) /\ PortRedirects(c, "any") \in Seq(Rule)
  BY PortRedirectsAreRules
<1>2. /\ SshReturn(c, f, "lan") \in Seq(Rule) /\ LocalReturn("lan") \in Seq(Rule)
      /\ CatchAll("lan") \in Seq(Rule) /\ DnsRules(c, f) \in Seq(Rule)
  BY PartsAreRules
<1>3. /\ SshReturn(c, f, "any") \in Seq(Rule) /\ LocalReturn("any") \in Seq(Rule)
      /\ CatchAll("any") \in Seq(Rule) /\ MarkReturn \in Seq(Rule) /\ UpstreamReturn(c, f) \in Seq(Rule)
  BY PartsAreRules
<1> QED
  BY <1>1, <1>2, <1>3 DEF Prerouting, Output

(* A complete chain is a sequence of rules. *)
LEMMA FullIsRules ==
    ASSUME NEW c \in Configs, NEW f \in Families, NEW ch \in Chains
    PROVE  Full(c, f, ch) \in Seq(Rule)
<1>1. /\ QuicRules(c, "lan", "tproxy") \in Seq(Rule) /\ QuicRules(c, "lan", "drop") \in Seq(Rule)
      /\ QuicRules(c, "to_lan", "drop") \in Seq(Rule)
  BY QuicRulesAreRules
<1>2. << >> \in Seq(Rule)
  OBVIOUS
<1> QED
  BY <1>1, <1>2, ChainsAreRules DEF Full, When, Chains

-----------------------------------------------------------------------------
(***************************************************************************)
(* Sequences of commands.                                                  *)
(***************************************************************************)

(* Elements of a concatenation. *)
LEMMA ConcatAt ==
    ASSUME NEW S, NEW s \in Seq(S), NEW t \in Seq(S)
    PROVE  /\ s \o t \in Seq(S) /\ Len(s \o t) = Len(s) + Len(t)
           /\ \A i \in 1..Len(s) : (s \o t)[i] = s[i]
           /\ \A i \in 1..Len(t) : (s \o t)[Len(s) + i] = t[i]
           /\ \A i \in 1..Len(s \o t) :
                 \/ i \in 1..Len(s) /\ (s \o t)[i] = s[i]
                 \/ i > Len(s) /\ i - Len(s) \in 1..Len(t) /\ (s \o t)[i] = t[i - Len(s)]
  OBVIOUS

(* The phase of a command that makes sense is a number. *)
LEMMA PhaseIsNat ==
    ASSUME NEW cmd, Sane(cmd)
    PROVE  Phase(cmd) \in Nat
<1>1. \A f : Base(f) \in Nat
  BY DEF Base
<1>2. \A f, ch : ch \in Chains => Rank(f, ch) \in Nat
  BY <1>1 DEF Rank, Chains
<1> QED
  BY <1>1, <1>2 DEF Phase, Sane

(* One part after the other. *)
LEMMA BlockConcat ==
    ASSUME NEW s, NEW t, NEW l \in Int, NEW m \in Int, NEW k \in Int, NEW h \in Int,
           Block(s, l, m), Block(t, k, h), m =< k, l =< k, m =< h
    PROVE  Block(s \o t, l, h)
<1> DEFINE u == s \o t
<1>1. s \in Seq(Commands) /\ t \in Seq(Commands)
  BY DEF Block
<1>2. /\ u \in Seq(Commands) /\ Len(u) = Len(s) + Len(t) /\ Len(s) \in Nat /\ Len(t) \in Nat
      /\ \A i \in 1..Len(u) :
            \/ i \in 1..Len(s) /\ u[i] = s[i]
            \/ i > Len(s) /\ i - Len(s) \in 1..Len(t) /\ u[i] = t[i - Len(s)]
  BY <1>1, ConcatAt
<1> HIDE DEF u
<1>3. \A i \in 1..Len(s) : Sane(s[i]) /\ Phase(s[i]) \in Int /\ l =< Phase(s[i]) /\ Phase(s[i]) =< m
  BY PhaseIsNat DEF Block
<1>4. \A i \in 1..Len(t) : Sane(t[i]) /\ Phase(t[i]) \in Int /\ k =< Phase(t[i]) /\ Phase(t[i]) =< h
  BY PhaseIsNat DEF Block
<1>5. ASSUME NEW i \in 1..Len(u)
      PROVE  Sane(u[i]) /\ l =< Phase(u[i]) /\ Phase(u[i]) =< h
  <2>1. CASE i \in 1..Len(s) /\ u[i] = s[i]
    BY <1>3, <2>1
  <2>2. CASE i - Len(s) \in 1..Len(t) /\ u[i] = t[i - Len(s)]
    BY <1>4, <2>2
  <2> QED
    BY <1>2, <2>1, <2>2
<1>6. Sorted(u)
  <2> SUFFICES ASSUME NEW i \in 1..Len(u), NEW j \in 1..Len(u), i =< j
               PROVE  Phase(u[i]) =< Phase(u[j])
    BY DEF Sorted
  <2>1. CASE j \in 1..Len(s) /\ u[j] = s[j]
    <3>1. i \in 1..Len(s) /\ u[i] = s[i]
      BY <1>2, <2>1
    <3> QED
      BY <2>1, <3>1 DEF Block, Sorted
  <2>2. CASE j > Len(s) /\ j - Len(s) \in 1..Len(t) /\ u[j] = t[j - Len(s)]
    <3>1. CASE i \in 1..Len(s) /\ u[i] = s[i]
      BY <1>3, <1>4, <2>2, <3>1
    <3>2. CASE i > Len(s) /\ i - Len(s) \in 1..Len(t) /\ u[i] = t[i - Len(s)]
      <4>1. i - Len(s) =< j - Len(s)
        BY <1>2
      <4> QED
        BY <2>2, <3>2, <4>1 DEF Block, Sorted
    <3> QED
      BY <1>2, <3>1, <3>2
  <2> QED
    BY <1>2, <2>1, <2>2
<1> QED
  BY <1>2, <1>5, <1>6 DEF Block, u

(* A part that is left out is a part of any phase. *)
LEMMA NoBlock ==
    ASSUME NEW l \in Int, NEW h \in Int
    PROVE  Block(<< >>, l, h)
  BY DEF Block, Sorted

(* The phases of a part may be given more generously. *)
LEMMA WiderBlock ==
    ASSUME NEW s, NEW l \in Int, NEW m \in Int, NEW k \in Int, NEW h \in Int,
           Block(s, l, m), k =< l, m =< h
    PROVE  Block(s, k, h)
<1>1. \A i \in 1..Len(s) : Phase(s[i]) \in Int
  BY PhaseIsNat DEF Block
<1> QED
  BY <1>1 DEF Block

(* What adds nothing, adds no rule of any list. *)
LEMMA SilentEmitsNone ==
    ASSUME NEW s \in Seq(Commands), NEW f, NEW ch, NEW F, NEW m \in Nat
    PROVE  Silent(s, f, ch) <=> Emits(s, f, ch, F, m, m)
<1>1. Len(s) \in Nat
  OBVIOUS
<1>2. ASSUME Silent(s, f, ch)
      PROVE  Emits(s, f, ch, F, m, m)
  <2> DEFINE a == 0
  <2>1. a \in 0..Len(s) /\ a + (m - m) =< Len(s) /\ (a + 1)..(a + (m - m)) = {}
    BY <1>1
  <2> QED
    BY <1>2, <2>1 DEF Silent, Emits
<1>3. ASSUME Emits(s, f, ch, F, m, m)
      PROVE  Silent(s, f, ch)
  <2>1. PICK a \in 0..Len(s) : \A i \in 1..Len(s) : AddsTo(s[i], f, ch) <=> i \in (a + 1)..(a + (m - m))
    BY <1>3 DEF Emits
  <2>2. (a + 1)..(a + (m - m)) = {}
    OBVIOUS
  <2> QED
    BY <2>1, <2>2 DEF Silent
<1> QED
  BY <1>2, <1>3

(* What a chain gets before commands that do not concern it, and after. *)
LEMMA EmitsBefore ==
    ASSUME NEW s \in Seq(Commands), NEW t \in Seq(Commands), NEW f, NEW ch, NEW F,
           NEW m \in Nat, NEW n \in Nat, m =< n,
           Emits(s, f, ch, F, m, n), Silent(t, f, ch)
    PROVE  Emits(s \o t, f, ch, F, m, n)
<1> DEFINE u == s \o t
<1>1. /\ Len(u) = Len(s) + Len(t) /\ Len(s) \in Nat /\ Len(t) \in Nat
      /\ \A i \in 1..Len(u) :
            \/ i \in 1..Len(s) /\ u[i] = s[i]
            \/ i > Len(s) /\ i - Len(s) \in 1..Len(t) /\ u[i] = t[i - Len(s)]
  BY ConcatAt
<1> HIDE DEF u
<1>2. PICK a \in 0..Len(s) :
        /\ a + (n - m) =< Len(s)
        /\ \A i \in 1..Len(s) : AddsTo(s[i], f, ch) <=> i \in (a + 1)..(a + (n - m))
        /\ \A i \in (a + 1)..(a + (n - m)) : s[i].rule = F[m + i - a]
  BY DEF Emits
<1>3. a \in 0..Len(u) /\ a + (n - m) =< Len(u)
  BY <1>1, <1>2
<1>4. ASSUME NEW i \in 1..Len(u)
      PROVE  AddsTo(u[i], f, ch) <=> i \in (a + 1)..(a + (n - m))
  <2>1. CASE i \in 1..Len(s) /\ u[i] = s[i]
    BY <1>2, <2>1
  <2>2. CASE i > Len(s) /\ i - Len(s) \in 1..Len(t) /\ u[i] = t[i - Len(s)]
    <3>1. i \notin (a + 1)..(a + (n - m))
      BY <1>1, <1>2, <2>2
    <3> QED
      BY <2>2, <3>1 DEF Silent
  <2> QED
    BY <1>1, <2>1, <2>2
<1>5. ASSUME NEW i \in (a + 1)..(a + (n - m))
      PROVE  u[i].rule = F[m + i - a]
  <2>1. i \in 1..Len(s) /\ i \in 1..Len(u)
    BY <1>1, <1>2
  <2>2. u[i] = s[i]
    BY <1>1, <2>1
  <2> QED
    BY <1>2, <2>2
<1> QED
  BY <1>3, <1>4, <1>5 DEF Emits, u

(* Commands that do not add to a chain may come before those that do. *)
LEMMA EmitsAfter ==
    ASSUME NEW s \in Seq(Commands), NEW t \in Seq(Commands), NEW f, NEW ch, NEW F,
           NEW m \in Nat, NEW n \in Nat, m =< n,
           Silent(s, f, ch), Emits(t, f, ch, F, m, n)
    PROVE  Emits(s \o t, f, ch, F, m, n)
<1> DEFINE u == s \o t
           l == Len(s)
<1>1. /\ Len(u) = l + Len(t) /\ l \in Nat /\ Len(t) \in Nat
      /\ \A i \in 1..Len(u) :
            \/ i \in 1..l /\ u[i] = s[i]
            \/ i > l /\ i - l \in 1..Len(t) /\ u[i] = t[i - l]
  BY ConcatAt
<1>2. \A i \in 1..l : ~AddsTo(s[i], f, ch)
  BY DEF Silent
<1> HIDE DEF u, l
<1>3. PICK a \in 0..Len(t) :
        /\ a + (n - m) =< Len(t)
        /\ \A i \in 1..Len(t) : AddsTo(t[i], f, ch) <=> i \in (a + 1)..(a + (n - m))
        /\ \A i \in (a + 1)..(a + (n - m)) : t[i].rule = F[m + i - a]
  BY DEF Emits
<1> DEFINE b == l + a
<1>4. b \in 0..Len(u) /\ b + (n - m) =< Len(u)
  BY <1>1, <1>3
<1>5. ASSUME NEW i \in 1..Len(u)
      PROVE  AddsTo(u[i], f, ch) <=> i \in (b + 1)..(b + (n - m))
  <2>1. CASE i \in 1..l /\ u[i] = s[i]
    <3>1. i =< l /\ l =< b /\ b \in Nat /\ l \in Nat
      BY <1>1, <1>3, <2>1
    <3> HIDE DEF b
    <3>2. i \notin (b + 1)..(b + (n - m))
      BY <3>1
    <3> QED
      BY <1>2, <2>1, <3>2
  <2>2. CASE i > l /\ i - l \in 1..Len(t) /\ u[i] = t[i - l]
    <3>1. i - l \in (a + 1)..(a + (n - m)) <=> i \in (b + 1)..(b + (n - m))
      <4>1. \A x, y, z, w \in Int : x - y \in (z + 1)..(z + w) <=> x \in (y + z + 1)..(y + z + w)
        OBVIOUS
      <4>2. i \in Int /\ l \in Int /\ a \in Int /\ n - m \in Int
        BY <1>1
      <4> QED
        BY <4>1, <4>2
    <3> QED
      BY <1>3, <2>2, <3>1
  <2> QED
    BY <1>1, <2>1, <2>2
<1>6. ASSUME NEW i \in (b + 1)..(b + (n - m))
      PROVE  u[i].rule = F[m + i - b]
  <2>1. i \in 1..Len(u) /\ i > l /\ i - l \in (a + 1)..(a + (n - m)) /\ m + (i - l) - a = m + i - b
    BY <1>1, <1>3
  <2>2. u[i] = t[i - l]
    BY <1>1, <2>1
  <2> QED
    BY <1>3, <2>1, <2>2
<1> HIDE DEF b
<1> QED
  BY <1>4, <1>5, <1>6 DEF Emits, u

(* Of two parts, one at most adds to a chain. *)
LEMMA EmitsConcat ==
    ASSUME NEW s \in Seq(Commands), NEW t \in Seq(Commands), NEW f, NEW ch, NEW F,
           NEW k \in Nat, NEW n \in Nat, k = 0 \/ n = 0,
           Emits(s, f, ch, F, 0, k), Emits(t, f, ch, F, 0, n)
    PROVE  Emits(s \o t, f, ch, F, 0, k + n)
<1>1. CASE k = 0
  <2>1. Silent(s, f, ch)
    BY <1>1, SilentEmitsNone
  <2> QED
    BY <1>1, <2>1, EmitsAfter
<1>2. CASE n = 0
  <2>1. Silent(t, f, ch)
    BY <1>2, SilentEmitsNone
  <2> QED
    BY <1>2, <2>1, EmitsBefore
<1> QED
  BY <1>1, <1>2

-----------------------------------------------------------------------------
(***************************************************************************)
(* The parts of set-up: the phases of their commands, and what they add.   *)
(***************************************************************************)

(* The severities that are right for a chain. *)
Fits(f, ch, on) == on = OnError(f) \/ (on = "tproxy" /\ ch = "tproxy_prerouting")

(* The commands that AddChain makes are of the phase of their chain. *)
LEMMA CommandIsSane ==
    ASSUME NEW f \in Families, NEW ch \in Chains, NEW on, Fits(f, ch, on), NEW r \in Rule,
           NEW cmd \in {Command("chain", f, ch, NoRule, on), Command("rule", f, ch, r, on)}
    PROVE  cmd \in Commands /\ Sane(cmd) /\ Phase(cmd) = Rank(f, ch)
<1>1. on \in Severity /\ on # "ignore" /\ on # "routing" /\ (on = "v6" => f = "ip6")
  BY DEF Fits, OnError, Severity, Families
<1>2. /\ cmd.op \in {"chain", "rule"} /\ cmd.fam = f /\ cmd.chain = ch /\ cmd.on = on
      /\ cmd.op = "rule" => cmd.rule = r
  BY DEF Command
<1>3. cmd \in Commands
  <2>1. Command("chain", f, ch, NoRule, on) \in Commands
    BY <1>1 DEF Command, Commands, Ops
  <2>2. Command("rule", f, ch, r, on) \in Commands
    BY <1>1 DEF Command, Commands, Ops
  <2> QED
    BY <2>1, <2>2
<1>4. Phase(cmd) = Rank(f, ch)
  BY <1>2 DEF Phase
<1>5. f = "ip6" => Rank(f, ch) >= 6
  BY DEF Rank, Base, Chains
<1>6. on = "tproxy" => ch = "tproxy_prerouting"
  BY DEF Fits, OnError
<1> QED
  BY <1>1, <1>2, <1>3, <1>4, <1>5, <1>6 DEF Sane

(* A chain and its rules. *)
LEMMA AddChainAt ==
    ASSUME NEW f, NEW ch, NEW on, NEW seq \in Seq(Rule)
    PROVE  LET s == AddChain(f, ch, seq, on)  IN
           /\ \E S : s \in Seq(S)
           /\ Len(s) = 1 + Len(seq) /\ s[1] = Command("chain", f, ch, NoRule, on)
           /\ \A i \in 2..(1 + Len(seq)) : s[i] = Command("rule", f, ch, seq[i - 1], on)
<1> DEFINE A == <<Command("chain", f, ch, NoRule, on)>>
           n == Len(seq)
           rule(i) == Command("rule", f, ch, seq[i], on)
           B == [i \in 1..n |-> rule(i)]
           S == {Command("chain", f, ch, NoRule, on)} \cup {rule(i) : i \in 1..n}
<1>1. n \in Nat /\ DOMAIN seq = 1..n
  OBVIOUS
<1>2. AddChain(f, ch, seq, on) = A \o B
  BY <1>1 DEF AddChain
<1>3. A \in Seq(S) /\ Len(A) = 1 /\ A[1] = Command("chain", f, ch, NoRule, on)
  <2> HIDE DEF rule
  <2> QED
    OBVIOUS
<1>4. B \in Seq(S) /\ Len(B) = n /\ \A i \in 1..n : B[i] = rule(i)
  <2> HIDE DEF rule, n
  <2> QED
    BY <1>1
<1> HIDE DEF A, B, S
<1>5. /\ A \o B \in Seq(S)
      /\ Len(A \o B) = 1 + n /\ (A \o B)[1] = A[1]
      /\ \A i \in 1..n : (A \o B)[1 + i] = B[i]
  <2>1. /\ A \o B \in Seq(S) /\ Len(A \o B) = Len(A) + Len(B)
        /\ \A i \in 1..Len(A) : (A \o B)[i] = A[i]
        /\ \A i \in 1..Len(B) : (A \o B)[Len(A) + i] = B[i]
    <3>1. A \in Seq(S) /\ B \in Seq(S)
      BY <1>3, <1>4
    <3> QED
      BY <3>1, ConcatAt
  <2>2. 1 \in 1..Len(A)
    BY <1>3
  <2> QED
    BY <1>3, <1>4, <2>1, <2>2
<1>6. \A i \in 2..(1 + n) : i - 1 \in 1..n /\ 1 + (i - 1) = i
  BY <1>1
<1>7. \A i \in 2..(1 + n) : (A \o B)[i] = rule(i - 1)
  BY <1>4, <1>5, <1>6
<1> QED
  BY <1>2, <1>3, <1>5, <1>7 DEF n, rule

(* AddChain is a part of one phase. *)
LEMMA AddChainBlock ==
    ASSUME NEW f \in Families, NEW ch \in Chains, NEW on, Fits(f, ch, on), NEW seq \in Seq(Rule)
    PROVE  Block(AddChain(f, ch, seq, on), Rank(f, ch), Rank(f, ch))
<1> DEFINE s == AddChain(f, ch, seq, on)
           n == Len(seq)
<1>1. n \in Nat /\ \A i \in 1..n : seq[i] \in Rule
  OBVIOUS
<1>2. /\ Len(s) = 1 + n /\ s[1] = Command("chain", f, ch, NoRule, on)
      /\ \A i \in 2..(1 + n) : s[i] = Command("rule", f, ch, seq[i - 1], on)
  BY AddChainAt
<1>3. \E S : s \in Seq(S)
  BY AddChainAt
<1>4. Rank(f, ch) \in Nat
  BY DEF Rank, Base, Chains
<1>5. Match("any", "any", AnyPort, "any", "return") \in Rule
  BY FirewallAssumption, MatchIsRule
<1>6. s[1] \in Commands /\ Sane(s[1]) /\ Phase(s[1]) = Rank(f, ch)
  BY <1>2, <1>5, CommandIsSane
<1>7. \A i \in 2..(1 + n) : s[i] \in Commands /\ Sane(s[i]) /\ Phase(s[i]) = Rank(f, ch)
  <2> TAKE i \in 2..(1 + n)
  <2>1. seq[i - 1] \in Rule
    BY <1>1
  <2> QED
    BY <1>2, <2>1, CommandIsSane
<1> HIDE DEF s, n
<1>8. \A i \in 1..Len(s) : i = 1 \/ i \in 2..(1 + n)
  BY <1>1, <1>2
<1>9. \A i \in 1..Len(s) : s[i] \in Commands /\ Sane(s[i]) /\ Phase(s[i]) = Rank(f, ch)
  BY <1>6, <1>7, <1>8
<1>10. s \in Seq(Commands)
  BY <1>3, <1>9
<1>11. Sorted(s)
  BY <1>4, <1>9 DEF Sorted
<1> QED
  BY <1>4, <1>9, <1>10, <1>11 DEF Block, s

(* It adds the rules of its chain, all of them, and none of another chain. *)
LEMMA AddChainEmits ==
    ASSUME NEW f, NEW ch, NEW on, NEW seq \in Seq(Rule)
    PROVE  LET s == AddChain(f, ch, seq, on)  IN
           /\ Emits(s, f, ch, seq, 0, Len(seq))
           /\ \A g, d : <<g, d>> # <<f, ch>> => Silent(s, g, d)
<1> DEFINE s == AddChain(f, ch, seq, on)
           n == Len(seq)
<1>1. n \in Nat
  OBVIOUS
<1>2. /\ Len(s) = 1 + n /\ s[1] = Command("chain", f, ch, NoRule, on)
      /\ \A i \in 2..(1 + n) : s[i] = Command("rule", f, ch, seq[i - 1], on)
  BY AddChainAt
<1> HIDE DEF s, n
<1>3. /\ s[1].op # "rule"
      /\ \A i \in 2..(1 + n) :
            s[i].op = "rule" /\ s[i].fam = f /\ s[i].chain = ch /\ s[i].rule = seq[i - 1]
  <2>1. Command("chain", f, ch, NoRule, on).op # "rule"
    BY DEF Command
  <2>2. \A r : LET cmd == Command("rule", f, ch, r, on)  IN
                cmd.op = "rule" /\ cmd.fam = f /\ cmd.chain = ch /\ cmd.rule = r
    BY DEF Command
  <2> QED
    BY <1>2, <2>1, <2>2
<1>4. \A i \in 1..Len(s) : i = 1 \/ i \in 2..(1 + n)
  BY <1>1, <1>2
<1>5. \A g, d : <<g, d>> # <<f, ch>> => Silent(s, g, d)
  BY <1>3, <1>4 DEF Silent, AddsTo
<1>6. Emits(s, f, ch, seq, 0, n)
  <2>1. 1 \in 0..Len(s) /\ 1 + (n - 0) =< Len(s) /\ (1 + 1)..(1 + (n - 0)) = 2..(1 + n)
    BY <1>1, <1>2
  <2>2. \A i \in 1..Len(s) : AddsTo(s[i], f, ch) <=> i \in 2..(1 + n)
    BY <1>1, <1>3, <1>4 DEF AddsTo
  <2>3. \A i \in 2..(1 + n) : s[i].rule = seq[0 + i - 1]
    BY <1>1, <1>3
  <2> QED
    BY <2>1, <2>2, <2>3 DEF Emits
<1> QED
  BY <1>5, <1>6 DEF s, n

(* n for the chain ch of family f, and nothing for any other. *)
At(g, d, f, ch, n) == IF g = f /\ d = ch THEN n ELSE 0

(* A chain, where its condition holds, is a part of one phase. *)
LEMMA ChainPart ==
    ASSUME NEW f \in Families, NEW ch \in Chains, NEW on, Fits(f, ch, on), NEW seq \in Seq(Rule),
           NEW cond \in BOOLEAN
    PROVE  LET s == When(cond, AddChain(f, ch, seq, on))  IN
           /\ Block(s, Rank(f, ch), Rank(f, ch))
           /\ Emits(s, f, ch, seq, 0, IF cond THEN Len(seq) ELSE 0)
           /\ \A g, d, F : <<g, d>> # <<f, ch>> => Emits(s, g, d, F, 0, 0)
<1> DEFINE A == AddChain(f, ch, seq, on)
<1>1. Rank(f, ch) \in Nat
  BY DEF Rank, Base, Chains
<1>2. CASE cond
  <2>1. When(cond, A) = A
    BY <1>2 DEF When
  <2>2. Block(A, Rank(f, ch), Rank(f, ch)) /\ A \in Seq(Commands)
    BY AddChainBlock DEF Block
  <2>3. Emits(A, f, ch, seq, 0, Len(seq)) /\ \A g, d : <<g, d>> # <<f, ch>> => Silent(A, g, d)
    BY AddChainEmits
  <2> HIDE DEF A
  <2>4. \A g, d, F : <<g, d>> # <<f, ch>> => Emits(A, g, d, F, 0, 0)
    BY <2>2, <2>3, SilentEmitsNone
  <2> QED
    BY <1>2, <2>1, <2>2, <2>3, <2>4 DEF A
<1>3. CASE ~cond
  <2>1. When(cond, A) = << >> /\ << >> \in Seq(Commands)
    BY <1>3 DEF When
  <2>2. \A g, d : Silent(<< >>, g, d)
    BY DEF Silent
  <2>3. \A g, d, F : Emits(<< >>, g, d, F, 0, 0)
    BY <2>1, <2>2, SilentEmitsNone
  <2>4. Block(<< >>, Rank(f, ch), Rank(f, ch))
    BY <1>1, NoBlock
  <2> QED
    BY <1>3, <2>1, <2>3, <2>4
<1> QED
  BY <1>2, <1>3

(* The numbers of rules. *)
LEMMA PlannedIsNat ==
    ASSUME NEW c \in Configs, NEW f \in Families, NEW ch \in Chains
    PROVE  Len(Full(c, f, ch)) \in Nat /\ Planned(c, f, ch) \in Nat
<1>1. Full(c, f, ch) \in Seq(Rule)
  BY FullIsRules
<1>2. Len(Full(c, f, ch)) \in Nat
  BY <1>1
<1> QED
  BY <1>2 DEF Planned

(* Each chain of a family with its rules is a part. *)
LEMMA QuicForwardPart ==
    ASSUME NEW c \in Configs, NEW f \in Families
    PROVE  LET s == setup_quic_forward(c, f)  IN
           /\ Block(s, Base(f) + 2, Base(f) + 2)
           /\ \A g \in Families, d \in Chains :
                 Emits(s, g, d, Full(c, g, d), 0, At(g, d, f, "quic_forward", Len(Full(c, g, d))))
<1> DEFINE ch == "quic_forward"
           seq == QuicRules(c, "lan", "drop")
           cond == quic_block_ports(c) # << >>
           s == When(cond, AddChain(f, ch, seq, OnError(f)))
<1>1. /\ seq \in Seq(Rule) /\ Len(seq) = Len(quic_block_ports(c)) /\ ch \in Chains /\ cond \in BOOLEAN
      /\ Fits(f, ch, OnError(f)) /\ Rank(f, ch) = Base(f) + 2
  BY QuicRulesAreRules DEF Chains, Fits, Rank
<1>2. Full(c, f, ch) = seq
  BY DEF Full
<1>3. (IF cond THEN Len(seq) ELSE 0) = Len(seq)
  BY <1>1
<1>4. setup_quic_forward(c, f) = s
  BY DEF setup_quic_forward
<1> HIDE DEF seq, cond
<1>5. /\ Block(s, Rank(f, ch), Rank(f, ch))
      /\ Emits(s, f, ch, seq, 0, Len(seq))
      /\ \A g, d, F : <<g, d>> # <<f, ch>> => Emits(s, g, d, F, 0, 0)
  BY <1>1, <1>3, ChainPart
<1> HIDE DEF s
<1> QED
  BY <1>1, <1>2, <1>4, <1>5 DEF At

(* setup_quic_block_output adds the whole quic_output chain. *)
LEMMA QuicOutputPart ==
    ASSUME NEW c \in Configs, NEW f \in Families
    PROVE  LET s == setup_quic_block_output(c, f)  IN
           /\ Block(s, Base(f) + 3, Base(f) + 3)
           /\ \A g \in Families, d \in Chains :
                 Emits(s, g, d, Full(c, g, d), 0, At(g, d, f, "quic_output", Len(Full(c, g, d))))
<1> DEFINE ch == "quic_output"
           seq == QuicRules(c, "to_lan", "drop")
           cond == quic_block_ports(c) # << >> /\ c.local_traffic
           s == When(cond, AddChain(f, ch, seq, OnError(f)))
<1>1. /\ seq \in Seq(Rule) /\ Len(seq) = Len(quic_block_ports(c)) /\ ch \in Chains /\ cond \in BOOLEAN
      /\ Fits(f, ch, OnError(f)) /\ Rank(f, ch) = Base(f) + 3
  BY QuicRulesAreRules DEF Chains, Fits, Rank
<1>2. Full(c, f, ch) = IF c.local_traffic THEN seq ELSE << >>
  BY DEF Full, When
<1>3. (IF cond THEN Len(seq) ELSE 0) = Len(Full(c, f, ch)) /\ (cond => Full(c, f, ch) = seq)
  BY <1>1, <1>2
<1>4. setup_quic_block_output(c, f) = s
  BY DEF setup_quic_block_output
<1> HIDE DEF seq, cond
<1>5. /\ Block(s, Rank(f, ch), Rank(f, ch))
      /\ Emits(s, f, ch, seq, 0, Len(Full(c, f, ch)))
      /\ \A g, d, F : <<g, d>> # <<f, ch>> => Emits(s, g, d, F, 0, 0)
  BY <1>1, <1>3, ChainPart
<1>6. s \in Seq(Commands)
  BY <1>5 DEF Block
<1>7. Emits(s, f, ch, Full(c, f, ch), 0, Len(Full(c, f, ch)))
  <2>1. CASE cond
    BY <1>3, <1>5, <2>1
  <2>2. CASE ~cond
    <3>1. Len(Full(c, f, ch)) = 0
      BY <1>3, <2>2
    <3> QED
      BY <1>5, <1>6, <3>1, SilentEmitsNone
  <2> QED
    BY <2>1, <2>2
<1> HIDE DEF s
<1> QED
  BY <1>1, <1>4, <1>5, <1>7 DEF At

(* setup_udp_tproxy adds the whole tproxy_prerouting chain. *)
LEMMA TproxyPart ==
    ASSUME NEW c \in Configs, NEW f \in Families, proxy_udp(c)
    PROVE  LET s == setup_udp_tproxy(c, f)  IN
           /\ Block(s, Base(f) + 1, Base(f) + 1)
           /\ \A g \in Families, d \in Chains :
                 Emits(s, g, d, Full(c, g, d), 0, At(g, d, f, "tproxy_prerouting", Len(Full(c, g, d))))
<1> DEFINE ch == "tproxy_prerouting"
           seq == QuicRules(c, "lan", "tproxy")
           cond == quic_block_ports(c) # << >>
           s == When(cond, AddChain(f, ch, seq, "tproxy"))
<1>1. /\ seq \in Seq(Rule) /\ Len(seq) = Len(quic_block_ports(c)) /\ ch \in Chains /\ cond \in BOOLEAN
      /\ Fits(f, ch, "tproxy") /\ Rank(f, ch) = Base(f) + 1
  BY QuicRulesAreRules DEF Chains, Fits, Rank
<1>2. Full(c, f, ch) = seq
  BY DEF Full, When
<1>3. (IF cond THEN Len(seq) ELSE 0) = Len(seq)
  BY <1>1
<1>4. setup_udp_tproxy(c, f) = s
  BY DEF setup_udp_tproxy
<1> HIDE DEF seq, cond
<1>5. /\ Block(s, Rank(f, ch), Rank(f, ch))
      /\ Emits(s, f, ch, seq, 0, Len(seq))
      /\ \A g, d, F : <<g, d>> # <<f, ch>> => Emits(s, g, d, F, 0, 0)
  BY <1>1, <1>3, ChainPart
<1> HIDE DEF s
<1> QED
  BY <1>1, <1>2, <1>4, <1>5 DEF At

(* The prerouting and output chains of a family. *)
LEMMA NatPart ==
    ASSUME NEW c \in Configs, NEW f \in Families, NEW ch \in {"prerouting", "output"}
    PROVE  LET s == When(ch = "prerouting" \/ c.local_traffic,
                         AddChain(f, ch, Full(c, f, ch), OnError(f)))  IN
           /\ Block(s, Base(f), Base(f))
           /\ \A g \in Families, d \in Chains :
                 Emits(s, g, d, Full(c, g, d), 0, At(g, d, f, ch, Len(Full(c, g, d))))
<1> DEFINE seq == Full(c, f, ch)
           cond == ch = "prerouting" \/ c.local_traffic
           s == When(cond, AddChain(f, ch, seq, OnError(f)))
<1>1. ch \in Chains /\ cond \in BOOLEAN /\ Fits(f, ch, OnError(f)) /\ Rank(f, ch) = Base(f)
  BY ConfigsAssumption DEF Config, Chains, Fits, Rank
<1>2. seq \in Seq(Rule)
  BY <1>1, FullIsRules
<1>3. (IF cond THEN Len(seq) ELSE 0) = Len(seq)
  BY DEF Full, When
<1> HIDE DEF seq, cond
<1>4. /\ Block(s, Rank(f, ch), Rank(f, ch))
      /\ Emits(s, f, ch, seq, 0, Len(seq))
      /\ \A g, d, F : <<g, d>> # <<f, ch>> => Emits(s, g, d, F, 0, 0)
  BY <1>1, <1>2, <1>3, ChainPart
<1> HIDE DEF s
<1>5. Block(s, Base(f), Base(f))
  BY <1>1, <1>4
<1>6. \A g \in Families, d \in Chains :
         Emits(s, g, d, Full(c, g, d), 0, At(g, d, f, ch, Len(Full(c, g, d))))
  BY <1>4 DEF At, seq
<1> QED
  BY <1>5, <1>6 DEF s, cond, seq

(* Commands that add no rules. *)
LEMMA PlainPart ==
    ASSUME NEW s \in Seq(Commands), \A i \in 1..Len(s) : s[i].op # "rule"
    PROVE  \A g, d, F : Emits(s, g, d, F, 0, 0)
<1>1. \A g, d : Silent(s, g, d)
  BY DEF Silent, AddsTo
<1> QED
  BY <1>1, SilentEmitsNone

(* A command without chain and rule is a command. *)
LEMMA PlainIsCommand ==
    ASSUME NEW op \in Ops, NEW f \in Families \cup {""}, NEW on \in Severity,
           op \in AnchorOps \/ f \in Families
    PROVE  Plain(op, f, on) \in Commands
  BY DEF Plain, Command, Commands

(* What its fields are. *)
LEMMA PlainFields ==
    ASSUME NEW op, NEW f, NEW on
    PROVE  Plain(op, f, on).op = op /\ Plain(op, f, on).fam = f /\ Plain(op, f, on).on = on
  BY DEF Plain, Command

(* The command that adds a table is a part of its own. *)
LEMMA TablePart ==
    ASSUME NEW f \in Families
    PROVE  LET s == <<Plain("table", f, OnError(f))>>  IN
           /\ Block(s, Base(f), Base(f))
           /\ \A g, d, F : Emits(s, g, d, F, 0, 0)
<1> DEFINE t == Plain("table", f, OnError(f))
           s == <<t>>
<1>1. /\ t \in Commands /\ t.op = "table" /\ t.fam = f /\ t.on = OnError(f)
  <2>1. "table" \in Ops /\ f \in Families \cup {""} /\ OnError(f) \in Severity
    BY DEF Ops, Severity, OnError
  <2>2. t \in Commands
    BY <2>1, PlainIsCommand
  <2> QED
    BY <2>2, PlainFields
<1>2. Base(f) \in Nat /\ (OnError(f) = "v6" => Base(f) >= 6)
  BY DEF Base, OnError, Families
<1>3. OnError(f) \in {"must", "v6"}
  BY DEF OnError
<1>4. Phase(t) = Base(f)
  BY <1>1 DEF Phase
<1>5. Sane(t)
  BY <1>1, <1>2, <1>3, <1>4 DEF Sane
<1> HIDE DEF t
<1>6. s \in Seq(Commands) /\ Len(s) = 1 /\ s[1] = t
  BY <1>1
<1> HIDE DEF s
<1>7. Block(s, Base(f), Base(f))
  BY <1>2, <1>4, <1>5, <1>6 DEF Block, Sorted
<1>8. \A g, d, F : Emits(s, g, d, F, 0, 0)
  BY <1>1, <1>6, PlainPart
<1> QED
  BY <1>7, <1>8 DEF s, t

(* So is the policy routing, the last of all. *)
LEMMA RoutingPart ==
    ASSUME NEW c
    PROVE  LET s == When(proxy_udp(c), setup_tproxy_routing)  IN
           /\ Block(s, 10, 10)
           /\ \A g, d, F : Emits(s, g, d, F, 0, 0)
<1> DEFINE R == setup_tproxy_routing
           RoutingOps == {"rule del", "rule add", "route flush", "route add"}
<1> DEFINE S == {r \in Commands : r.op \in RoutingOps /\ r.on \in {"ignore", "routing"}}
<1>1. R \in Seq(S) /\ Len(R) = 8
  <2>1. ASSUME NEW op \in RoutingOps, NEW f \in {"ip", "ip6"}, NEW on \in {"ignore", "routing"}
        PROVE  Plain(op, f, on) \in S
    <3>1. op \in Ops /\ f \in Families \cup {""} /\ on \in Severity /\ f \in Families
      BY DEF Ops, Severity, Families
    <3>2. Plain(op, f, on) \in Commands
      BY <3>1, PlainIsCommand
    <3>3. Plain(op, f, on).op = op /\ Plain(op, f, on).on = on
      BY DEF Plain, Command
    <3> HIDE DEF RoutingOps
    <3> QED
      BY <3>2, <3>3
  <2> HIDE DEF S
  <2>2. /\ Plain("rule del", "ip", "ignore") \in S /\ Plain("rule add", "ip", "routing") \in S
        /\ Plain("route flush", "ip", "ignore") \in S /\ Plain("route add", "ip", "routing") \in S
    BY <2>1
  <2>3. /\ Plain("rule del", "ip6", "ignore") \in S /\ Plain("rule add", "ip6", "ignore") \in S
        /\ Plain("route flush", "ip6", "ignore") \in S /\ Plain("route add", "ip6", "ignore") \in S
    BY <2>1
  <2>4. \A a, b, c1, d, e, g, h, k \in S : /\ <<a, b, c1, d, e, g, h, k>> \in Seq(S)
                                          /\ Len(<<a, b, c1, d, e, g, h, k>>) = 8
    OBVIOUS
  <2> QED
    BY <2>2, <2>3, <2>4 DEF setup_tproxy_routing
<1> HIDE DEF R
<1>2. \A r \in S : Phase(r) = 10
  BY DEF Phase
<1>3. \A r \in S : Sane(r)
  BY <1>2 DEF Sane
<1>4. S \subseteq Commands /\ \A r \in S : r.op # "rule"
  OBVIOUS
<1> HIDE DEF S
<1>8. \A i \in 1..Len(R) : R[i] \in S
  <2>1. R \in Seq(S)
    BY <1>1
  <2>2. \A s \in Seq(S) : \A i \in 1..Len(s) : s[i] \in S
    OBVIOUS
  <2> QED
    BY <2>1, <2>2
<1>9. Block(R, 10, 10)
  <2>1. Sorted(R)
    BY <1>2, <1>8 DEF Sorted
  <2>2. R \in Seq(Commands)
    BY <1>1, <1>4
  <2>3. \A i \in 1..Len(R) : Sane(R[i]) /\ Phase(R[i]) = 10
    BY <1>2, <1>3, <1>8
  <2> QED
    BY <2>1, <2>2, <2>3 DEF Block
<1>5. \A g, d, F : Emits(R, g, d, F, 0, 0)
  <2>1. \A i \in 1..Len(R) : R[i].op # "rule"
    BY <1>4, <1>8
  <2>2. R \in Seq(Commands)
    BY <1>9 DEF Block
  <2> QED
    BY <2>1, <2>2, PlainPart
<1>6. Block(<< >>, 10, 10) /\ << >> \in Seq(Commands) /\ Len(<< >>) = 0
  BY NoBlock
<1>7. \A g, d, F : Emits(<< >>, g, d, F, 0, 0)
  <2>1. \A i \in 1..Len(<< >>) : << >>[i].op # "rule"
    BY <1>6
  <2> QED
    BY <1>6, <2>1, PlainPart
<1> QED
  BY <1>5, <1>6, <1>7, <1>9 DEF When, R

(* The part for one family adds to its chains only. *)
LEMMA FamilyPart ==
    ASSUME NEW c \in Configs, NEW f \in Families
    PROVE  LET s == setup_family(c, f)  IN
           /\ Block(s, Base(f), Base(f) + 3)
           /\ \A g \in Families, d \in Chains :
                 Emits(s, g, d, Full(c, g, d), 0, IF g = f THEN Planned(c, g, d) ELSE 0)
<1> DEFINE T == <<Plain("table", f, OnError(f))>>
           P == AddChain(f, "prerouting", Prerouting(c, f), OnError(f))
           O == When(c.local_traffic, AddChain(f, "output", Output(c, f), OnError(f)))
           U == IF proxy_udp(c) THEN setup_udp_tproxy(c, f) ELSE setup_quic_forward(c, f)
           Q == setup_quic_block_output(c, f)
           u == IF proxy_udp(c) THEN "tproxy_prerouting" ELSE "quic_forward"
           len(g, d) == Len(Full(c, g, d))
<1>0. setup_family(c, f) = T \o P \o O \o (U \o Q)
  BY DEF setup_family, setup_udp_handling
<1>1. Base(f) \in Nat /\ u \in {"tproxy_prerouting", "quic_forward"}
  BY DEF Base
<1>2. Block(T, Base(f), Base(f)) /\ \A g, d, F : Emits(T, g, d, F, 0, 0)
  BY TablePart
<1>3. /\ Block(P, Base(f), Base(f))
      /\ \A g \in Families, d \in Chains : Emits(P, g, d, Full(c, g, d), 0, At(g, d, f, "prerouting", len(g, d)))
  <2>1. P = When("prerouting" = "prerouting" \/ c.local_traffic,
                 AddChain(f, "prerouting", Full(c, f, "prerouting"), OnError(f)))
    BY DEF When, Full
  <2> HIDE DEF P
  <2> QED
    BY <2>1, NatPart
<1>4. /\ Block(O, Base(f), Base(f))
      /\ \A g \in Families, d \in Chains : Emits(O, g, d, Full(c, g, d), 0, At(g, d, f, "output", len(g, d)))
  <2>1. O = When("output" = "prerouting" \/ c.local_traffic,
                 AddChain(f, "output", Full(c, f, "output"), OnError(f)))
    BY DEF When, Full
  <2> HIDE DEF O
  <2> QED
    BY <2>1, NatPart
<1>5. /\ Block(U, Base(f) + 1, Base(f) + 2)
      /\ \A g \in Families, d \in Chains : Emits(U, g, d, Full(c, g, d), 0, At(g, d, f, u, len(g, d)))
  <2>1. CASE proxy_udp(c)
    <3>1. /\ Block(U, Base(f) + 1, Base(f) + 1)
          /\ \A g \in Families, d \in Chains : Emits(U, g, d, Full(c, g, d), 0, At(g, d, f, u, len(g, d)))
      BY <2>1, TproxyPart
    <3> HIDE DEF U
    <3> QED
      BY <1>1, <3>1, WiderBlock
  <2>2. CASE ~proxy_udp(c)
    <3>1. /\ Block(U, Base(f) + 2, Base(f) + 2)
          /\ \A g \in Families, d \in Chains : Emits(U, g, d, Full(c, g, d), 0, At(g, d, f, u, len(g, d)))
      BY <2>2, QuicForwardPart
    <3> HIDE DEF U
    <3> QED
      BY <1>1, <3>1, WiderBlock
  <2> QED
    BY <2>1, <2>2
<1>6. /\ Block(Q, Base(f) + 3, Base(f) + 3)
      /\ \A g \in Families, d \in Chains : Emits(Q, g, d, Full(c, g, d), 0, At(g, d, f, "quic_output", len(g, d)))
  BY QuicOutputPart
<1> HIDE DEF T, P, O, U, Q
<1>7. /\ Block(T \o P, Base(f), Base(f)) /\ Block(T \o P \o O, Base(f), Base(f))
      /\ Block(U \o Q, Base(f) + 1, Base(f) + 3)
  BY <1>1, <1>2, <1>3, <1>4, <1>5, <1>6, BlockConcat
<1>8. Block(T \o P \o O \o (U \o Q), Base(f), Base(f) + 3)
  BY <1>1, <1>7, BlockConcat
<1>9. /\ T \in Seq(Commands) /\ P \in Seq(Commands) /\ O \in Seq(Commands)
      /\ U \in Seq(Commands) /\ Q \in Seq(Commands)
      /\ T \o P \in Seq(Commands) /\ T \o P \o O \in Seq(Commands) /\ U \o Q \in Seq(Commands)
  BY <1>2, <1>3, <1>4, <1>5, <1>6, <1>7 DEF Block
<1>10. ASSUME NEW g \in Families, NEW d \in Chains
       PROVE  Emits(T \o P \o O \o (U \o Q), g, d, Full(c, g, d), 0, IF g = f THEN Planned(c, g, d) ELSE 0)
  <2> DEFINE F == Full(c, g, d)
             p == At(g, d, f, "prerouting", len(g, d))
             o == At(g, d, f, "output", len(g, d))
             v == At(g, d, f, u, len(g, d))
             q == At(g, d, f, "quic_output", len(g, d))
  <2>1. len(g, d) \in Nat
    BY PlannedIsNat
  <2> HIDE DEF u, len
  <2>2. p \in Nat /\ o \in Nat /\ v \in Nat /\ q \in Nat
    BY <2>1 DEF At
  <2>3. (p = 0 \/ o = 0) /\ (v = 0 \/ q = 0) /\ (p + o = 0 \/ v + q = 0)
    BY <1>1, <2>1 DEF At
  <2>4. (p + o) + (v + q) = IF g = f THEN Planned(c, g, d) ELSE 0
    <3>1. ~proxy_udp(c) => len(g, "tproxy_prerouting") = 0
      BY DEF Full, When, len
    <3>2. u = IF proxy_udp(c) THEN "tproxy_prerouting" ELSE "quic_forward"
      BY DEF u
    <3>3. Planned(c, g, d) = IF d = "quic_forward" /\ proxy_udp(c) THEN 0 ELSE len(g, d)
      BY DEF Planned, len
    <3>4. d \in {"prerouting", "output", "tproxy_prerouting", "quic_forward", "quic_output"}
      BY DEF Chains
    <3> QED
      BY <2>1, <3>1, <3>2, <3>3, <3>4 DEF At
  <2>5. /\ Emits(T, g, d, F, 0, 0) /\ Emits(P, g, d, F, 0, p) /\ Emits(O, g, d, F, 0, o)
        /\ Emits(U, g, d, F, 0, v) /\ Emits(Q, g, d, F, 0, q)
    BY <1>2, <1>3, <1>4, <1>5, <1>6
  <2> HIDE DEF F, p, o, v, q
  <2>6. Emits(T \o P, g, d, F, 0, 0 + p)
    BY <1>9, <2>2, <2>5, EmitsConcat
  <2>7. Emits(T \o P \o O, g, d, F, 0, p + o)
    <3>1. 0 + p = p
      BY <2>2
    <3> QED
      BY <1>9, <2>2, <2>3, <2>5, <2>6, <3>1, EmitsConcat
  <2>8. Emits(U \o Q, g, d, F, 0, v + q)
    BY <1>9, <2>2, <2>3, <2>5, EmitsConcat
  <2>9. Emits(T \o P \o O \o (U \o Q), g, d, F, 0, (p + o) + (v + q))
    <3>1. p + o \in Nat /\ v + q \in Nat
      BY <2>2
    <3> QED
      BY <1>9, <2>3, <2>7, <2>8, <3>1, EmitsConcat
  <2> QED
    BY <2>4, <2>9 DEF F
<1> QED
  BY <1>0, <1>8, <1>10

(* What is left after a family: the other one, and the policy routing. *)
LEMMA AfterFamilyPart ==
    ASSUME NEW c \in Configs, NEW f \in Families
    PROVE  LET s == AfterFamily(c, f)  IN
           /\ Block(s, Base(f) + 4, 10)
           /\ \A g \in Families, d \in Chains :
                 Emits(s, g, d, Full(c, g, d), 0, IF f = "ip" /\ g = "ip6" THEN Planned(c, g, d) ELSE 0)
<1> DEFINE R == When(proxy_udp(c), setup_tproxy_routing)
           V == setup_family(c, "ip6")
<1>1. Block(R, 10, 10) /\ \A g, d, F : Emits(R, g, d, F, 0, 0)
  BY RoutingPart
<1>2. /\ Block(V, 6, 9)
      /\ \A g \in Families, d \in Chains :
            Emits(V, g, d, Full(c, g, d), 0, IF g = "ip6" THEN Planned(c, g, d) ELSE 0)
  <2>1. "ip6" \in Families /\ Base("ip6") = 6 /\ 6 + 3 = 9
    BY DEF Families, Base
  <2> QED
    BY <2>1, FamilyPart
<1>3. R \in Seq(Commands) /\ V \in Seq(Commands)
  BY <1>1, <1>2 DEF Block
<1>4. CASE f = "ip"
  <2>1. AfterFamily(c, f) = V \o R /\ Base(f) + 4 = 6
    BY <1>4 DEF AfterFamily, When, Base
  <2> HIDE DEF V, R
  <2>2. Block(V \o R, 6, 10)
    BY <1>1, <1>2, BlockConcat
  <2>3. ASSUME NEW g \in Families, NEW d \in Chains
        PROVE  Emits(V \o R, g, d, Full(c, g, d), 0, IF g = "ip6" THEN Planned(c, g, d) ELSE 0)
    <3> DEFINE n == IF g = "ip6" THEN Planned(c, g, d) ELSE 0
               F == Full(c, g, d)
    <3>1. n \in Nat
      BY PlannedIsNat
    <3>2. Emits(V, g, d, F, 0, n) /\ Emits(R, g, d, F, 0, 0)
      BY <1>1, <1>2
    <3> HIDE DEF n, F
    <3>3. Emits(V \o R, g, d, F, 0, n + 0)
      BY <1>3, <3>1, <3>2, EmitsConcat
    <3>4. n + 0 = n
      BY <3>1
    <3> QED
      BY <3>3, <3>4 DEF n, F
  <2> QED
    BY <1>4, <2>1, <2>2, <2>3
<1>5. CASE f = "ip6"
  <2>1. AfterFamily(c, f) = << >> \o R /\ Base(f) + 4 = 10 /\ f # "ip"
    BY <1>5 DEF AfterFamily, When, Base
  <2> HIDE DEF R
  <2>2. << >> \o R = R
    BY <1>3
  <2> QED
    BY <1>1, <2>1, <2>2
<1> QED
  BY <1>4, <1>5 DEF Families

(* What Fallback and set-up add to each chain. *)
FallbackAdds(c, f, g, d) ==
    IF Rank(g, d) < Base(f) + 2 THEN 0 ELSE IF g = f THEN Len(Full(c, g, d)) ELSE Planned(c, g, d)

(* What follows a failure of TPROXY adds the drop rules in its stead. *)
LEMMA FallbackPart ==
    ASSUME NEW c \in Configs, NEW f \in Families
    PROVE  LET s == setup_quic_forward(c, f) \o AfterTproxy(c, f)  IN
           /\ Block(s, Base(f) + 2, 10)
           /\ \A g \in Families, d \in Chains :
                 Emits(s, g, d, Full(c, g, d), 0, FallbackAdds(c, f, g, d))
<1> DEFINE A == setup_quic_forward(c, f)
           Q == setup_quic_block_output(c, f)
           V == AfterFamily(c, f)
           len(g, d) == Len(Full(c, g, d))
<1>0. AfterTproxy(c, f) = Q \o V
  BY DEF AfterTproxy
<1>1. Base(f) \in {2, 6}
  BY DEF Base
<1>2. /\ Block(A, Base(f) + 2, Base(f) + 2)
      /\ \A g \in Families, d \in Chains : Emits(A, g, d, Full(c, g, d), 0, At(g, d, f, "quic_forward", len(g, d)))
  BY QuicForwardPart
<1>3. /\ Block(Q, Base(f) + 3, Base(f) + 3)
      /\ \A g \in Families, d \in Chains : Emits(Q, g, d, Full(c, g, d), 0, At(g, d, f, "quic_output", len(g, d)))
  BY QuicOutputPart
<1>4. /\ Block(V, Base(f) + 4, 10)
      /\ \A g \in Families, d \in Chains :
            Emits(V, g, d, Full(c, g, d), 0, IF f = "ip" /\ g = "ip6" THEN Planned(c, g, d) ELSE 0)
  BY AfterFamilyPart
<1> HIDE DEF A, Q, V
<1>5. Block(Q \o V, Base(f) + 3, 10)
  BY <1>1, <1>3, <1>4, BlockConcat
<1>6. Block(A \o (Q \o V), Base(f) + 2, 10)
  BY <1>1, <1>2, <1>5, BlockConcat
<1>7. A \in Seq(Commands) /\ Q \in Seq(Commands) /\ V \in Seq(Commands) /\ Q \o V \in Seq(Commands)
  BY <1>2, <1>3, <1>4, <1>5 DEF Block
<1>8. ASSUME NEW g \in Families, NEW d \in Chains
      PROVE  Emits(A \o (Q \o V), g, d, Full(c, g, d), 0, FallbackAdds(c, f, g, d))
  <2> DEFINE F == Full(c, g, d)
             p == Planned(c, g, d)
             a == At(g, d, f, "quic_forward", len(g, d))
             q == At(g, d, f, "quic_output", len(g, d))
             v == IF f = "ip" /\ g = "ip6" THEN p ELSE 0
  <2>1. len(g, d) \in Nat /\ p \in Nat
    BY PlannedIsNat
  <2>2. Emits(A, g, d, F, 0, a) /\ Emits(Q, g, d, F, 0, q) /\ Emits(V, g, d, F, 0, v)
    BY <1>2, <1>3, <1>4
  <2>3. FallbackAdds(c, f, g, d) = IF Rank(g, d) < Base(f) + 2 THEN 0 ELSE IF g = f THEN len(g, d) ELSE p
    BY DEF FallbackAdds
  <2> HIDE DEF len, F, p
  <2>4. a \in Nat /\ q \in Nat /\ v \in Nat
    BY <2>1 DEF At
  <2>5. (q = 0 \/ v = 0) /\ (a = 0 \/ q + v = 0)
    BY DEF At
  <2>6. a + (q + v) = FallbackAdds(c, f, g, d)
    BY <2>1, <2>3 DEF At, Families, Chains, Rank, Base
  <2> HIDE DEF a, q, v
  <2>7. Emits(Q \o V, g, d, F, 0, q + v)
    BY <1>7, <2>2, <2>4, <2>5, EmitsConcat
  <2>8. q + v \in Nat
    BY <2>4
  <2>9. Emits(A \o (Q \o V), g, d, F, 0, a + (q + v))
    BY <1>7, <2>2, <2>4, <2>5, <2>7, <2>8, EmitsConcat
  <2> QED
    BY <2>6, <2>9 DEF F
<1> QED
  BY <1>0, <1>6, <1>8 DEF A

(* What set-up does before the first family. *)
LEMMA PreparePart ==
    LET s == DeleteTables \o <<Plain("forward", "ip", "must"), Plain("forward", "ip6", "ignore")>>  IN
    /\ Block(s, 1, 1)
    /\ \A g, d, F : Emits(s, g, d, F, 0, 0)
<1> DEFINE S == {r \in Commands : /\ r.op \in {"delete", "forward"} /\ r.on \in {"ignore", "must"}
                                  /\ r.fam \in Families}
           s == DeleteTables \o <<Plain("forward", "ip", "must"), Plain("forward", "ip6", "ignore")>>
<1>1. s \in Seq(S)
  <2>1. ASSUME NEW op \in {"delete", "forward"}, NEW f \in {"ip", "ip6"}, NEW on \in {"ignore", "must"}
        PROVE  Plain(op, f, on) \in S
    <3>1. op \in Ops /\ f \in Families \cup {""} /\ on \in Severity /\ f \in Families
      BY DEF Ops, Severity, Families
    <3>2. Plain(op, f, on) \in Commands
      BY <3>1, PlainIsCommand
    <3>3. Plain(op, f, on).op = op /\ Plain(op, f, on).on = on /\ Plain(op, f, on).fam = f
      BY DEF Plain, Command
    <3> QED
      BY <3>1, <3>2, <3>3
  <2> HIDE DEF S
  <2>2. /\ Plain("delete", "ip", "ignore") \in S /\ Plain("delete", "ip6", "ignore") \in S
        /\ Plain("forward", "ip", "must") \in S /\ Plain("forward", "ip6", "ignore") \in S
    BY <2>1
  <2> QED
    BY <2>2 DEF DeleteTables
<1> HIDE DEF s
<1>2. \A r \in S : Phase(r) = 1
  BY DEF Phase
<1>3. \A r \in S : Sane(r)
  BY <1>2 DEF Sane
<1>4. S \subseteq Commands /\ \A r \in S : r.op # "rule"
  OBVIOUS
<1> HIDE DEF S
<1>5. \A i \in 1..Len(s) : s[i] \in S
  <2>1. \A t \in Seq(S) : \A i \in 1..Len(t) : t[i] \in S
    OBVIOUS
  <2> QED
    BY <1>1, <2>1
<1>6. s \in Seq(Commands) /\ Sorted(s)
  BY <1>1, <1>2, <1>4, <1>5 DEF Sorted
<1>7. Block(s, 1, 1)
  BY <1>2, <1>3, <1>5, <1>6 DEF Block
<1>8. \A i \in 1..Len(s) : s[i].op # "rule"
  BY <1>4, <1>5
<1>9. \A g, d, F : Emits(s, g, d, F, 0, 0)
  BY <1>6, <1>8, PlainPart
<1> QED
  BY <1>7, <1>9 DEF s

(* The commands of set-up add all that is planned, in the order of the phases. *)
LEMMA SetupPart ==
    ASSUME NEW c \in Configs
    PROVE  /\ Block(setup(c), 1, 10)
           /\ \A g \in Families, d \in Chains :
                 Emits(setup(c), g, d, Full(c, g, d), 0, Planned(c, g, d))
<1> DEFINE D == DeleteTables \o <<Plain("forward", "ip", "must"), Plain("forward", "ip6", "ignore")>>
           V == setup_family(c, "ip")
           A == AfterFamily(c, "ip")
<1>0. setup(c) = D \o V \o A /\ "ip" \in Families /\ Base("ip") = 2
  BY DEF setup, Families, Base
<1>1. Block(D, 1, 1) /\ \A g, d, F : Emits(D, g, d, F, 0, 0)
  BY PreparePart
<1>2. /\ Block(V, 2, 5)
      /\ \A g \in Families, d \in Chains :
            Emits(V, g, d, Full(c, g, d), 0, IF g = "ip" THEN Planned(c, g, d) ELSE 0)
  <2>1. 2 + 3 = 5
    OBVIOUS
  <2> QED
    BY <1>0, <2>1, FamilyPart
<1>3. /\ Block(A, 6, 10)
      /\ \A g \in Families, d \in Chains :
            Emits(A, g, d, Full(c, g, d), 0, IF g = "ip6" THEN Planned(c, g, d) ELSE 0)
  <2>1. 2 + 4 = 6
    OBVIOUS
  <2> QED
    BY <1>0, <2>1, AfterFamilyPart
<1> HIDE DEF D, V, A
<1>4. Block(D \o V, 1, 5) /\ Block(D \o V \o A, 1, 10)
  BY <1>1, <1>2, <1>3, BlockConcat
<1>5. D \in Seq(Commands) /\ V \in Seq(Commands) /\ A \in Seq(Commands) /\ D \o V \in Seq(Commands)
  BY <1>1, <1>2, <1>3, <1>4 DEF Block
<1>6. ASSUME NEW g \in Families, NEW d \in Chains
      PROVE  Emits(D \o V \o A, g, d, Full(c, g, d), 0, Planned(c, g, d))
  <2> DEFINE F == Full(c, g, d)
             p == Planned(c, g, d)
             v == IF g = "ip" THEN p ELSE 0
             a == IF g = "ip6" THEN p ELSE 0
  <2>1. Emits(D, g, d, F, 0, 0) /\ Emits(V, g, d, F, 0, v) /\ Emits(A, g, d, F, 0, a)
    BY <1>1, <1>2, <1>3
  <2>2. p \in Nat
    BY PlannedIsNat
  <2> HIDE DEF p, F
  <2>3. v \in Nat /\ a \in Nat /\ (v = 0 \/ a = 0) /\ v + a = p /\ 0 + v = v
    BY <2>2 DEF Families
  <2> HIDE DEF v, a
  <2>4. Emits(D \o V, g, d, F, 0, v)
    BY <1>5, <2>1, <2>3, EmitsConcat
  <2>5. Emits(D \o V \o A, g, d, F, 0, v + a)
    BY <1>5, <2>1, <2>3, <2>4, EmitsConcat
  <2> QED
    BY <2>3, <2>5 DEF p, F
<1> QED
  BY <1>0, <1>4, <1>6

-----------------------------------------------------------------------------
(***************************************************************************)
(* The invariant.                                                          *)
(***************************************************************************)

(* The types of all variables, and which table has rules. *)
Typed ==
    /\ tables \subseteq Families /\ old \subseteq tables
    /\ rules \in [Families -> [Chains -> Seq(Rule)]]
    /\ \A f \in Families : f \notin tables => rules[f] = NoRules[f]
    /\ routing \subseteq Families \X {"rule", "route"} /\ forwarding \subseteq Families
    /\ program \in {"none", "setup", "teardown"} /\ config \in Configs
    /\ todo \in Seq(Commands)
    /\ result \in {"running", "done", "failed"} /\ (result = "running" <=> todo # << >>)
    /\ skipped \in BOOLEAN /\ faulty \in BOOLEAN
    /\ anchor \in Configs \cup {NoConfig} /\ main \subseteq Refs /\ pf_conf \subseteq Refs
    /\ enabled \in BOOLEAN /\ platform \in {"linux", "macos"}

(* Set-up works in the order of its phases; no other program has a part that
   can be skipped, or adds rules. *)
Ordered ==
    /\ \A i \in 1..Len(todo) : Sane(todo[i])
    /\ program = "setup" => Sorted(todo)
    /\ program # "setup" => \A i \in 1..Len(todo) :
          todo[i].on \in {"ignore", "must"} /\ todo[i].op \notin {"table", "rule"}

(* Of the rules of a chain m are there and those up to n are still to come.  In
   a table that could not be deleted they follow those of an earlier program.
   As long as something is left to do before the chain, it has not begun. *)
Lines(f, ch, m, n) ==
    LET F == Full(config, f, ch)  IN
    /\ Emits(todo, f, ch, F, m, n)
    /\ f \notin old => Len(rules[f][ch]) = m /\ \A k \in 1..m : rules[f][ch][k] = F[k]
    /\ rules[f][ch] = << >> => m = 0
    /\ program = "setup" => \A i \in 1..Len(todo) : Phase(todo[i]) < Rank(f, ch) => m = 0
    /\ program # "setup" => m = 0 /\ n = 0

(* Up to n rules get into a chain. *)
UpTo(f, ch, n) == \E m \in 0..n : Lines(f, ch, m, n)

Covered(f, ch) == UpTo(f, ch, Len(Full(config, f, ch)))

Unhindered(f) == program = "setup" /\ result # "failed" /\ (f = "ip6" => ~skipped)

(* Every chain is a prefix of what it is meant to be; and unless set-up fails or
   says that it skips IPv6, it will be all of it, but for the TPROXY rules,
   for which the drop rules may stand in. *)
Whole(f) ==
    /\ Covered(f, "prerouting") /\ Covered(f, "output") /\ Covered(f, "quic_output")
    /\ (proxy_udp(config) /\ Covered(f, "tproxy_prerouting")) \/ Covered(f, "quic_forward")

Building ==
    \A f \in Families :
        /\ \A ch \in Chains : \E n \in 0..Len(Full(config, f, ch)) : UpTo(f, ch, n)
        /\ Unhindered(f) => Whole(f)

(* The output chain, an earlier program's rules included, begins with the return
   for the proxy's own packets. *)
MarkedFirst ==
    \A f \in Families : rules[f]["output"] # << >> => rules[f]["output"][1] = MarkReturn[1]

(* A build has one platform; the other's part of the state is empty. *)
Nft == platform = "linux" => /\ Ordered /\ Building /\ MarkedFirst
                             /\ anchor = NoConfig /\ main = pf_conf

Pending(op, f) == \E i \in 1..Len(todo) : todo[i].op = op /\ todo[i].fam = f

(* On macOS set-up either fails, or does all that it is to do but enabling pf. *)
Loading ==
    program = "setup" =>
        /\ \A i \in 1..Len(todo) :
              /\ todo[i].op \in {"forward", "load", "reference", "enable"}
              /\ todo[i].on = "ignore" => todo[i].op = "enable"
        /\ result # "failed" =>
              /\ anchor = config \/ Pending("load", "")
              /\ Refs \subseteq main \/ Pending("reference", "")

Pfctl == platform = "macos" => /\ tables = {} /\ rules = NoRules /\ routing = {}
                               /\ \A i \in 1..Len(todo) : todo[i].on \in {"ignore", "must"}
                               /\ Loading

(* A teardown of which nothing has failed removes what is left. *)
Demolishing ==
    program = "teardown" /\ result # "failed" /\ ~faulty =>
        /\ \A i \in 1..Len(todo) : todo[i].op \in Removing
        /\ \A f \in tables : Pending("delete", f)
        /\ \A f \in forwarding : Pending("unforward", f)
        /\ \A f \in Families :
              /\ <<f, "rule">> \in routing => Pending("rule del", f)
              /\ <<f, "route">> \in routing => Pending("route flush", f)
        /\ anchor # NoConfig => Pending("flush", "")
        /\ main # pf_conf => Pending("restore", "")

(* A set-up of which nothing has failed deletes the tables it finds. *)
Renewing ==
    program = "setup" /\ result # "failed" /\ ~faulty => \A f \in old : Pending("delete", f)

FirewallInv == Typed /\ Nft /\ Pfctl /\ Demolishing /\ Renewing

-----------------------------------------------------------------------------
(***************************************************************************)
(* The steps of a program on the commands that remain.                     *)
(***************************************************************************)

(* The commands that remain after the first. *)
LEMMA RestOf ==
    ASSUME NEW S, NEW s \in Seq(S), s # << >>
    PROVE  /\ Tail(s) \in Seq(S) /\ Head(s) = s[1] /\ Head(s) \in S /\ Len(s) \in Nat \ {0}
           /\ Len(Tail(s)) = Len(s) - 1 /\ \A i \in 1..(Len(s) - 1) : Tail(s)[i] = s[i + 1]
  OBVIOUS

(* They are in order, and none of them is of an earlier phase than the first. *)
LEMMA RestSorted ==
    ASSUME NEW s \in Seq(Commands), s # << >>, Sorted(s)
    PROVE  /\ Sorted(Tail(s))
           /\ \A i \in 1..Len(s) : Phase(s[1]) =< Phase(s[i])
<1>1. Len(s) \in Nat \ {0} /\ Len(Tail(s)) = Len(s) - 1 /\ \A i \in 1..(Len(s) - 1) : Tail(s)[i] = s[i + 1]
  BY RestOf
<1>2. Sorted(Tail(s))
  <2> SUFFICES ASSUME NEW i \in 1..Len(Tail(s)), NEW j \in 1..Len(Tail(s)), i =< j
               PROVE  Phase(Tail(s)[i]) =< Phase(Tail(s)[j])
    BY DEF Sorted
  <2>1. /\ i + 1 \in 1..Len(s) /\ j + 1 \in 1..Len(s) /\ i + 1 =< j + 1
        /\ Tail(s)[i] = s[i + 1] /\ Tail(s)[j] = s[j + 1]
    BY <1>1
  <2> QED
    BY <2>1 DEF Sorted
<1>3. \A i \in 1..Len(s) : 1 \in 1..Len(s) /\ 1 =< i
  BY <1>1
<1> QED
  BY <1>2, <1>3 DEF Sorted

(* The first command adds the next rule of a chain, or leaves the chain as it
   is. *)
LEMMA RestEmits ==
    ASSUME NEW s \in Seq(Commands), s # << >>, NEW f, NEW ch, NEW F,
           NEW m \in Nat, NEW n \in Nat, m =< n, Emits(s, f, ch, F, m, n)
    PROVE  /\ AddsTo(s[1], f, ch) =>
                 m < n /\ s[1].rule = F[m + 1] /\ Emits(Tail(s), f, ch, F, m + 1, n)
           /\ ~AddsTo(s[1], f, ch) => Emits(Tail(s), f, ch, F, m, n)
<1> DEFINE t == Tail(s)
<1>1. /\ Len(s) \in Nat \ {0} /\ Len(t) = Len(s) - 1
      /\ \A i \in 1..(Len(s) - 1) : t[i] = s[i + 1]
  BY RestOf
<1> HIDE DEF t
<1>2. PICK a \in 0..Len(s) :
        /\ a + (n - m) =< Len(s)
        /\ \A i \in 1..Len(s) : AddsTo(s[i], f, ch) <=> i \in (a + 1)..(a + (n - m))
        /\ \A i \in (a + 1)..(a + (n - m)) : s[i].rule = F[m + i - a]
  BY DEF Emits
<1>3. ASSUME AddsTo(s[1], f, ch)
      PROVE  m < n /\ s[1].rule = F[m + 1] /\ Emits(t, f, ch, F, m + 1, n)
  <2>1. 1 \in (a + 1)..(a + (n - m))
    BY <1>1, <1>2, <1>3
  <2>2. a = 0 /\ m < n /\ m + 1 - a = m + 1
    BY <2>1
  <2>3. s[1].rule = F[m + 1]
    BY <1>2, <2>1, <2>2
  <2>4. 0 \in 0..Len(t) /\ 0 + (n - (m + 1)) =< Len(t)
    BY <1>1, <1>2, <2>2
  <2>5. ASSUME NEW i \in 1..Len(t)
        PROVE  AddsTo(t[i], f, ch) <=> i \in (0 + 1)..(0 + (n - (m + 1)))
    <3>1. /\ i + 1 \in 1..Len(s) /\ t[i] = s[i + 1]
          /\ i + 1 \in (a + 1)..(a + (n - m)) <=> i \in (0 + 1)..(0 + (n - (m + 1)))
      BY <1>1, <2>2
    <3> QED
      BY <1>2, <3>1
  <2>6. ASSUME NEW i \in (0 + 1)..(0 + (n - (m + 1)))
        PROVE  t[i].rule = F[m + 1 + i - 0]
    <3>1. /\ i + 1 \in (a + 1)..(a + (n - m)) /\ i \in 1..(Len(s) - 1)
          /\ m + (i + 1) - a = m + 1 + i - 0
      BY <1>1, <1>2, <2>2
    <3> QED
      BY <1>1, <1>2, <3>1
  <2> QED
    BY <2>2, <2>3, <2>4, <2>5, <2>6 DEF Emits
<1>4. ASSUME ~AddsTo(s[1], f, ch)
      PROVE  Emits(t, f, ch, F, m, n)
  <2>1. CASE m = n
    <3>1. Silent(t, f, ch)
      <4>1. (a + 1)..(a + (n - m)) = {}
        BY <2>1
      <4>2. \A i \in 1..Len(s) : ~AddsTo(s[i], f, ch)
        BY <1>2, <4>1
      <4>3. \A i \in 1..Len(t) : i \in 1..(Len(s) - 1) /\ i + 1 \in 1..Len(s)
        BY <1>1
      <4> QED
        BY <1>1, <4>2, <4>3 DEF Silent
    <3>2. t \in Seq(Commands)
      BY RestOf DEF t
    <3> QED
      BY <2>1, <3>1, <3>2, SilentEmitsNone
  <2>2. CASE m < n
    <3>1. 1 \notin (a + 1)..(a + (n - m))
      BY <1>1, <1>2, <1>4
    <3>2. a - 1 \in 0..Len(t) /\ (a - 1) + (n - m) =< Len(t) /\ a >= 1
      BY <1>1, <1>2, <2>2, <3>1
    <3>3. ASSUME NEW i \in 1..Len(t)
          PROVE  AddsTo(t[i], f, ch) <=> i \in ((a - 1) + 1)..((a - 1) + (n - m))
      <4>1. /\ i + 1 \in 1..Len(s) /\ t[i] = s[i + 1]
            /\ i + 1 \in (a + 1)..(a + (n - m)) <=> i \in ((a - 1) + 1)..((a - 1) + (n - m))
        BY <1>1
      <4> QED
        BY <1>2, <4>1
    <3>4. ASSUME NEW i \in ((a - 1) + 1)..((a - 1) + (n - m))
          PROVE  t[i].rule = F[m + i - (a - 1)]
      <4>1. /\ i + 1 \in (a + 1)..(a + (n - m)) /\ i \in 1..(Len(s) - 1)
            /\ m + (i + 1) - a = m + i - (a - 1)
        BY <1>1, <1>2, <3>2
      <4> QED
        BY <1>1, <1>2, <4>1
    <3> QED
      BY <3>2, <3>3, <3>4 DEF Emits
  <2> QED
    BY <2>1, <2>2
<1> QED
  BY <1>3, <1>4 DEF t

(* Where no command adds to a chain, nothing is to come. *)
LEMMA NothingToCome ==
    ASSUME NEW s \in Seq(Commands), NEW f, NEW ch, NEW F,
           NEW m \in Nat, NEW n \in Nat, m =< n, Emits(s, f, ch, F, m, n), Silent(s, f, ch)
    PROVE  m = n
<1>1. PICK a \in 0..Len(s) :
        /\ a + (n - m) =< Len(s)
        /\ \A i \in 1..Len(s) : AddsTo(s[i], f, ch) <=> i \in (a + 1)..(a + (n - m))
  BY DEF Emits
<1>2. CASE m < n
  <2>1. a + 1 \in 1..Len(s) /\ a + 1 \in (a + 1)..(a + (n - m))
    BY <1>1, <1>2
  <2> QED
    BY <1>1, <2>1 DEF Silent
<1> QED
  BY <1>2

(* Once a later phase has begun, nothing is to come. *)
LEMMA PastPhase ==
    ASSUME NEW f \in Families, NEW ch \in Chains, NEW s \in Seq(Commands), s # << >>, Sorted(s),
           Sane(s[1]), Phase(s[1]) > Rank(f, ch)
    PROVE  Silent(s, f, ch)
<1>1. Phase(s[1]) \in Nat /\ Rank(f, ch) \in Nat
  BY PhaseIsNat DEF Rank, Base, Chains
<1>2. \A i \in 1..Len(s) : AddsTo(s[i], f, ch) => Phase(s[i]) = Rank(f, ch)
  BY DEF AddsTo, Phase
<1>3. \A i \in 1..Len(s) : Phase(s[1]) =< Phase(s[i])
  BY RestSorted
<1> QED
  BY <1>1, <1>2, <1>3 DEF Silent

-----------------------------------------------------------------------------
(***************************************************************************)
(* How the chains grow.                                                    *)
(***************************************************************************)

(* Every chain comes after the deletions and before the policy routing. *)
LEMMA RankBounds ==
    ASSUME NEW f \in Families, NEW ch \in Chains
    PROVE  Rank(f, ch) \in 2..9 /\ (f = "ip" => Rank(f, ch) =< 5)
  BY DEF Rank, Base, Chains

(* What a command that succeeds does to the chains. *)
LEMMA EffectOnChain ==
    ASSUME Typed, NEW cmd \in Commands, Sane(cmd), Effect(cmd), NEW f \in Families, NEW ch \in Chains
    PROVE  /\ rules'[f][ch] = IF cmd.op = "delete" /\ cmd.fam = f THEN << >>
                              ELSE IF AddsTo(cmd, f, ch) THEN Append(rules[f][ch], cmd.rule)
                              ELSE rules[f][ch]
           /\ f \notin old' => f \notin old \/ (cmd.op = "delete" /\ cmd.fam = f)
<1>1. rules \in [Families -> [Chains -> Seq(Rule)]]
  BY DEF Typed
<1>2. CASE cmd.op = "delete"
  <2>1. rules' = [rules EXCEPT ![cmd.fam] = NoRules[cmd.fam]] /\ old' = old \ {cmd.fam}
    BY <1>2 DEF Effect
  <2>2. cmd.fam \in Families /\ ~AddsTo(cmd, f, ch)
    BY <1>2 DEF Sane, AddsTo
  <2>3. NoRules[f] = [c \in Chains |-> << >>]
    BY DEF NoRules
  <2> QED
    BY <1>1, <1>2, <2>1, <2>2, <2>3
<1>3. CASE cmd.op = "rule"
  <2>1. rules' = [rules EXCEPT ![cmd.fam][cmd.chain] = Append(@, cmd.rule)] /\ old' = old
    BY <1>3 DEF Effect
  <2>2. cmd.fam \in Families /\ cmd.chain \in Chains
    BY <1>3 DEF Sane
  <2>3. rules'[f][ch] = IF cmd.fam = f /\ cmd.chain = ch THEN Append(rules[f][ch], cmd.rule) ELSE rules[f][ch]
    BY <1>1, <2>1, <2>2
  <2> QED
    BY <1>3, <2>1, <2>3 DEF AddsTo
<1>4. CASE cmd.op \notin {"delete", "rule"}
  <2>1. rules' = rules /\ old' = old
    BY <1>4 DEF Effect
  <2> QED
    BY <1>4, <2>1 DEF AddsTo
<1> QED
  BY <1>2, <1>3, <1>4

(* A command that succeeds: as many rules get into each chain as before. *)
LEMMA StepOkLines ==
    ASSUME Typed, Ordered, todo # << >>, Effect(Head(todo)), todo' = Tail(todo),
           program' = program, config' = config,
           NEW f \in Families, NEW ch \in Chains, NEW n \in Nat, UpTo(f, ch, n)
    PROVE  UpTo(f, ch, n)'
<1> DEFINE F == Full(config, f, ch)
           cmd == todo[1]
<1>1. PICK m \in 0..n : Lines(f, ch, m, n)
  BY DEF UpTo
<1>2. todo \in Seq(Commands) /\ rules \in [Families -> [Chains -> Seq(Rule)]]
  BY DEF Typed
<1>3. /\ Head(todo) = cmd /\ cmd \in Commands /\ Len(todo) \in Nat \ {0} /\ todo' \in Seq(Commands)
      /\ Len(todo') = Len(todo) - 1 /\ \A i \in 1..(Len(todo) - 1) : todo'[i] = todo[i + 1]
  BY <1>2, RestOf
<1>4. Sane(cmd) /\ 1 \in 1..Len(todo)
  BY <1>3 DEF Ordered
<1>5. \A i \in 1..Len(todo') : \E j \in 1..Len(todo) : todo'[i] = todo[j]
  BY <1>3
<1>6. Rank(f, ch) \in 2..9 /\ Full(config', f, ch) = F
  BY RankBounds
<1>7. m \in Nat /\ m =< n /\ Emits(todo, f, ch, F, m, n)
  BY <1>1 DEF Lines
<1>8. rules[f][ch] \in Seq(Rule)
  BY <1>2
<1> HIDE DEF cmd, F
<1>9. /\ rules'[f][ch] = IF cmd.op = "delete" /\ cmd.fam = f THEN << >>
                         ELSE IF AddsTo(cmd, f, ch) THEN Append(rules[f][ch], cmd.rule)
                         ELSE rules[f][ch]
      /\ f \notin old' => f \notin old \/ (cmd.op = "delete" /\ cmd.fam = f)
  BY <1>3, <1>4, EffectOnChain
<1>10. /\ AddsTo(cmd, f, ch) => m < n /\ cmd.rule = F[m + 1] /\ Emits(todo', f, ch, F, m + 1, n)
       /\ ~AddsTo(cmd, f, ch) => Emits(todo', f, ch, F, m, n)
  BY <1>2, <1>7, RestEmits DEF cmd
<1>11. /\ f \notin old => Len(rules[f][ch]) = m /\ \A k \in 1..m : rules[f][ch][k] = F[k]
       /\ rules[f][ch] = << >> => m = 0
       /\ program = "setup" => \A i \in 1..Len(todo) : Phase(todo[i]) < Rank(f, ch) => m = 0
       /\ program # "setup" => m = 0 /\ n = 0
  BY <1>1 DEF Lines, F
<1>12. CASE AddsTo(cmd, f, ch)
  <2>1. program = "setup"
    BY <1>4, <1>12 DEF Ordered, AddsTo, cmd
  <2>2. Phase(cmd) = Rank(f, ch) /\ cmd.op # "delete"
    BY <1>12 DEF AddsTo, Phase
  <2>3. Sorted(todo)
    BY <2>1 DEF Ordered
  <2>4. \A i \in 1..Len(todo) : Phase(cmd) =< Phase(todo[i])
    BY <1>2, <2>3, RestSorted DEF cmd
  <2>5. \A i \in 1..Len(todo) : Phase(todo[i]) \in Nat
    BY PhaseIsNat DEF Ordered
  <2>6. \A i \in 1..Len(todo') : ~(Phase(todo'[i]) < Rank(f, ch))
    <3> TAKE i \in 1..Len(todo')
    <3>1. PICK j \in 1..Len(todo) : todo'[i] = todo[j]
      BY <1>5
    <3> QED
      BY <1>6, <2>2, <2>4, <2>5, <3>1
  <2>7. rules'[f][ch] = Append(rules[f][ch], cmd.rule)
    BY <1>9, <1>12, <2>2
  <2> DEFINE s == rules[f][ch]
             t == Append(s, cmd.rule)
  <2>8. /\ Len(t) = Len(s) + 1 /\ t[Len(s) + 1] = cmd.rule /\ t # << >>
        /\ \A k \in 1..Len(s) : t[k] = s[k]
    <3>1. s \in Seq(Rule)
      BY <1>8
    <3> HIDE DEF s
    <3> QED
      BY <3>1
  <2> HIDE DEF t
  <2>9. rules'[f][ch] # << >>
    BY <2>7, <2>8 DEF t
  <2>10. f \notin old' => Len(rules'[f][ch]) = m + 1 /\ \A k \in 1..(m + 1) : rules'[f][ch][k] = F[k]
    <3>1. f \notin old' => Len(rules[f][ch]) = m /\ \A k \in 1..m : rules[f][ch][k] = F[k]
      BY <1>9, <1>11, <2>2
    <3>2. /\ Len(rules'[f][ch]) = Len(rules[f][ch]) + 1
          /\ \A k \in 1..Len(rules[f][ch]) : rules'[f][ch][k] = rules[f][ch][k]
          /\ rules'[f][ch][Len(rules[f][ch]) + 1] = cmd.rule
      BY <2>7, <2>8 DEF t
    <3>3. cmd.rule = F[m + 1] /\ m \in Nat /\ \A k \in 1..(m + 1) : k \in 1..m \/ k = m + 1
      BY <1>7, <1>10, <1>12
    <3> QED
      BY <3>1, <3>2, <3>3
  <2>11. m + 1 \in 0..n
    BY <1>7, <1>10, <1>12
  <2>12. Emits(todo', f, ch, F, m + 1, n)
    BY <1>10, <1>12
  <2>13. Lines(f, ch, m + 1, n)'
    BY <1>6, <2>1, <2>6, <2>9, <2>10, <2>12 DEF Lines, F
  <2> QED
    BY <2>11, <2>13 DEF UpTo
<1>13. CASE ~AddsTo(cmd, f, ch)
  <2>1. Emits(todo', f, ch, F, m, n)
    BY <1>10, <1>13
  <2>2. cmd.op = "delete" => m = 0
    <3>1. cmd.op = "delete" => Phase(todo[1]) = 1
      BY DEF Phase, cmd
    <3> QED
      BY <1>4, <1>6, <1>11, <3>1
  <2>3. rules'[f][ch] = << >> => m = 0
    BY <1>9, <1>11, <1>13, <2>2
  <2>4. f \notin old' => Len(rules'[f][ch]) = m /\ \A k \in 1..m : rules'[f][ch][k] = F[k]
    BY <1>9, <1>11, <1>13, <2>2
  <2>5. program = "setup" => \A i \in 1..Len(todo') : Phase(todo'[i]) < Rank(f, ch) => m = 0
    BY <1>5, <1>11
  <2>6. Lines(f, ch, m, n)'
    BY <1>6, <1>11, <2>1, <2>3, <2>4, <2>5 DEF Lines, F
  <2> QED
    BY <1>7, <2>6 DEF UpTo
<1> QED
  BY <1>12, <1>13

(* A program that has other commands left, and the same rules, gets as far as
   they lead. *)
LEMMA OtherRest ==
    ASSUME UNCHANGED <<rules, old, program, config>>, NEW f \in Families, NEW ch \in Chains,
           NEW m \in Nat, NEW k, NEW n \in Nat, m =< n, Lines(f, ch, m, k),
           Emits(todo', f, ch, Full(config, f, ch), m, n),
           program = "setup" => \A i \in 1..Len(todo') : Phase(todo'[i]) < Rank(f, ch) => m = 0,
           program # "setup" => n = 0
    PROVE  UpTo(f, ch, n)'
<1>1. Lines(f, ch, m, n)'
  BY DEF Lines
<1>2. m \in 0..n
  OBVIOUS
<1> QED
  BY <1>1, <1>2 DEF UpTo

(* A program that stops leaves the chains as they are. *)
LEMMA StopLines ==
    ASSUME UNCHANGED <<rules, old, program, config>>, todo' = << >>,
           NEW f \in Families, NEW ch \in Chains, NEW n \in Nat, NEW m \in 0..n, Lines(f, ch, m, n)
    PROVE  UpTo(f, ch, m)'
<1>1. << >> \in Seq(Commands) /\ Silent(<< >>, f, ch) /\ Len(<< >>) = 0
  BY DEF Silent
<1>2. Emits(<< >>, f, ch, Full(config, f, ch), m, m)
  <2> DEFINE e == << >>
  <2>1. e \in Seq(Commands) /\ Silent(e, f, ch) /\ m \in Nat
    BY <1>1
  <2> HIDE DEF e
  <2>2. Emits(e, f, ch, Full(config, f, ch), m, m)
    BY <2>1, SilentEmitsNone
  <2> QED
    BY <2>2 DEF e
<1>3. program # "setup" => m = 0
  BY DEF Lines
<1> QED
  BY <1>1, <1>2, <1>3, OtherRest

(* The full chain is as long after a step of the same program. *)
LEMMA CoveredNext ==
    ASSUME config' = config, NEW f, NEW ch, NEW n, n = Len(Full(config, f, ch)), UpTo(f, ch, n)'
    PROVE  Covered(f, ch)'
  BY DEF Covered

(* A complete chain has a length. *)
LEMMA FullLength ==
    ASSUME Typed, NEW f \in Families, NEW ch \in Chains
    PROVE  Len(Full(config, f, ch)) \in Nat
<1>1. config \in Configs
  BY DEF Typed
<1> QED
  BY <1>1, PlannedIsNat

(* A step that lets into each chain as many rules as before. *)
LEMMA SameExtent ==
    ASSUME Typed, Building, UNCHANGED <<program, config, skipped>>, result' # "failed" => result # "failed",
           \A f \in Families, ch \in Chains : \A n \in Nat : UpTo(f, ch, n) => UpTo(f, ch, n)'
    PROVE  Building'
<1>1. ASSUME NEW f \in Families, NEW ch \in Chains
      PROVE  /\ \E n \in 0..Len(Full(config', f, ch)) : UpTo(f, ch, n)'
             /\ Covered(f, ch) => Covered(f, ch)'
  <2>1. PICK n \in 0..Len(Full(config, f, ch)) : UpTo(f, ch, n)
    BY DEF Building
  <2>2. Len(Full(config, f, ch)) \in Nat
    BY FullLength
  <2>3. n \in Nat
    BY <2>2
  <2>4. UpTo(f, ch, n)'
    BY <2>1, <2>3
  <2>5. PICK l \in Nat : l = Len(Full(config, f, ch))
    BY <2>2
  <2>6. Covered(f, ch) => UpTo(f, ch, l)
    BY <2>5 DEF Covered
  <2>7. Covered(f, ch) => UpTo(f, ch, l)'
    BY <2>6
  <2> QED
    BY <2>4, <2>5, <2>7, CoveredNext
<1>2. ASSUME NEW f \in Families, Unhindered(f)'
      PROVE  Whole(f)'
  <2>1. Unhindered(f)
    BY <1>2 DEF Unhindered
  <2>2. Whole(f)
    BY <2>1 DEF Building
  <2>3. proxy_udp(config') = proxy_udp(config)
    OBVIOUS
  <2>4. {"prerouting", "output", "quic_output", "tproxy_prerouting", "quic_forward"} \subseteq Chains
    BY DEF Chains
  <2> QED
    BY <1>1, <2>2, <2>3, <2>4 DEF Whole
<1> QED
  BY <1>1, <1>2 DEF Building

(* What an index of the lines is. *)
LEMMA ExtentOf ==
    ASSUME Typed, Building, NEW f \in Families, NEW ch \in Chains
    PROVE  \E n \in 0..Len(Full(config, f, ch)) : \E m \in 0..n :
               /\ Lines(f, ch, m, n)
               /\ n \in Nat /\ m \in Nat /\ m =< n /\ m \in 0..Len(Full(config, f, ch))
<1>1. PICK n \in 0..Len(Full(config, f, ch)) : UpTo(f, ch, n)
  BY DEF Building
<1>2. PICK m \in 0..n : Lines(f, ch, m, n)
  BY <1>1 DEF UpTo
<1>3. Len(Full(config, f, ch)) \in Nat
  BY FullLength
<1> QED
  BY <1>2, <1>3

(* A step after which set-up has failed. *)
LEMMA StoppedBuilding ==
    ASSUME Typed, Building, UNCHANGED <<rules, old, program, config>>, todo' = << >>, result' = "failed"
    PROVE  Building'
<1>1. ASSUME NEW f \in Families, NEW ch \in Chains
      PROVE  \E n \in 0..Len(Full(config', f, ch)) : UpTo(f, ch, n)'
  <2>1. PICK n \in 0..Len(Full(config, f, ch)) : \E m \in 0..n :
           /\ Lines(f, ch, m, n)
           /\ n \in Nat /\ m \in Nat /\ m =< n /\ m \in 0..Len(Full(config, f, ch))
    BY ExtentOf
  <2>0. PICK m \in 0..n :
           /\ Lines(f, ch, m, n)
           /\ n \in Nat /\ m \in Nat /\ m =< n /\ m \in 0..Len(Full(config, f, ch))
    BY <2>1
  <2>2. UpTo(f, ch, m)'
    BY <2>0, StopLines
  <2> QED
    BY <2>0, <2>2
<1>2. \A f \in Families : ~Unhindered(f)'
  BY DEF Unhindered
<1> QED
  BY <1>1, <1>2 DEF Building

(* At its start set-up has all its rules before it. *)
LEMMA StartSetupBuilding ==
    ASSUME Typed, NEW c \in Configs, StartSetup(c)
    PROVE  Building'
<1>1. /\ program' = "setup" /\ config' = c /\ todo' = setup(c) /\ old' = tables /\ rules' = rules
  BY DEF StartSetup, Start, kernel
<1>2. /\ rules \in [Families -> [Chains -> Seq(Rule)]]
      /\ \A f \in Families : f \notin tables => rules[f] = NoRules[f]
  BY DEF Typed
<1>3. ASSUME NEW f \in Families, NEW ch \in Chains, NEW n \in Nat, n = Planned(c, f, ch)
      PROVE  UpTo(f, ch, n)'
  <2>1. Emits(setup(c), f, ch, Full(c, f, ch), 0, n)
    BY <1>3, SetupPart
  <2>2. f \notin tables => Len(rules[f][ch]) = 0
    BY <1>2 DEF NoRules
  <2>3. Lines(f, ch, 0, n)'
    BY <1>1, <2>1, <2>2 DEF Lines
  <2>4. 0 \in 0..n
    OBVIOUS
  <2> QED
    BY <2>3, <2>4 DEF UpTo
<1>4. ASSUME NEW f \in Families, NEW ch \in Chains
      PROVE  /\ \E n \in 0..Len(Full(config', f, ch)) : UpTo(f, ch, n)'
             /\ Planned(c, f, ch) = Len(Full(c, f, ch)) => Covered(f, ch)'
  <2>1. PICK n \in Nat : n = Planned(c, f, ch)
    BY PlannedIsNat
  <2>2. UpTo(f, ch, n)'
    BY <1>3, <2>1
  <2>3. Planned(c, f, ch) =< Len(Full(c, f, ch)) /\ Len(Full(c, f, ch)) \in Nat
    BY PlannedIsNat DEF Planned
  <2>4. n \in 0..Len(Full(config', f, ch))
    BY <1>1, <2>1, <2>3
  <2>5. n = Len(Full(config', f, ch)) => Covered(f, ch)'
    BY <2>2 DEF Covered
  <2> QED
    BY <1>1, <2>1, <2>2, <2>4, <2>5
<1>5. ASSUME NEW f \in Families
      PROVE  Whole(f)'
  <2>1. {"prerouting", "output", "quic_output", "tproxy_prerouting", "quic_forward"} \subseteq Chains
    BY DEF Chains
  <2>2. \A ch \in Chains : ch # "quic_forward" \/ ~proxy_udp(c) => Planned(c, f, ch) = Len(Full(c, f, ch))
    BY DEF Planned
  <2>3. proxy_udp(config') = proxy_udp(c)
    BY <1>1
  <2> QED
    BY <1>4, <2>1, <2>2, <2>3 DEF Whole
<1> QED
  BY <1>4, <1>5 DEF Building

(* Teardown. *)
LEMMA TeardownPart ==
    /\ teardown \in Seq(Commands) /\ teardown # << >>
    /\ \A i \in 1..Len(teardown) :
          /\ Sane(teardown[i]) /\ teardown[i].on \in {"ignore", "must"}
          /\ teardown[i].op \in Removing
<1> DEFINE S == {r \in Commands : /\ r.op \in Removing /\ r.on \in {"ignore", "must"}
                                  /\ r.fam \in Families}
<1>1. teardown \in Seq(S)
  <2>1. ASSUME NEW op \in Removing, NEW f \in {"ip", "ip6"}, NEW on \in {"ignore", "must"}
        PROVE  Plain(op, f, on) \in S
    <3>1. op \in Ops /\ f \in Families \cup {""} /\ on \in Severity /\ f \in Families
      BY DEF Ops, Severity, Families, Removing
    <3>2. Plain(op, f, on) \in Commands
      BY <3>1, PlainIsCommand
    <3>3. Plain(op, f, on).op = op /\ Plain(op, f, on).on = on /\ Plain(op, f, on).fam = f
      BY DEF Plain, Command
    <3> QED
      BY <3>1, <3>2, <3>3
  <2> HIDE DEF S
  <2>2. {"delete", "unforward", "rule del", "route flush"} \subseteq Removing
    BY DEF Removing
  <2>3. /\ Plain("delete", "ip", "ignore") \in S /\ Plain("delete", "ip6", "ignore") \in S
        /\ Plain("unforward", "ip", "must") \in S /\ Plain("unforward", "ip6", "ignore") \in S
    BY <2>1, <2>2
  <2>4. /\ Plain("rule del", "ip", "ignore") \in S /\ Plain("rule del", "ip6", "ignore") \in S
        /\ Plain("route flush", "ip", "ignore") \in S /\ Plain("route flush", "ip6", "ignore") \in S
    BY <2>1, <2>2
  <2>5. \A a, b, c, d, e, g, h, k \in S : <<a, b>> \o <<c, d, e, g>> \o <<h, k>> \in Seq(S)
    OBVIOUS
  <2> QED
    BY <2>3, <2>4, <2>5 DEF DeleteTables, teardown, teardown_tproxy_routing
<1>2. \A r \in S : Sane(r)
  BY DEF Sane, Removing
<1>3. S \subseteq Commands
  OBVIOUS
<1>4. \A r \in S : r.op \in Removing /\ r.on \in {"ignore", "must"}
  OBVIOUS
<1> HIDE DEF S
<1>5. \A i \in 1..Len(teardown) : teardown[i] \in S
  <2>1. \A t \in Seq(S) : \A i \in 1..Len(t) : t[i] \in S
    OBVIOUS
  <2> QED
    BY <1>1, <2>1
<1>6. teardown # << >>
  BY DEF teardown, DeleteTables, teardown_tproxy_routing
<1> QED
  BY <1>1, <1>2, <1>3, <1>4, <1>5, <1>6

(* A teardown has none. *)
LEMMA StartTeardownBuilding ==
    ASSUME Typed, StartTeardown
    PROVE  Building'
<1>1. /\ program' = "teardown" /\ config' = config /\ todo' = teardown /\ old' = tables /\ rules' = rules
  BY DEF StartTeardown, Start, kernel
<1>2. /\ rules \in [Families -> [Chains -> Seq(Rule)]] /\ config \in Configs
      /\ \A f \in Families : f \notin tables => rules[f] = NoRules[f]
  BY DEF Typed
<1>3. ASSUME NEW f \in Families, NEW ch \in Chains
      PROVE  \E n \in 0..Len(Full(config', f, ch)) : UpTo(f, ch, n)'
  <2>1. teardown \in Seq(Commands) /\ Silent(teardown, f, ch)
    BY TeardownPart DEF Silent, AddsTo, Removing
  <2>2. Emits(teardown, f, ch, Full(config, f, ch), 0, 0)
    BY <2>1, SilentEmitsNone
  <2>3. f \notin tables => Len(rules[f][ch]) = 0
    BY <1>2 DEF NoRules
  <2>4. Lines(f, ch, 0, 0)'
    BY <1>1, <2>2, <2>3 DEF Lines
  <2>5. UpTo(f, ch, 0)'
    BY <2>4 DEF UpTo
  <2>6. 0 \in 0..Len(Full(config', f, ch))
    BY <1>1, FullLength
  <2> QED
    BY <2>5, <2>6
<1>4. \A f \in Families : ~Unhindered(f)'
  BY <1>1 DEF Unhindered
<1> QED
  BY <1>3, <1>4 DEF Building

(* What Ordered says of the command that is run next. *)
LEMMA HeadOf ==
    ASSUME Typed, Ordered, todo # << >>
    PROVE  /\ todo \in Seq(Commands) /\ Head(todo) = todo[1] /\ todo[1] \in Commands
           /\ Sane(todo[1]) /\ Phase(todo[1]) \in Nat /\ 1 \in 1..Len(todo)
           /\ Tail(todo) \in Seq(Commands)
           /\ \A i \in 1..Len(Tail(todo)) : \E j \in 1..Len(todo) : Tail(todo)[i] = todo[j]
           /\ result = "running"
<1>1. todo \in Seq(Commands) /\ result = "running"
  BY DEF Typed
<1>2. /\ Head(todo) = todo[1] /\ todo[1] \in Commands /\ 1 \in 1..Len(todo)
      /\ Tail(todo) \in Seq(Commands)
      /\ \A i \in 1..Len(Tail(todo)) : \E j \in 1..Len(todo) : Tail(todo)[i] = todo[j]
  BY <1>1, RestOf
<1>3. Sane(todo[1])
  BY <1>2 DEF Ordered
<1> QED
  BY <1>1, <1>2, <1>3, PhaseIsNat

(* Once the next command is of a later phase, a chain has what it gets. *)
LEMMA Finished ==
    ASSUME Typed, Ordered, todo # << >>, program = "setup", NEW f \in Families, NEW ch \in Chains,
           Phase(todo[1]) > Rank(f, ch),
           NEW n \in Nat, NEW m \in Nat, m =< n, Lines(f, ch, m, n)
    PROVE  m = n
<1>1. todo \in Seq(Commands) /\ Sane(todo[1]) /\ Sorted(todo)
  BY HeadOf DEF Ordered
<1>2. Silent(todo, f, ch)
  BY <1>1, PastPhase
<1>3. Emits(todo, f, ch, Full(config, f, ch), m, n)
  BY DEF Lines
<1> QED
  BY <1>1, <1>2, <1>3, NothingToCome

(* A failure that is ignored leaves out a command that adds no rule. *)
LEMMA IgnoredBuilding ==
    ASSUME Typed, Ordered, Building, todo # << >>, UNCHANGED <<rules, old, program, config, skipped>>,
           todo[1].on = "ignore", todo' = Tail(todo)
    PROVE  Building'
<1>0. /\ todo \in Seq(Commands) /\ Sane(todo[1]) /\ Tail(todo) \in Seq(Commands) /\ result = "running"
      /\ \A i \in 1..Len(Tail(todo)) : \E j \in 1..Len(todo) : Tail(todo)[i] = todo[j]
  BY HeadOf
<1>1. ASSUME NEW f \in Families, NEW ch \in Chains, NEW n \in Nat, UpTo(f, ch, n)
      PROVE  UpTo(f, ch, n)'
  <2>1. PICK m \in 0..n : Lines(f, ch, m, n)
    BY <1>1 DEF UpTo
  <2>2. m \in Nat /\ m =< n
    OBVIOUS
  <2>3. Emits(todo, f, ch, Full(config, f, ch), m, n)
    BY <2>1 DEF Lines
  <2>4. ~AddsTo(todo[1], f, ch)
    BY <1>0 DEF Sane, AddsTo
  <2>5. Emits(todo', f, ch, Full(config, f, ch), m, n)
    BY <1>0, <2>2, <2>3, <2>4, RestEmits
  <2>6. program = "setup" => \A i \in 1..Len(todo') : Phase(todo'[i]) < Rank(f, ch) => m = 0
    BY <1>0, <2>1 DEF Lines
  <2>7. program # "setup" => n = 0
    BY <2>1 DEF Lines
  <2> QED
    BY <2>1, <2>2, <2>5, <2>6, <2>7, OtherRest
<1> QED
  BY <1>0, <1>1, SameExtent

(* The rest of the policy routing is left out: the chains are complete. *)
LEMMA UnroutedBuilding ==
    ASSUME Typed, Ordered, Building, todo # << >>, UNCHANGED <<rules, old, program, config, skipped>>,
           todo[1].on = "routing", todo' = << >>
    PROVE  Building'
<1>0. Sane(todo[1]) /\ result = "running" /\ 1 \in 1..Len(todo)
  BY HeadOf
<1>1. program = "setup" /\ Phase(todo[1]) = 10
  BY <1>0 DEF Ordered, Sane
<1>2. ASSUME NEW f \in Families, NEW ch \in Chains, NEW n \in Nat, UpTo(f, ch, n)
      PROVE  UpTo(f, ch, n)'
  <2>1. PICK m \in 0..n : Lines(f, ch, m, n)
    BY <1>2 DEF UpTo
  <2>2. m \in Nat /\ m =< n
    OBVIOUS
  <2>3. Rank(f, ch) \in 2..9
    BY RankBounds
  <2>4. Phase(todo[1]) > Rank(f, ch)
    BY <1>1, <2>3
  <2>5. m = n
    BY <1>1, <2>1, <2>2, <2>4, Finished
  <2>6. UpTo(f, ch, m)'
    BY <2>1, StopLines
  <2> QED
    BY <2>5, <2>6
<1> QED
  BY <1>0, <1>2, SameExtent

(* The rest of IPv6 is left out: IPv4 is complete. *)
LEMMA SkippedBuilding ==
    ASSUME Typed, Ordered, Building, todo # << >>, UNCHANGED <<rules, old, program, config>>,
           todo[1].on = "v6", todo' = SkipIpv6, skipped'
    PROVE  Building'
<1>0. Sane(todo[1]) /\ result = "running" /\ 1 \in 1..Len(todo) /\ Phase(todo[1]) \in Nat
  BY HeadOf
<1>1. program = "setup" /\ Phase(todo[1]) >= 6
  BY <1>0 DEF Ordered, Sane
<1>2. config \in Configs /\ "ip6" \in Families /\ Base("ip6") = 6 /\ 6 + 4 = 10
  BY DEF Typed, Families, Base
<1>3. /\ Block(todo', 10, 10)
      /\ \A f \in Families, ch \in Chains : Emits(todo', f, ch, Full(config, f, ch), 0, 0)
  BY <1>2, AfterFamilyPart DEF SkipIpv6
<1>4. todo' \in Seq(Commands) /\ \A i \in 1..Len(todo') : Phase(todo'[i]) = 10
  <2>1. /\ todo' \in Seq(Commands)
        /\ \A i \in 1..Len(todo') : Sane(todo'[i]) /\ 10 =< Phase(todo'[i]) /\ Phase(todo'[i]) =< 10
    BY <1>3 DEF Block
  <2>2. \A i \in 1..Len(todo') : Phase(todo'[i]) \in Nat
    BY <2>1, PhaseIsNat
  <2> QED
    BY <2>1, <2>2
<1>5. ASSUME NEW f \in Families, NEW ch \in Chains, NEW n \in Nat, NEW m \in 0..n, Lines(f, ch, m, n)
      PROVE  UpTo(f, ch, m)' /\ (f = "ip" => m = n)
  <2>1. m \in Nat /\ m =< n
    OBVIOUS
  <2>2. Rank(f, ch) \in 2..9 /\ (f = "ip" => Rank(f, ch) =< 5)
    BY RankBounds
  <2>3. 0 \in Nat /\ Emits(todo', f, ch, Full(config, f, ch), 0, 0)
    BY <1>3
  <2>4. Silent(todo', f, ch)
    BY <1>4, <2>3, SilentEmitsNone
  <2>5. Emits(todo', f, ch, Full(config, f, ch), m, m)
    BY <1>4, <2>1, <2>4, SilentEmitsNone
  <2>6. \A i \in 1..Len(todo') : ~(Phase(todo'[i]) < Rank(f, ch))
    BY <1>4, <2>2
  <2>7. UpTo(f, ch, m)'
    BY <1>1, <1>5, <2>1, <2>5, <2>6, OtherRest
  <2>8. f = "ip" => m = n
    <3> SUFFICES ASSUME f = "ip"
                 PROVE  m = n
      OBVIOUS
    <3>1. Phase(todo[1]) > Rank(f, ch)
      BY <1>0, <1>1, <2>2
    <3> QED
      BY <1>1, <1>5, <2>1, <3>1, Finished
  <2> QED
    BY <2>7, <2>8
<1>6. ASSUME NEW f \in Families, NEW ch \in Chains
      PROVE  \E n \in 0..Len(Full(config', f, ch)) : UpTo(f, ch, n)'
  <2>1. PICK n \in 0..Len(Full(config, f, ch)) : \E m \in 0..n :
           /\ Lines(f, ch, m, n)
           /\ n \in Nat /\ m \in Nat /\ m =< n /\ m \in 0..Len(Full(config, f, ch))
    BY ExtentOf
  <2>2. PICK m \in 0..n :
           /\ Lines(f, ch, m, n)
           /\ n \in Nat /\ m \in Nat /\ m =< n /\ m \in 0..Len(Full(config, f, ch))
    BY <2>1
  <2>3. UpTo(f, ch, m)'
    BY <1>5, <2>2
  <2> QED
    BY <2>2, <2>3
<1>7. ASSUME NEW ch \in Chains, Covered("ip", ch)
      PROVE  Covered("ip", ch)'
  <2>0. "ip" \in Families
    BY DEF Families
  <2>1. PICK n \in Nat : n = Len(Full(config, "ip", ch))
    BY <2>0, FullLength
  <2>2. UpTo("ip", ch, n)
    BY <1>7, <2>1 DEF Covered
  <2>3. PICK m \in 0..n : Lines("ip", ch, m, n)
    BY <2>2 DEF UpTo
  <2>4. UpTo("ip", ch, n)'
    BY <1>5, <2>0, <2>3
  <2> QED
    BY <2>1, <2>4, CoveredNext
<1>8. ASSUME NEW f \in Families, Unhindered(f)'
      PROVE  Whole(f)'
  <2>1. f = "ip" /\ Unhindered(f)
    BY <1>0, <1>1, <1>8 DEF Unhindered, Families
  <2>2. Whole(f)
    BY <2>1 DEF Building
  <2>3. proxy_udp(config') = proxy_udp(config)
    OBVIOUS
  <2>4. {"prerouting", "output", "quic_output", "tproxy_prerouting", "quic_forward"} \subseteq Chains
    BY DEF Chains
  <2> QED
    BY <1>7, <2>1, <2>2, <2>3, <2>4 DEF Whole
<1> QED
  BY <1>6, <1>8 DEF Building

(* TPROXY is given up for a family: what came before it is complete, and what
   comes after it has not begun. *)
LEMMA FallbackBuilding ==
    ASSUME Typed, Ordered, Building, todo # << >>, UNCHANGED <<rules, old, program, config, skipped>>,
           todo[1].on = "tproxy", todo' = Fallback(todo[1])
    PROVE  Building'
<1> DEFINE g == todo[1].fam
           b == Base(g)
           adds(f, ch) == FallbackAdds(config, g, f, ch)
           len(f, ch) == Len(Full(config, f, ch))
<1>0. Sane(todo[1]) /\ result = "running" /\ 1 \in 1..Len(todo) /\ Phase(todo[1]) \in Nat
  BY HeadOf
<1>1. program = "setup"
  BY <1>0 DEF Ordered
<1>2. config \in Configs /\ g \in Families
  BY <1>0 DEF Typed, Sane
<1>3. Phase(todo[1]) = b + 1 /\ b \in {2, 6} /\ (b = 2 <=> g = "ip")
  <2>1. todo[1].op \in {"chain", "rule"} /\ todo[1].chain = "tproxy_prerouting"
    BY <1>0 DEF Sane
  <2> QED
    BY <2>1 DEF Phase, Rank, Base
<1>4. /\ Block(todo', b + 2, 10)
      /\ \A f \in Families, ch \in Chains : Emits(todo', f, ch, Full(config, f, ch), 0, adds(f, ch))
  BY <1>2, FallbackPart DEF Fallback
<1>5. todo' \in Seq(Commands) /\ \A i \in 1..Len(todo') : Phase(todo'[i]) \in Nat /\ b + 2 =< Phase(todo'[i])
  BY <1>4, PhaseIsNat DEF Block
<1>6. \A f \in Families, ch \in Chains : Rank(f, ch) \in 2..9 /\ (f = "ip" => Rank(f, ch) =< 5)
  BY RankBounds
<1>7. \A f \in Families, ch \in Chains : len(f, ch) \in Nat /\ adds(f, ch) \in Nat /\ adds(f, ch) =< len(f, ch)
  <2> TAKE f \in Families, ch \in Chains
  <2>1. len(f, ch) \in Nat
    BY FullLength
  <2>2. Planned(config, f, ch) = 0 \/ Planned(config, f, ch) = len(f, ch)
    BY DEF Planned
  <2> QED
    BY <2>1, <2>2 DEF FallbackAdds
<1> HIDE DEF b, adds, len
<1>8. ASSUME NEW f \in Families, NEW ch \in Chains, NEW n \in Nat, NEW m \in 0..n, Lines(f, ch, m, n)
      PROVE  /\ Rank(f, ch) < b + 2 => UpTo(f, ch, m)'
             /\ Rank(f, ch) < b + 1 => m = n
  <2>1. m \in Nat /\ m =< n
    OBVIOUS
  <2>2. ASSUME Rank(f, ch) < b + 2
        PROVE  UpTo(f, ch, m)'
    <3>1. adds(f, ch) = 0
      BY <2>2 DEF FallbackAdds, adds, b
    <3>2. 0 \in Nat /\ Emits(todo', f, ch, Full(config, f, ch), 0, 0)
      BY <1>4, <3>1
    <3>3. Silent(todo', f, ch)
      BY <1>5, <3>2, SilentEmitsNone
    <3>4. Emits(todo', f, ch, Full(config, f, ch), m, m)
      BY <1>5, <2>1, <3>3, SilentEmitsNone
    <3>5. \A i \in 1..Len(todo') : ~(Phase(todo'[i]) < Rank(f, ch))
      BY <1>3, <1>5, <1>6, <2>2
    <3> QED
      BY <1>1, <1>8, <2>1, <3>4, <3>5, OtherRest
  <2>3. ASSUME Rank(f, ch) < b + 1
        PROVE  m = n
    <3>1. Phase(todo[1]) > Rank(f, ch)
      BY <1>3, <1>6, <2>3
    <3> QED
      BY <1>1, <1>8, <2>1, <3>1, Finished
  <2> QED
    BY <2>2, <2>3
<1>9. ASSUME NEW f \in Families, NEW ch \in Chains, NEW n \in Nat, NEW m \in 0..n, Lines(f, ch, m, n),
             Rank(f, ch) >= b + 2, NEW k \in Nat, k = adds(f, ch)
      PROVE  UpTo(f, ch, k)'
  <2>1. m = 0
    <3>1. Phase(todo[1]) < Rank(f, ch)
      BY <1>3, <1>6, <1>9
    <3> QED
      BY <1>0, <1>1, <1>9, <3>1 DEF Lines
  <2>2. Lines(f, ch, 0, n) /\ 0 =< k /\ 0 \in Nat
    BY <1>9, <2>1
  <2>3. Emits(todo', f, ch, Full(config, f, ch), 0, k)
    BY <1>4, <1>9
  <2> QED
    BY <1>1, <2>2, <2>3, OtherRest
<1>10. ASSUME NEW f \in Families, NEW ch \in Chains
       PROVE  \E n \in 0..Len(Full(config', f, ch)) : UpTo(f, ch, n)'
  <2>1. PICK n \in 0..Len(Full(config, f, ch)) : \E m \in 0..n :
           /\ Lines(f, ch, m, n)
           /\ n \in Nat /\ m \in Nat /\ m =< n /\ m \in 0..Len(Full(config, f, ch))
    BY ExtentOf
  <2>2. PICK m \in 0..n :
           /\ Lines(f, ch, m, n)
           /\ n \in Nat /\ m \in Nat /\ m =< n /\ m \in 0..Len(Full(config, f, ch))
    BY <2>1
  <2>3. CASE Rank(f, ch) < b + 2
    <3>1. UpTo(f, ch, m)'
      BY <1>8, <2>2, <2>3
    <3> QED
      BY <2>2, <3>1
  <2>4. CASE Rank(f, ch) >= b + 2
    <3>1. PICK k \in Nat : k = adds(f, ch)
      BY <1>7
    <3>2. UpTo(f, ch, k)'
      BY <1>9, <2>2, <2>4, <3>1
    <3>3. k \in 0..Len(Full(config', f, ch))
      BY <1>7, <3>1 DEF len
    <3> QED
      BY <3>2, <3>3
  <2> QED
    BY <1>3, <1>6, <2>3, <2>4
<1>11. ASSUME NEW f \in Families, NEW ch \in Chains
       PROVE  /\ Covered(f, ch) /\ Rank(f, ch) < b + 1 => Covered(f, ch)'
              /\ adds(f, ch) = len(f, ch) /\ Rank(f, ch) >= b + 2 => Covered(f, ch)'
  <2>1. PICK k \in Nat : k = Len(Full(config, f, ch))
    BY <1>7 DEF len
  <2>2. ASSUME Covered(f, ch), Rank(f, ch) < b + 1
        PROVE  Covered(f, ch)'
    <3>1. UpTo(f, ch, k)
      BY <2>1, <2>2 DEF Covered
    <3>2. PICK m \in 0..k : Lines(f, ch, m, k)
      BY <3>1 DEF UpTo
    <3>3. Rank(f, ch) < b + 2
      BY <1>3, <1>6, <2>2
    <3>4. UpTo(f, ch, k)'
      BY <1>8, <2>2, <3>2, <3>3
    <3> QED
      BY <2>1, <3>4, CoveredNext
  <2>3. ASSUME adds(f, ch) = len(f, ch), Rank(f, ch) >= b + 2
        PROVE  Covered(f, ch)'
    <3>1. PICK n \in 0..Len(Full(config, f, ch)) : \E m \in 0..n :
             /\ Lines(f, ch, m, n)
             /\ n \in Nat /\ m \in Nat /\ m =< n /\ m \in 0..Len(Full(config, f, ch))
      BY ExtentOf
    <3>2. k = adds(f, ch)
      BY <2>1, <2>3 DEF len
    <3>3. UpTo(f, ch, k)'
      BY <1>9, <2>3, <3>1, <3>2
    <3> QED
      BY <2>1, <3>3, CoveredNext
  <2> QED
    BY <2>2, <2>3
<1>12. ASSUME NEW f \in Families, Unhindered(f)'
       PROVE  Whole(f)'
  <2>1. Unhindered(f)
    BY <1>0, <1>12 DEF Unhindered
  <2>2. Whole(f)
    BY <2>1 DEF Building
  <2>3. proxy_udp(config') = proxy_udp(config)
    OBVIOUS
  <2>4. {"prerouting", "output", "quic_output", "tproxy_prerouting", "quic_forward"} \subseteq Chains
    BY DEF Chains
  <2>5. CASE f = g
    <3>1. Rank(f, "prerouting") = b /\ Rank(f, "output") = b
      BY <2>5 DEF Rank, b
    <3>2. Rank(f, "quic_forward") = b + 2 /\ Rank(f, "quic_output") = b + 3
      BY <2>5 DEF Rank, b
    <3>3. adds(f, "quic_forward") = len(f, "quic_forward") /\ adds(f, "quic_output") = len(f, "quic_output")
      BY <1>3, <2>5, <3>2 DEF adds, len, FallbackAdds, b
    <3>4. Covered(f, "prerouting")' /\ Covered(f, "output")'
      BY <1>3, <1>11, <2>2, <2>4, <3>1 DEF Whole
    <3>5. Covered(f, "quic_forward")' /\ Covered(f, "quic_output")'
      BY <1>3, <1>11, <2>4, <3>2, <3>3
    <3> QED
      BY <3>4, <3>5 DEF Whole
  <2>6. CASE f # g /\ f = "ip"
    <3>1. b = 6
      BY <1>2, <1>3, <2>6 DEF Families
    <3>2. \A ch \in Chains : Rank(f, ch) < b + 1
      BY <1>6, <2>6, <3>1
    <3> QED
      BY <1>11, <2>2, <2>3, <2>4, <3>2 DEF Whole
  <2>7. CASE f # g /\ f = "ip6"
    <3>1. b = 2
      BY <1>2, <1>3, <2>7 DEF Families
    <3>2. \A ch \in Chains : Rank(f, ch) >= b + 2
      BY <2>7, <3>1 DEF Rank, Base, Chains
    <3>3. \A ch \in Chains : ch # "quic_forward" \/ ~proxy_udp(config) => adds(f, ch) = len(f, ch)
      <4> TAKE ch \in Chains
      <4>1. ~(Rank(f, ch) < b + 2)
        BY <1>3, <1>6, <3>2
      <4> QED
        BY <2>7, <4>1 DEF adds, len, FallbackAdds, Planned, b
    <3> QED
      BY <1>11, <2>3, <2>4, <3>2, <3>3 DEF Whole
  <2> QED
    BY <2>5, <2>6, <2>7 DEF Families
<1> QED
  BY <1>10, <1>12 DEF Building

(* Whatever a failed command leads to, chains stay prefixes. *)
LEMMA StepFailsBuilding ==
    ASSUME Typed, Ordered, Building, StepFails
    PROVE  Building'
<1>1. /\ todo # << >> /\ UNCHANGED <<rules, old, program, config>>
      /\ todo[1].on = "ignore"  => todo' = Tail(todo)
      /\ todo[1].on = "tproxy"  => todo' = Fallback(todo[1])
      /\ todo[1].on = "v6"      => todo' = SkipIpv6
      /\ todo[1].on = "routing" => todo' = << >>
      /\ todo[1].on = "must"    => todo' = << >> /\ result' = "failed"
      /\ skipped' = (skipped \/ todo[1].on = "v6")
  <2>1. todo # << >> /\ Head(todo) = todo[1]
    BY HeadOf DEF StepFails
  <2> QED
    BY <2>1 DEF StepFails, GoOn, kernel
<1>2. todo[1].on \in Severity /\ skipped \in BOOLEAN
  BY <1>1, HeadOf DEF Commands, Typed
<1>3. CASE todo[1].on = "v6"
  BY <1>1, <1>3, SkippedBuilding
<1>4. CASE todo[1].on # "v6"
  <2>1. skipped' = skipped
    BY <1>1, <1>2, <1>4
  <2>2. CASE todo[1].on = "ignore"
    BY <1>1, <2>1, <2>2, IgnoredBuilding
  <2>3. CASE todo[1].on = "tproxy"
    BY <1>1, <2>1, <2>3, FallbackBuilding
  <2>4. CASE todo[1].on = "routing"
    BY <1>1, <2>1, <2>4, UnroutedBuilding
  <2>5. CASE todo[1].on = "must"
    BY <1>1, <2>5, StoppedBuilding
  <2> QED
    BY <1>2, <1>4, <2>2, <2>3, <2>4, <2>5 DEF Severity
<1> QED
  BY <1>3, <1>4

(* And so does every step. *)
LEMMA NextBuilding ==
    ASSUME Typed, Ordered, Building, Next
    PROVE  Building'
<1>1. ASSUME NEW c \in Configs, StartSetup(c)
      PROVE  Building'
  BY <1>1, StartSetupBuilding
<1>2. CASE StartTeardown
  BY <1>2, StartTeardownBuilding
<1>3. CASE StepOk
  <2>1. /\ todo # << >> /\ Effect(Head(todo)) /\ todo' = Tail(todo)
        /\ UNCHANGED <<program, config, skipped>>
    BY <1>3 DEF StepOk, GoOn
  <2>2. result # "failed"
    BY <2>1, HeadOf
  <2>3. \A f \in Families, ch \in Chains : \A n \in Nat : UpTo(f, ch, n) => UpTo(f, ch, n)'
    BY <2>1, StepOkLines
  <2> QED
    BY <2>1, <2>2, <2>3, SameExtent
<1>4. CASE StepFails
  BY <1>4, StepFailsBuilding
<1>5. CASE Killed
  BY <1>5, StoppedBuilding DEF Killed, kernel
<1> QED
  BY <1>1, <1>2, <1>3, <1>4, <1>5 DEF Next

(* What is left of the commands is in order. *)
LEMMA BlockOrdered ==
    ASSUME program' = "setup", NEW l, NEW h, Block(todo', l, h)
    PROVE  Ordered'
  BY DEF Block, Ordered

(* The order of what remains. *)
LEMMA RestOrdered ==
    ASSUME Typed, Ordered, todo # << >>, program' = program, todo' = Tail(todo)
    PROVE  Ordered'
<1>1. /\ todo \in Seq(Commands)
      /\ \A i \in 1..Len(todo') : \E j \in 1..Len(todo) : todo'[i] = todo[j]
  BY HeadOf
<1>2. program = "setup" => Sorted(todo')
  BY <1>1, RestSorted DEF Ordered
<1> QED
  BY <1>1, <1>2 DEF Ordered

(* Nothing is in order. *)
LEMMA EmptyOrdered ==
    ASSUME todo' = << >>
    PROVE  Ordered'
<1>1. 1..Len(todo') = {}
  OBVIOUS
<1> QED
  BY <1>1 DEF Ordered, Sorted

(* In every step what remains to be done is in order. *)
LEMMA NextOrdered ==
    ASSUME Typed, Ordered, Next
    PROVE  Ordered' /\ todo' \in Seq(Commands)
<1>1. ASSUME NEW c \in Configs, StartSetup(c)
      PROVE  Ordered' /\ todo' \in Seq(Commands)
  <2>1. program' = "setup" /\ Block(todo', 1, 10)
    BY <1>1, SetupPart DEF StartSetup, Start
  <2> QED
    BY <2>1, BlockOrdered DEF Block
<1>2. CASE StartTeardown
  <2>1. program' = "teardown" /\ todo' = teardown
    BY <1>2 DEF StartTeardown, Start
  <2> QED
    BY <2>1, TeardownPart DEF Ordered, Removing
<1>3. CASE StepOk
  <2>1. todo # << >> /\ todo' = Tail(todo) /\ program' = program
    BY <1>3 DEF StepOk, GoOn
  <2> QED
    BY <2>1, RestOrdered, HeadOf
<1>4. CASE StepFails
  <2>1. /\ todo # << >> /\ program' = program /\ Head(todo) = todo[1]
        /\ todo[1].on \in Severity /\ Sane(todo[1]) /\ 1 \in 1..Len(todo)
    BY <1>4, HeadOf DEF StepFails, Commands
  <2>2. todo[1].on \notin {"ignore", "must"} => program = "setup"
    BY <2>1 DEF Ordered
  <2>3. CASE todo[1].on = "ignore"
    <3>1. todo' = Tail(todo)
      BY <1>4, <2>1, <2>3 DEF StepFails, GoOn
    <3> QED
      BY <2>1, <3>1, RestOrdered, HeadOf
  <2>4. CASE todo[1].on \in {"must", "routing"}
    <3>1. todo' = << >>
      BY <1>4, <2>1, <2>4 DEF StepFails, GoOn
    <3> QED
      BY <3>1, EmptyOrdered
  <2>5. CASE todo[1].on = "tproxy"
    <3>1. todo' = Fallback(todo[1])
      BY <1>4, <2>1, <2>5 DEF StepFails, GoOn
    <3>2. todo[1].fam \in Families /\ config \in Configs
      BY <2>1, <2>5 DEF Sane, Typed
    <3>3. Block(todo', Base(todo[1].fam) + 2, 10)
      BY <3>1, <3>2, FallbackPart DEF Fallback
    <3> QED
      BY <2>1, <2>2, <2>5, <3>3, BlockOrdered DEF Block
  <2>6. CASE todo[1].on = "v6"
    <3>1. todo' = SkipIpv6
      BY <1>4, <2>1, <2>6 DEF StepFails, GoOn
    <3>2. "ip6" \in Families /\ config \in Configs
      BY DEF Families, Typed
    <3>3. Block(todo', Base("ip6") + 4, 10)
      BY <3>1, <3>2, AfterFamilyPart DEF SkipIpv6
    <3> QED
      BY <2>1, <2>2, <2>6, <3>3, BlockOrdered DEF Block
  <2> QED
    BY <2>1, <2>3, <2>4, <2>5, <2>6 DEF Severity
<1>5. CASE Killed
  BY <1>5, EmptyOrdered DEF Killed
<1> QED
  BY <1>1, <1>2, <1>3, <1>4, <1>5 DEF Next

(* A concatenation begins as its first part does. *)
LEMMA StartOfConcat ==
    ASSUME NEW S, NEW s \in Seq(S), NEW t \in Seq(S), Len(s) >= 1
    PROVE  s \o t \in Seq(S) /\ Len(s \o t) >= 1 /\ (s \o t)[1] = s[1]
  OBVIOUS

(* What the output chain begins with. *)
LEMMA FullOutput ==
    ASSUME NEW c \in Configs, NEW f \in Families, Full(c, f, "output") # << >>
    PROVE  c.local_traffic /\ Full(c, f, "output")[1] = MarkReturn[1]
<1> DEFINE U == UpstreamReturn(c, f)
           L == LocalReturn("any")
           R == IF c.allPorts THEN SshReturn(c, f, "any") \o CatchAll("any") ELSE PortRedirects(c, "any")
<1>1. c.local_traffic
  BY DEF Full, When
<1>2. Full(c, f, "output") = MarkReturn \o U \o L \o R
  BY <1>1 DEF Full, When, Output
<1>3. MarkReturn \in Seq(Rule) /\ U \in Seq(Rule) /\ L \in Seq(Rule) /\ R \in Seq(Rule)
  BY PartsAreRules, PortRedirectsAreRules
<1>4. Len(MarkReturn) = 1
  BY DEF MarkReturn
<1> HIDE DEF U, L, R
<1>5. (MarkReturn \o U \o L \o R)[1] = MarkReturn[1]
  <2> DEFINE M == MarkReturn
  <2>1. M \in Seq(Rule) /\ Len(M) >= 1
    BY <1>3, <1>4
  <2> HIDE DEF M
  <2>2. M \o U \in Seq(Rule) /\ Len(M \o U) >= 1 /\ (M \o U)[1] = M[1]
    BY <1>3, <2>1, StartOfConcat
  <2>3. M \o U \o L \in Seq(Rule) /\ Len(M \o U \o L) >= 1 /\ (M \o U \o L)[1] = M[1]
    BY <1>3, <2>2, StartOfConcat
  <2> QED
    BY <1>3, <2>3, StartOfConcat DEF M
<1> QED
  BY <1>1, <1>2, <1>5

(* An output chain is begun with the return for marked packets, and added to at its end. *)
LEMMA NextMarkedFirst ==
    ASSUME Typed, Ordered, Building, MarkedFirst, Next
    PROVE  MarkedFirst'
<1>1. CASE UNCHANGED rules
  BY <1>1 DEF MarkedFirst
<1>2. CASE StepOk
  <2>1. todo # << >> /\ Head(todo) = todo[1] /\ todo[1] \in Commands /\ Sane(todo[1]) /\ Effect(todo[1])
    BY <1>2, HeadOf DEF StepOk
  <2>2. "output" \in Chains
    BY DEF Chains
  <2>3. SUFFICES ASSUME NEW f \in Families, rules'[f]["output"] # << >>
                 PROVE  rules'[f]["output"][1] = MarkReturn[1]
    BY DEF MarkedFirst
  <2>4. rules'[f]["output"] = IF todo[1].op = "delete" /\ todo[1].fam = f THEN << >>
                              ELSE IF AddsTo(todo[1], f, "output")
                              THEN Append(rules[f]["output"], todo[1].rule)
                              ELSE rules[f]["output"]
    BY <2>1, <2>2, EffectOnChain
  <2>5. rules[f]["output"] \in Seq(Rule)
    BY <2>2 DEF Typed
  <2>6. CASE AddsTo(todo[1], f, "output") /\ rules[f]["output"] = << >>
    <3>1. PICK n \in 0..Len(Full(config, f, "output")) : \E m \in 0..n :
           /\ Lines(f, "output", m, n)
           /\ n \in Nat /\ m \in Nat /\ m =< n /\ m \in 0..Len(Full(config, f, "output"))
      BY <2>2, ExtentOf
    <3>2. PICK m \in 0..n :
           /\ Lines(f, "output", m, n)
           /\ n \in Nat /\ m \in Nat /\ m =< n /\ m \in 0..Len(Full(config, f, "output"))
      BY <3>1
    <3>3. m = 0 /\ Emits(todo, f, "output", Full(config, f, "output"), m, n)
      BY <2>6, <3>2 DEF Lines
    <3>4. todo \in Seq(Commands) /\ config \in Configs
      BY DEF Typed
    <3>5. m < n /\ todo[1].rule = Full(config, f, "output")[m + 1]
      BY <2>1, <2>6, <3>2, <3>3, <3>4, RestEmits
    <3>6. Full(config, f, "output") # << >> /\ m + 1 = 1
      BY <3>2, <3>3, <3>5
    <3>7. todo[1].rule = MarkReturn[1]
      BY <3>4, <3>5, <3>6, FullOutput
    <3>8. rules'[f]["output"] = <<todo[1].rule>>
      <4>1. ~(todo[1].op = "delete")
        BY <2>6 DEF AddsTo
      <4> QED
        BY <2>4, <2>6, <4>1
    <3> QED
      BY <3>7, <3>8
  <2>7. CASE rules[f]["output"] # << >>
    <3>1. rules[f]["output"][1] = MarkReturn[1]
      BY <2>7 DEF MarkedFirst
    <3>2. \A r : Append(rules[f]["output"], r)[1] = rules[f]["output"][1]
      BY <2>5, <2>7
    <3> QED
      BY <2>3, <2>4, <3>1, <3>2
  <2> QED
    BY <2>3, <2>4, <2>6, <2>7
<1>3. StepOk \/ UNCHANGED rules
  BY DEF Next, StartSetup, StartTeardown, Start, StepFails, Killed, kernel
<1> QED
  BY <1>1, <1>2, <1>3

-----------------------------------------------------------------------------
(***************************************************************************)
(* Types.                                                                  *)
(***************************************************************************)

(* Set-up has something to do. *)
LEMMA SetupNotEmpty ==
    ASSUME NEW c \in Configs
    PROVE  setup(c) # << >>
<1>1. Block(setup(c), 1, 10)
  BY SetupPart
<1> DEFINE D == DeleteTables \o <<Plain("forward", "ip", "must"), Plain("forward", "ip6", "ignore")>>
           V == setup_family(c, "ip")
           A == AfterFamily(c, "ip")
<1>2. setup(c) = D \o V \o A /\ "ip" \in Families
  BY DEF setup, Families
<1>3. D \in Seq(Commands) /\ V \in Seq(Commands) /\ A \in Seq(Commands)
  BY <1>2, PreparePart, FamilyPart, AfterFamilyPart DEF Block
<1>4. Len(D) >= 1
  BY DEF DeleteTables
<1> HIDE DEF D, V, A
<1>5. D \o V \in Seq(Commands) /\ Len(D \o V) >= 1
  BY <1>3, <1>4, StartOfConcat
<1>6. Len(D \o V \o A) >= 1
  BY <1>3, <1>5, StartOfConcat
<1> QED
  BY <1>2, <1>6

(* Starting a program keeps the types. *)
LEMMA StartTyped ==
    ASSUME Typed, NEW name \in {"setup", "teardown"}, NEW c \in Configs,
           NEW commands \in Seq(Commands), commands # << >>,
           Start(name, c, commands), UNCHANGED <<pf, platform>>
    PROVE  Typed'
  BY DEF Typed, Start, kernel, pf

(* So does a command. *)
LEMMA EffectTyped ==
    ASSUME Typed, NEW cmd \in Commands, Sane(cmd), Effect(cmd)
    PROVE  /\ tables' \subseteq Families /\ old' \subseteq tables'
           /\ rules' \in [Families -> [Chains -> Seq(Rule)]]
           /\ \A f \in Families : f \notin tables' => rules'[f] = NoRules[f]
           /\ routing' \subseteq Families \X {"rule", "route"} /\ forwarding' \subseteq Families
<1>1. /\ tables \subseteq Families /\ old \subseteq tables
      /\ rules \in [Families -> [Chains -> Seq(Rule)]]
      /\ \A f \in Families : f \notin tables => rules[f] = NoRules[f]
      /\ routing \subseteq Families \X {"rule", "route"} /\ forwarding \subseteq Families
  BY DEF Typed
<1>2. cmd.op \notin AnchorOps => cmd.fam \in Families
  BY DEF Commands
<1>3. tables' \subseteq Families /\ old' \subseteq tables'
  <2>1. cmd.op \in {"table", "delete"} => cmd.fam \in Families
    BY <1>2 DEF AnchorOps
  <2> QED
    BY <1>1, <2>1 DEF Effect
<1>4. routing' \subseteq Families \X {"rule", "route"}
  <2>1. cmd.op \in {"rule add", "route add"} => cmd.fam \in Families
    BY <1>2 DEF AnchorOps
  <2>2. cmd.op = "rule add" => routing' = routing \cup {<<cmd.fam, "rule">>}
    BY DEF Effect
  <2>3. cmd.op = "route add" => routing' = routing \cup {<<cmd.fam, "route">>}
    BY DEF Effect
  <2>4. cmd.op \notin {"rule add", "route add"} => routing' \subseteq routing
    BY DEF Effect
  <2>5. cmd.op \in {"rule add", "route add"} =>
           /\ <<cmd.fam, "rule">> \in Families \X {"rule", "route"}
           /\ <<cmd.fam, "route">> \in Families \X {"rule", "route"}
    BY <2>1
  <2> QED
    BY <1>1, <2>2, <2>3, <2>4, <2>5
<1>5. forwarding' \subseteq Families
  <2>1. cmd.op = "forward" => cmd.fam \in Families
    BY <1>2 DEF AnchorOps
  <2> QED
    BY <1>1, <2>1 DEF Effect
<1>6. /\ rules' \in [Families -> [Chains -> Seq(Rule)]]
      /\ \A f \in Families : f \notin tables' => rules'[f] = NoRules[f]
  <2>1. CASE cmd.op = "delete"
    <3>1. rules' = [rules EXCEPT ![cmd.fam] = NoRules[cmd.fam]] /\ tables' = tables \ {cmd.fam}
      BY <2>1 DEF Effect
    <3>2. cmd.fam \in Families
      BY <1>2, <2>1 DEF AnchorOps
    <3>3. NoRules[cmd.fam] \in [Chains -> Seq(Rule)]
      BY <3>2 DEF NoRules
    <3> QED
      BY <1>1, <3>1, <3>2, <3>3
  <2>2. CASE cmd.op = "rule"
    <3>1. /\ rules' = [rules EXCEPT ![cmd.fam][cmd.chain] = Append(@, cmd.rule)]
          /\ tables' = tables /\ cmd.fam \in tables
      BY <2>2 DEF Effect
    <3>2. cmd.fam \in Families /\ cmd.chain \in Chains /\ cmd.rule \in Rule
      BY <2>2 DEF Sane
    <3>3. Append(rules[cmd.fam][cmd.chain], cmd.rule) \in Seq(Rule)
      BY <1>1, <3>2
    <3> QED
      BY <1>1, <3>1, <3>2, <3>3
  <2>3. CASE cmd.op \notin {"delete", "rule"}
    <3>1. rules' = rules /\ tables \subseteq tables'
      BY <2>3 DEF Effect
    <3> QED
      BY <1>1, <3>1
  <2> QED
    BY <2>1, <2>2, <2>3
<1> QED
  BY <1>3, <1>4, <1>5, <1>6

(* So does going on with other commands. *)
LEMMA GoOnTyped ==
    ASSUME NEW rest \in Seq(Commands), GoOn(rest)
    PROVE  /\ todo' \in Seq(Commands)
           /\ result' \in {"running", "done", "failed"} /\ (result' = "running" <=> todo' # << >>)
  BY DEF GoOn

(* So does a failure. *)
LEMMA FailsTyped ==
    ASSUME Typed, StepFails \/ Killed, todo' \in Seq(Commands), UNCHANGED <<pf, platform>>
    PROVE  Typed'
<1>1. /\ UNCHANGED <<tables, rules, routing, forwarding, program, config, old>>
      /\ faulty' \in BOOLEAN /\ skipped' \in BOOLEAN /\ todo # << >>
  BY DEF StepFails, Killed, kernel, Typed
<1>2. result' \in {"running", "done", "failed"} /\ (result' = "running" <=> todo' # << >>)
  <2>1. CASE Killed
    BY <2>1 DEF Killed
  <2>2. CASE StepFails
    <3>1. Head(todo).on \in Severity
      <4>1. todo \in Seq(Commands)
        BY DEF Typed
      <4>2. Head(todo) \in Commands
        BY <1>1, <4>1, RestOf
      <4> QED
        BY <4>2 DEF Commands
    <3>2. (\E rest : GoOn(rest)) \/ (todo' = << >> /\ result' = "failed")
      BY <2>2, <3>1 DEF StepFails, Severity
    <3> QED
      BY <3>2 DEF GoOn
  <2> QED
    BY <2>1, <2>2
<1> QED
  BY <1>1, <1>2 DEF Typed, pf

(* So does every step on Linux. *)
LEMMA NextTyped ==
    ASSUME Typed, Ordered, Next, UNCHANGED <<pf, platform>>
    PROVE  Typed'
<1>0. todo' \in Seq(Commands)
  BY NextOrdered
<1>1. ASSUME NEW c \in Configs, StartSetup(c)
      PROVE  Typed'
  <2>1. setup(c) \in Seq(Commands)
    BY SetupPart DEF Block
  <2> QED
    BY <1>1, <2>1, SetupNotEmpty, StartTyped DEF StartSetup
<1>2. CASE StartTeardown
  <2>1. config \in Configs
    BY DEF Typed
  <2> QED
    BY <1>2, <2>1, TeardownPart, StartTyped DEF StartTeardown
<1>3. CASE StepOk
  <2>1. todo # << >> /\ Head(todo) \in Commands /\ Sane(Head(todo)) /\ Tail(todo) \in Seq(Commands)
    BY <1>3, HeadOf DEF StepOk
  <2>2. Effect(Head(todo)) /\ GoOn(Tail(todo))
    BY <1>3 DEF StepOk
  <2>3. UNCHANGED <<program, config, skipped, faulty>>
    BY <1>3 DEF StepOk
  <2>4. /\ tables' \subseteq Families /\ old' \subseteq tables'
        /\ rules' \in [Families -> [Chains -> Seq(Rule)]]
        /\ \A f \in Families : f \notin tables' => rules'[f] = NoRules[f]
        /\ routing' \subseteq Families \X {"rule", "route"} /\ forwarding' \subseteq Families
    BY <2>1, <2>2, EffectTyped
  <2>5. result' \in {"running", "done", "failed"} /\ (result' = "running" <=> todo' # << >>)
    BY <2>1, <2>2, GoOnTyped
  <2> QED
    BY <1>0, <2>3, <2>4, <2>5 DEF Typed, pf
<1>4. CASE StepFails \/ Killed
  BY <1>0, <1>4, FailsTyped
<1> QED
  BY <1>1, <1>2, <1>3, <1>4 DEF Next

-----------------------------------------------------------------------------
(***************************************************************************)
(* What remains to be done: removals, and the commands of pf.              *)
(***************************************************************************)

(* What is to be done and not first is still to be done after a step. *)
LEMMA StillPending ==
    ASSUME NEW S, todo \in Seq(S), todo # << >>, todo' = Tail(todo), NEW op, NEW f, Pending(op, f),
           ~(Head(todo).op = op /\ Head(todo).fam = f)
    PROVE  Pending(op, f)'
<1>1. PICK i \in 1..Len(todo) : todo[i].op = op /\ todo[i].fam = f
  BY DEF Pending
<1>2. /\ Head(todo) = todo[1] /\ Len(todo) \in Nat /\ Len(todo') = Len(todo) - 1
      /\ \A j \in 1..(Len(todo) - 1) : todo'[j] = todo[j + 1]
  BY RestOf
<1>3. i # 1
  BY <1>1, <1>2
<1>4. i - 1 \in 1..Len(todo') /\ todo'[i - 1] = todo[i]
  BY <1>2, <1>3
<1> QED
  BY <1>1, <1>4 DEF Pending

(* What the sequences of commands contain. *)
LEMMA Contents ==
    /\ \A f \in Families :
          /\ \E i \in 1..Len(teardown) : teardown[i] = Plain("delete", f, "ignore")
          /\ \E i \in 1..Len(teardown) : teardown[i] = Plain("rule del", f, "ignore")
          /\ \E i \in 1..Len(teardown) : teardown[i] = Plain("route flush", f, "ignore")
          /\ \E i \in 1..Len(teardown), on \in Severity : teardown[i] = Plain("unforward", f, on)
          /\ \E i \in 1..Len(pf_teardown), on \in Severity : pf_teardown[i] = Plain("unforward", f, on)
    /\ \E i \in 1..Len(pf_teardown) : pf_teardown[i] = Plain("flush", "", "ignore")
    /\ \E i \in 1..Len(pf_teardown) : pf_teardown[i] = Plain("restore", "", "ignore")
    /\ \E i \in 1..Len(pf_setup) : pf_setup[i] = Plain("load", "", "must")
    /\ \E i \in 1..Len(pf_setup) : pf_setup[i] = Plain("reference", "", "must")
<1>1. /\ teardown[1] = Plain("delete", "ip", "ignore") /\ teardown[2] = Plain("delete", "ip6", "ignore")
      /\ teardown[3] = Plain("rule del", "ip", "ignore") /\ teardown[5] = Plain("rule del", "ip6", "ignore")
      /\ teardown[4] = Plain("route flush", "ip", "ignore") /\ teardown[6] = Plain("route flush", "ip6", "ignore")
      /\ teardown[7] = Plain("unforward", "ip", "must") /\ teardown[8] = Plain("unforward", "ip6", "ignore")
      /\ Len(teardown) = 8
  <2> DEFINE a == Plain("delete", "ip", "ignore")       b == Plain("delete", "ip6", "ignore")
             c == Plain("rule del", "ip", "ignore")     d == Plain("route flush", "ip", "ignore")
             e == Plain("rule del", "ip6", "ignore")    g == Plain("route flush", "ip6", "ignore")
             h == Plain("unforward", "ip", "must")      k == Plain("unforward", "ip6", "ignore")
  <2>1. teardown = <<a, b>> \o <<c, d, e, g>> \o <<h, k>>
    BY DEF teardown, DeleteTables, teardown_tproxy_routing
  <2> HIDE DEF a, b, c, d, e, g, h, k
  <2>2. /\ teardown[1] = a /\ teardown[2] = b /\ teardown[3] = c /\ teardown[4] = d
        /\ teardown[5] = e /\ teardown[6] = g /\ teardown[7] = h /\ teardown[8] = k
        /\ Len(teardown) = 8
    BY <2>1
  <2> QED
    BY <2>2 DEF a, b, c, d, e, g, h, k
<1>2. /\ pf_teardown[1] = Plain("flush", "", "ignore") /\ pf_teardown[2] = Plain("restore", "", "ignore")
      /\ pf_teardown[3] = Plain("unforward", "ip", "must")
      /\ pf_teardown[4] = Plain("unforward", "ip6", "ignore")
      /\ Len(pf_teardown) = 4
  BY DEF pf_teardown
<1>3. /\ pf_setup[3] = Plain("load", "", "must") /\ pf_setup[4] = Plain("reference", "", "must")
      /\ Len(pf_setup) = 5
  BY DEF pf_setup
<1>4. /\ 1 \in 1..Len(teardown) /\ 2 \in 1..Len(teardown) /\ 3 \in 1..Len(teardown)
      /\ 4 \in 1..Len(teardown) /\ 5 \in 1..Len(teardown) /\ 6 \in 1..Len(teardown)
      /\ 7 \in 1..Len(teardown) /\ 8 \in 1..Len(teardown)
      /\ "must" \in Severity /\ "ignore" \in Severity
  <2>1. Len(teardown) = 8
    BY <1>1
  <2>2. "must" \in Severity /\ "ignore" \in Severity
    BY DEF Severity
  <2> QED
    BY <2>1, <2>2
<1>5. /\ 1 \in 1..Len(pf_teardown) /\ 2 \in 1..Len(pf_teardown) /\ 3 \in 1..Len(pf_teardown)
      /\ 4 \in 1..Len(pf_teardown) /\ 3 \in 1..Len(pf_setup) /\ 4 \in 1..Len(pf_setup)
  <2>1. Len(pf_teardown) = 4 /\ Len(pf_setup) = 5
    BY <1>2, <1>3
  <2> QED
    BY <2>1
<1>6. /\ \E i \in 1..Len(pf_teardown) : pf_teardown[i] = Plain("flush", "", "ignore")
      /\ \E i \in 1..Len(pf_teardown) : pf_teardown[i] = Plain("restore", "", "ignore")
      /\ \E i \in 1..Len(pf_setup) : pf_setup[i] = Plain("load", "", "must")
      /\ \E i \in 1..Len(pf_setup) : pf_setup[i] = Plain("reference", "", "must")
  BY <1>2, <1>3, <1>5
<1>7. ASSUME NEW f \in Families
      PROVE  /\ \E i \in 1..Len(teardown) : teardown[i] = Plain("delete", f, "ignore")
             /\ \E i \in 1..Len(teardown) : teardown[i] = Plain("rule del", f, "ignore")
             /\ \E i \in 1..Len(teardown) : teardown[i] = Plain("route flush", f, "ignore")
             /\ \E i \in 1..Len(teardown), on \in Severity : teardown[i] = Plain("unforward", f, on)
             /\ \E i \in 1..Len(pf_teardown), on \in Severity : pf_teardown[i] = Plain("unforward", f, on)
  <2>1. CASE f = "ip"
    BY <1>1, <1>2, <1>4, <1>5, <2>1
  <2>2. CASE f = "ip6"
    BY <1>1, <1>2, <1>4, <1>5, <2>2
  <2> QED
    BY <2>1, <2>2 DEF Families
<1> QED
  BY <1>6, <1>7

(* The two programs of macOS consist of commands that can be ignored or not. *)
LEMMA PfPart ==
    /\ pf_setup \in Seq(Commands) /\ pf_teardown \in Seq(Commands)
    /\ pf_setup # << >> /\ pf_teardown # << >>
    /\ \A i \in 1..Len(pf_setup) :
          /\ pf_setup[i].op \in {"forward", "load", "reference", "enable"}
          /\ pf_setup[i].on \in {"ignore", "must"}
          /\ pf_setup[i].on = "ignore" => pf_setup[i].op = "enable"
    /\ \A i \in 1..Len(pf_teardown) :
          pf_teardown[i].op \in Removing /\ pf_teardown[i].on \in {"ignore", "must"}
<1> DEFINE S == {r \in Commands : /\ r.op \in {"forward", "load", "reference", "enable"}
                                  /\ r.on \in {"ignore", "must"}
                                  /\ r.on = "ignore" => r.op = "enable"}
           T == {r \in Commands : r.op \in Removing /\ r.on \in {"ignore", "must"}}
<1>1. pf_setup \in Seq(S)
  <2>1. ASSUME NEW op \in {"forward", "load", "reference", "enable"}, NEW f \in {"ip", "ip6", ""},
               NEW on \in {"ignore", "must"}, op = "forward" => f # "", on = "ignore" => op = "enable"
        PROVE  Plain(op, f, on) \in S
    <3>1. op \in Ops /\ f \in Families \cup {""} /\ on \in Severity /\ (op \in AnchorOps \/ f \in Families)
      BY <2>1 DEF Ops, Severity, Families, AnchorOps
    <3>2. Plain(op, f, on) \in Commands
      BY <3>1, PlainIsCommand
    <3>3. Plain(op, f, on).op = op /\ Plain(op, f, on).on = on
      BY DEF Plain, Command
    <3> QED
      BY <2>1, <3>1, <3>2, <3>3
  <2> HIDE DEF S
  <2>2. /\ Plain("forward", "ip", "must") \in S /\ Plain("forward", "ip6", "must") \in S
        /\ Plain("load", "", "must") \in S /\ Plain("reference", "", "must") \in S
        /\ Plain("enable", "", "ignore") \in S
    BY <2>1
  <2>3. \A a, b, c, d, e \in S : <<a, b, c, d, e>> \in Seq(S)
    OBVIOUS
  <2> QED
    BY <2>2, <2>3 DEF pf_setup
<1>2. pf_teardown \in Seq(T)
  <2>1. ASSUME NEW op \in Removing, NEW f \in {"ip", "ip6", ""}, NEW on \in {"ignore", "must"},
               f # "" \/ op \in {"flush", "restore"}
        PROVE  Plain(op, f, on) \in T
    <3>1. op \in Ops /\ f \in Families \cup {""} /\ on \in Severity /\ (op \in AnchorOps \/ f \in Families)
      BY <2>1 DEF Ops, Severity, Families, AnchorOps, Removing
    <3>2. Plain(op, f, on) \in Commands
      BY <3>1, PlainIsCommand
    <3>3. Plain(op, f, on).op = op /\ Plain(op, f, on).on = on
      BY DEF Plain, Command
    <3> QED
      BY <3>1, <3>2, <3>3
  <2> HIDE DEF T
  <2>2. {"flush", "restore", "unforward"} \subseteq Removing
    BY DEF Removing
  <2>3. /\ Plain("flush", "", "ignore") \in T /\ Plain("restore", "", "ignore") \in T
        /\ Plain("unforward", "ip", "must") \in T /\ Plain("unforward", "ip6", "ignore") \in T
    BY <2>1, <2>2
  <2>4. \A a, b, c, d \in T : <<a, b, c, d>> \in Seq(T)
    OBVIOUS
  <2> QED
    BY <2>3, <2>4 DEF pf_teardown
<1>3. S \subseteq Commands /\ T \subseteq Commands
  OBVIOUS
<1>4. /\ \A r \in S : /\ r.op \in {"forward", "load", "reference", "enable"}
                      /\ r.on \in {"ignore", "must"} /\ (r.on = "ignore" => r.op = "enable")
      /\ \A r \in T : r.op \in Removing /\ r.on \in {"ignore", "must"}
  OBVIOUS
<1> HIDE DEF S, T
<1>5. \A i \in 1..Len(pf_setup) : pf_setup[i] \in S
  <2>1. \A t \in Seq(S) : \A i \in 1..Len(t) : t[i] \in S
    OBVIOUS
  <2> QED
    BY <1>1, <2>1
<1>6. \A i \in 1..Len(pf_teardown) : pf_teardown[i] \in T
  <2>1. \A t \in Seq(T) : \A i \in 1..Len(t) : t[i] \in T
    OBVIOUS
  <2> QED
    BY <1>2, <2>1
<1>7. pf_setup # << >> /\ pf_teardown # << >>
  BY DEF pf_setup, pf_teardown
<1> QED
  BY <1>1, <1>2, <1>3, <1>4, <1>5, <1>6, <1>7

(* The program on macOS: what is left of the commands. *)
LEMMA PfRest ==
    ASSUME Typed, Pfctl, platform = "macos", PfNext
    PROVE  /\ todo' \in Seq(Commands)
           /\ \A i \in 1..Len(todo') : todo'[i].on \in {"ignore", "must"}
           /\ \/ \E c \in Configs : StartPfSetup(c)
              \/ StartPfTeardown
              \/ PfStepOk
              \/ PfStepFails /\ Head(todo).on = "ignore" /\ GoOn(Tail(todo))
              \/ PfStepFails /\ todo' = << >> /\ result' = "failed"
              \/ PfKilled
<1>1. todo \in Seq(Commands) /\ \A i \in 1..Len(todo) : todo[i].on \in {"ignore", "must"}
  BY DEF Typed, Pfctl
<1>2. todo # << >> => /\ Tail(todo) \in Seq(Commands) /\ Head(todo).on \in {"ignore", "must"}
                      /\ \A i \in 1..Len(Tail(todo)) : Tail(todo)[i].on \in {"ignore", "must"}
  <2> SUFFICES ASSUME todo # << >>
               PROVE  /\ Tail(todo) \in Seq(Commands) /\ Head(todo).on \in {"ignore", "must"}
                      /\ \A i \in 1..Len(Tail(todo)) : Tail(todo)[i].on \in {"ignore", "must"}
    OBVIOUS
  <2>1. /\ Tail(todo) \in Seq(Commands) /\ Head(todo) = todo[1] /\ Len(todo) \in Nat \ {0}
        /\ Len(Tail(todo)) = Len(todo) - 1
        /\ \A i \in 1..(Len(todo) - 1) : Tail(todo)[i] = todo[i + 1]
    BY <1>1, RestOf
  <2>2. \A i \in 1..Len(Tail(todo)) : i + 1 \in 1..Len(todo) /\ Tail(todo)[i] = todo[i + 1]
    BY <2>1
  <2>3. 1 \in 1..Len(todo)
    BY <2>1
  <2> QED
    BY <1>1, <2>1, <2>2, <2>3
<1>3. << >> \in Seq(Commands) /\ 1..Len(<< >>) = {}
  OBVIOUS
<1>4. ASSUME NEW c \in Configs, StartPfSetup(c)
      PROVE  /\ todo' \in Seq(Commands)
             /\ \A i \in 1..Len(todo') : todo'[i].on \in {"ignore", "must"}
  BY <1>4, PfPart DEF StartPfSetup, Start
<1>5. ASSUME StartPfTeardown
      PROVE  /\ todo' \in Seq(Commands)
             /\ \A i \in 1..Len(todo') : todo'[i].on \in {"ignore", "must"}
  BY <1>5, PfPart DEF StartPfTeardown, Start
<1>6. ASSUME PfStepOk
      PROVE  /\ todo' \in Seq(Commands)
             /\ \A i \in 1..Len(todo') : todo'[i].on \in {"ignore", "must"}
  BY <1>2, <1>6 DEF PfStepOk, GoOn
<1>7. ASSUME PfStepFails
      PROVE  \/ Head(todo).on = "ignore" /\ todo' = Tail(todo) /\ GoOn(Tail(todo)) /\ todo # << >>
             \/ todo' = << >> /\ result' = "failed"
  <2>1. todo # << >> /\ Head(todo).on \in {"ignore", "must"}
    BY <1>2, <1>7 DEF PfStepFails, StepFails
  <2>2. CASE Head(todo).on = "ignore"
    BY <1>7, <2>1, <2>2 DEF PfStepFails, StepFails, GoOn
  <2>3. CASE Head(todo).on = "must"
    BY <1>7, <2>1, <2>3 DEF PfStepFails, StepFails
  <2> QED
    BY <2>1, <2>2, <2>3
<1>8. ASSUME PfStepFails
      PROVE  /\ todo' \in Seq(Commands)
             /\ \A i \in 1..Len(todo') : todo'[i].on \in {"ignore", "must"}
             /\ \/ Head(todo).on = "ignore" /\ GoOn(Tail(todo))
                \/ todo' = << >> /\ result' = "failed"
  BY <1>2, <1>3, <1>7, <1>8
<1>9. ASSUME PfKilled
      PROVE  /\ todo' \in Seq(Commands)
             /\ \A i \in 1..Len(todo') : todo'[i].on \in {"ignore", "must"}
  BY <1>3, <1>9 DEF PfKilled, Killed
<1> QED
  BY <1>4, <1>5, <1>6, <1>8, <1>9 DEF PfNext

(* A command of macOS keeps the types. *)
LEMMA PfEffectTyped ==
    ASSUME Typed, NEW cmd \in Commands, PfEffect(cmd)
    PROVE  /\ forwarding' \subseteq Families /\ anchor' \in Configs \cup {NoConfig}
           /\ main' \subseteq Refs /\ enabled' \in BOOLEAN
<1>1. /\ forwarding \subseteq Families /\ anchor \in Configs \cup {NoConfig} /\ config \in Configs
      /\ main \subseteq Refs /\ enabled \in BOOLEAN /\ pf_conf \subseteq Refs
  BY DEF Typed
<1>2. cmd.op \notin AnchorOps => cmd.fam \in Families
  BY DEF Commands
<1>3. forwarding' \subseteq Families
  <2>1. cmd.op = "forward" => cmd.fam \in Families
    BY <1>2 DEF AnchorOps
  <2> QED
    BY <1>1, <2>1 DEF PfEffect
<1>4. anchor' \in Configs \cup {NoConfig} /\ main' \subseteq Refs
  BY <1>1 DEF PfEffect, main_ruleset_with_anchor_references
<1>5. enabled' \in BOOLEAN
  BY DEF PfEffect
<1> QED
  BY <1>3, <1>4, <1>5

(* So does every step there. *)
LEMMA PfNextTyped ==
    ASSUME Typed, Pfctl, platform = "macos", PfNext, UNCHANGED platform
    PROVE  Typed'
<1>0. todo' \in Seq(Commands)
  BY PfRest
<1>1. ASSUME NEW c \in Configs, StartPfSetup(c)
      PROVE  Typed'
  BY <1>1, PfPart, StartTyped DEF StartPfSetup
<1>2. CASE StartPfTeardown
  <2>1. config \in Configs
    BY DEF Typed
  <2> QED
    BY <1>2, <2>1, PfPart, StartTyped DEF StartPfTeardown
<1>3. CASE PfStepOk
  <2>1. todo # << >> /\ Head(todo) \in Commands /\ Tail(todo) \in Seq(Commands)
    <3>1. todo # << >> /\ todo \in Seq(Commands)
      BY <1>3 DEF PfStepOk, Typed
    <3> QED
      BY <3>1, RestOf
  <2>2. PfEffect(Head(todo)) /\ GoOn(Tail(todo))
    BY <1>3 DEF PfStepOk
  <2>3. UNCHANGED <<program, config, skipped, faulty, tables, rules, routing, old, pf_conf>>
    BY <1>3 DEF PfStepOk
  <2>4. /\ forwarding' \subseteq Families /\ anchor' \in Configs \cup {NoConfig}
        /\ main' \subseteq Refs /\ enabled' \in BOOLEAN
    BY <2>1, <2>2, PfEffectTyped
  <2>5. result' \in {"running", "done", "failed"} /\ (result' = "running" <=> todo' # << >>)
    BY <2>1, <2>2, GoOnTyped
  <2> QED
    BY <1>0, <2>3, <2>4, <2>5 DEF Typed
<1>4. CASE PfStepFails \/ PfKilled
  BY <1>0, <1>4, FailsTyped DEF PfStepFails, PfKilled
<1> QED
  BY <1>1, <1>2, <1>3, <1>4 DEF PfNext

(* Set-up on macOS has done, or will do, what it is to do. *)
LEMMA NextLoading ==
    ASSUME Typed, Pfctl, platform = "macos", PfNext
    PROVE  Loading'
<1>1. ASSUME NEW c \in Configs, StartPfSetup(c)
      PROVE  Loading'
  <2>1. todo' = pf_setup
    BY <1>1 DEF StartPfSetup, Start
  <2>2. Pending("load", "")' /\ Pending("reference", "")'
    <3>1. PICK i \in 1..Len(pf_setup) : pf_setup[i] = Plain("load", "", "must")
      BY Contents
    <3>2. PICK j \in 1..Len(pf_setup) : pf_setup[j] = Plain("reference", "", "must")
      BY Contents
    <3>3. /\ Plain("load", "", "must").op = "load" /\ Plain("load", "", "must").fam = ""
          /\ Plain("reference", "", "must").op = "reference" /\ Plain("reference", "", "must").fam = ""
      BY DEF Plain, Command
    <3>4. /\ pf_setup[i].op = "load" /\ pf_setup[i].fam = ""
          /\ pf_setup[j].op = "reference" /\ pf_setup[j].fam = ""
      BY <3>1, <3>2, <3>3
    <3> QED
      BY <2>1, <3>4 DEF Pending
  <2> QED
    BY <2>1, <2>2, PfPart DEF Loading
<1>2. CASE StartPfTeardown
  BY <1>2 DEF StartPfTeardown, Start, Loading
<1>3. CASE todo # << >> /\ program' = program /\ todo' = << >> /\ result' = "failed"
  <2>1. 1..Len(todo') = {}
    BY <1>3
  <2> QED
    BY <1>3, <2>1 DEF Loading
<1>4. CASE /\ todo # << >> /\ UNCHANGED <<program, config, pf_conf>> /\ todo' = Tail(todo)
           /\ \/ PfEffect(Head(todo))
              \/ Head(todo).on = "ignore" /\ UNCHANGED pf
  <2> SUFFICES ASSUME program = "setup"
               PROVE  Loading'
    BY <1>4 DEF Loading
  <2>1. /\ todo \in Seq(Commands) /\ pf_conf \subseteq Refs /\ result = "running"
    BY <1>4 DEF Typed
  <2>2. /\ Head(todo) = todo[1] /\ Len(todo) \in Nat \ {0} /\ Len(todo') = Len(todo) - 1
        /\ \A i \in 1..(Len(todo) - 1) : todo'[i] = todo[i + 1]
    BY <1>4, <2>1, RestOf
  <2>3. /\ \A i \in 1..Len(todo) :
              /\ todo[i].op \in {"forward", "load", "reference", "enable"}
              /\ todo[i].on = "ignore" => todo[i].op = "enable"
        /\ anchor = config \/ Pending("load", "")
        /\ Refs \subseteq main \/ Pending("reference", "")
    <3>1. Loading
      BY DEF Pfctl
    <3>2. result # "failed"
      BY <2>1
    <3> QED
      BY <3>1, <3>2 DEF Loading
  <2>4. ASSUME NEW i \in 1..Len(todo')
        PROVE  /\ todo'[i].op \in {"forward", "load", "reference", "enable"}
               /\ todo'[i].on = "ignore" => todo'[i].op = "enable"
    <3>1. i + 1 \in 1..Len(todo) /\ todo'[i] = todo[i + 1]
      BY <2>2
    <3> QED
      BY <2>3, <3>1
  <2>5. 1 \in 1..Len(todo)
    BY <2>2
  <2>6. /\ Head(todo).op \in {"forward", "load", "reference", "enable"}
        /\ Head(todo).on = "ignore" => Head(todo).op = "enable"
    BY <2>2, <2>3, <2>5
  <2>7. anchor' = config' \/ Pending("load", "")'
    <3>1. CASE Head(todo).op = "load"
      BY <1>4, <2>6, <3>1 DEF PfEffect
    <3>2. CASE Head(todo).op # "load"
      <4>1. anchor' = anchor
        BY <1>4, <2>6, <3>2 DEF PfEffect, pf
      <4>2. Pending("load", "") => Pending("load", "")'
        BY <1>4, <2>1, <3>2, StillPending
      <4> QED
        BY <1>4, <2>3, <4>1, <4>2
    <3> QED
      BY <3>1, <3>2
  <2>8. Refs \subseteq main' \/ Pending("reference", "")'
    <3>1. CASE Head(todo).op = "reference"
      BY <1>4, <2>1, <2>6, <3>1 DEF PfEffect, anchor_referenced, main_ruleset_with_anchor_references
    <3>2. CASE Head(todo).op # "reference"
      <4>1. main' = main
        BY <1>4, <2>6, <3>2 DEF PfEffect, pf
      <4>2. Pending("reference", "") => Pending("reference", "")'
        BY <1>4, <2>1, <3>2, StillPending
      <4> QED
        BY <2>3, <4>1, <4>2
    <3> QED
      BY <3>1, <3>2
  <2> QED
    BY <2>4, <2>7, <2>8 DEF Loading
<1>5. CASE PfStepOk
  BY <1>4, <1>5 DEF PfStepOk, GoOn
<1>6. CASE PfStepFails /\ Head(todo).on = "ignore" /\ GoOn(Tail(todo))
  BY <1>4, <1>6 DEF PfStepFails, StepFails, GoOn, pf
<1>7. CASE (PfStepFails /\ todo' = << >> /\ result' = "failed") \/ PfKilled
  BY <1>3, <1>7 DEF PfStepFails, StepFails, PfKilled, Killed
<1> QED
  BY <1>1, <1>2, <1>5, <1>6, <1>7, PfRest

(* What the invariant says of macOS is preserved. *)
LEMMA NextPfctl ==
    ASSUME Typed, Pfctl, platform = "macos", PfNext
    PROVE  Pfctl'
<1>1. tables = {} /\ rules = NoRules /\ routing = {}
  BY DEF Pfctl
<1>2. UNCHANGED <<tables, rules, routing>>
  BY DEF PfNext, StartPfSetup, StartPfTeardown, Start, PfStepOk, PfStepFails, StepFails, PfKilled, Killed,
         kernel
<1>3. \A i \in 1..Len(todo') : todo'[i].on \in {"ignore", "must"}
  BY PfRest
<1> QED
  BY <1>1, <1>2, <1>3, NextLoading DEF Pfctl

(* Teardown, on either platform. *)
LEMMA StartDemolishing ==
    ASSUME FirewallInv, \/ platform = "linux" /\ StartTeardown /\ UNCHANGED pf
                        \/ platform = "macos" /\ StartPfTeardown
    PROVE  Demolishing'
<1>1. /\ UNCHANGED <<tables, forwarding, routing, anchor, main, pf_conf>>
      /\ tables \subseteq Families /\ forwarding \subseteq Families
  BY DEF StartTeardown, StartPfTeardown, Start, kernel, pf, FirewallInv, Typed
<1>2. ASSUME NEW f \in Families, NEW op, NEW on, NEW i \in 1..Len(todo'), todo'[i] = Plain(op, f, on)
      PROVE  Pending(op, f)'
  <2>1. Plain(op, f, on).op = op /\ Plain(op, f, on).fam = f
    BY DEF Plain, Command
  <2> QED
    BY <1>2, <2>1 DEF Pending
<1>3. CASE platform = "linux"
  <2>1. todo' = teardown
    BY <1>3 DEF StartTeardown, Start
  <2>2. anchor = NoConfig /\ main = pf_conf
    BY <1>3 DEF FirewallInv, Nft
  <2>3. ASSUME NEW f \in Families
        PROVE  /\ Pending("delete", f)' /\ Pending("rule del", f)'
               /\ Pending("route flush", f)' /\ Pending("unforward", f)'
    <3>1. /\ \E i \in 1..Len(todo') : todo'[i] = Plain("delete", f, "ignore")
          /\ \E i \in 1..Len(todo') : todo'[i] = Plain("rule del", f, "ignore")
          /\ \E i \in 1..Len(todo') : todo'[i] = Plain("route flush", f, "ignore")
          /\ \E i \in 1..Len(todo'), on \in Severity : todo'[i] = Plain("unforward", f, on)
      BY <2>1, Contents
    <3> QED
      BY <1>2, <3>1
  <2>4. \A i \in 1..Len(todo') : todo'[i].op \in Removing
    BY <2>1, TeardownPart
  <2> QED
    BY <1>1, <2>2, <2>3, <2>4 DEF Demolishing
<1>4. CASE platform = "macos"
  <2>1. todo' = pf_teardown
    BY <1>4 DEF StartPfTeardown, Start
  <2>2. tables = {} /\ routing = {}
    BY <1>4 DEF FirewallInv, Pfctl
  <2>3. ASSUME NEW f \in Families
        PROVE  Pending("unforward", f)'
    <3>1. \E i \in 1..Len(todo'), on \in Severity : todo'[i] = Plain("unforward", f, on)
      BY <2>1, Contents
    <3> QED
      BY <1>2, <3>1
  <2>4. Pending("flush", "")' /\ Pending("restore", "")'
    <3>1. PICK i \in 1..Len(todo') : todo'[i] = Plain("flush", "", "ignore")
      BY <2>1, Contents
    <3>2. PICK j \in 1..Len(todo') : todo'[j] = Plain("restore", "", "ignore")
      BY <2>1, Contents
    <3>3. /\ Plain("flush", "", "ignore").op = "flush" /\ Plain("flush", "", "ignore").fam = ""
          /\ Plain("restore", "", "ignore").op = "restore" /\ Plain("restore", "", "ignore").fam = ""
      BY DEF Plain, Command
    <3> QED
      BY <3>1, <3>2, <3>3 DEF Pending
  <2>5. \A i \in 1..Len(todo') : todo'[i].op \in Removing
    BY <2>1, PfPart
  <2> QED
    BY <1>1, <2>2, <2>3, <2>4, <2>5 DEF Demolishing
<1> QED
  BY <1>3, <1>4

(* A command of a teardown removes what it is for, so that it need not be pending any more. *)
LEMMA RestDemolishing ==
    ASSUME FirewallInv, todo # << >>, todo' = Tail(todo), UNCHANGED <<program, faulty, pf_conf>>,
           \/ platform = "linux" /\ Effect(Head(todo)) /\ UNCHANGED pf
           \/ platform = "macos" /\ PfEffect(Head(todo)) /\ UNCHANGED <<tables, routing>>
    PROVE  Demolishing'
<1> SUFFICES ASSUME program = "teardown", ~faulty
             PROVE  Demolishing'
  BY DEF Demolishing
<1> DEFINE cmd == Head(todo)
<1>1. todo \in Seq(Commands) /\ result = "running" /\ tables \subseteq Families
  BY DEF FirewallInv, Typed
<1>2. /\ cmd \in Commands /\ cmd = todo[1] /\ Len(todo) \in Nat \ {0} /\ Len(todo') = Len(todo) - 1
      /\ \A i \in 1..(Len(todo) - 1) : todo'[i] = todo[i + 1]
  BY <1>1, RestOf
<1>3. result # "failed"
  BY <1>1
<1>4. /\ \A i \in 1..Len(todo) : todo[i].op \in Removing
      /\ \A f \in tables : Pending("delete", f)
      /\ \A f \in forwarding : Pending("unforward", f)
      /\ \A f \in Families :
            /\ <<f, "rule">> \in routing => Pending("rule del", f)
            /\ <<f, "route">> \in routing => Pending("route flush", f)
      /\ anchor # NoConfig => Pending("flush", "")
      /\ main # pf_conf => Pending("restore", "")
  BY <1>3 DEF FirewallInv, Demolishing
<1> HIDE DEF cmd
<1>5. ASSUME NEW op, NEW f, Pending(op, f), ~(cmd.op = op /\ cmd.fam = f)
      PROVE  Pending(op, f)'
  BY <1>1, <1>5, StillPending DEF cmd
<1>6. cmd.op \in Removing
  <2>1. 1 \in 1..Len(todo)
    BY <1>2
  <2> QED
    BY <1>2, <1>4, <2>1
<1>7. \A i \in 1..Len(todo') : todo'[i].op \in Removing
  <2>1. \A i \in 1..Len(todo') : i + 1 \in 1..Len(todo) /\ todo'[i] = todo[i + 1]
    BY <1>2
  <2> QED
    BY <1>4, <2>1
<1>8. ASSUME platform = "linux", Effect(cmd), UNCHANGED pf
      PROVE  Demolishing'
  <2>1. \A f \in tables' : f \in tables /\ ~(cmd.op = "delete" /\ cmd.fam = f)
    BY <1>6, <1>8 DEF Effect, Removing
  <2>2. \A f \in forwarding' : f \in forwarding /\ ~(cmd.op = "unforward" /\ cmd.fam = f)
    BY <1>6, <1>8 DEF Effect, Removing
  <2>3. \A f \in Families :
           /\ <<f, "rule">> \in routing' => <<f, "rule">> \in routing /\ ~(cmd.op = "rule del" /\ cmd.fam = f)
           /\ <<f, "route">> \in routing' => <<f, "route">> \in routing /\ ~(cmd.op = "route flush" /\ cmd.fam = f)
    <3>1. routing' = CASE cmd.op = "rule del"    -> routing \ {<<cmd.fam, "rule">>}
                       [] cmd.op = "route flush" -> routing \ {<<cmd.fam, "route">>}
                       [] OTHER                  -> routing
      BY <1>6, <1>8 DEF Effect, Removing
    <3> QED
      BY <3>1
  <2>4. anchor' = NoConfig /\ main' = pf_conf'
    BY <1>8 DEF pf, FirewallInv, Nft
  <2> QED
    BY <1>4, <1>5, <1>7, <2>1, <2>2, <2>3, <2>4 DEF Demolishing
<1>9. ASSUME platform = "macos", PfEffect(cmd), UNCHANGED <<tables, routing>>
      PROVE  Demolishing'
  <2>1. tables' = {} /\ routing' = {}
    BY <1>9 DEF FirewallInv, Pfctl
  <2>2. \A f \in forwarding' : f \in forwarding /\ ~(cmd.op = "unforward" /\ cmd.fam = f)
    BY <1>6, <1>9 DEF PfEffect, Removing
  <2>3. anchor' # NoConfig => anchor # NoConfig /\ cmd.op # "flush"
    BY <1>6, <1>9 DEF PfEffect, Removing
  <2>4. main' # pf_conf' => main # pf_conf /\ cmd.op # "restore"
    BY <1>6, <1>9 DEF PfEffect, Removing
  <2> QED
    BY <1>4, <1>5, <1>7, <2>1, <2>2, <2>3, <2>4 DEF Demolishing
<1> QED
  BY <1>8, <1>9 DEF cmd

(* A teardown of which nothing has failed keeps its promise. *)
LEMMA NextDemolishing ==
    ASSUME FirewallInv, AnyNext
    PROVE  Demolishing'
<1>1. CASE (\E c \in Configs : StartSetup(c)) \/ (\E c \in Configs : StartPfSetup(c))
  BY <1>1 DEF StartSetup, StartPfSetup, Start, Demolishing
<1>2. CASE \/ platform = "linux" /\ StartTeardown /\ UNCHANGED pf
           \/ platform = "macos" /\ StartPfTeardown
  BY <1>2, StartDemolishing
<1>3. CASE platform = "linux" /\ StepOk /\ UNCHANGED pf
  BY <1>3, RestDemolishing DEF StepOk, GoOn, pf
<1>4. CASE platform = "macos" /\ PfStepOk
  BY <1>4, RestDemolishing DEF PfStepOk, GoOn
<1>5. CASE StepFails \/ Killed \/ PfStepFails \/ PfKilled
  BY <1>5 DEF StepFails, Killed, PfStepFails, PfKilled, Demolishing
<1> QED
  BY <1>1, <1>2, <1>3, <1>4, <1>5 DEF AnyNext, Next, PfNext

(* What is in the first part of a sequence is in the sequence. *)
LEMMA FirstPartPending ==
    ASSUME NEW S, NEW s \in Seq(S), NEW t \in Seq(S), NEW x, \E i \in 1..Len(s) : s[i] = x
    PROVE  \E i \in 1..Len(s \o t) : (s \o t)[i] = x
  OBVIOUS

(* Set-up begins with the deletion of both tables. *)
LEMMA SetupDeletes ==
    ASSUME NEW c \in Configs, NEW f \in Families
    PROVE  \E i \in 1..Len(setup(c)) : setup(c)[i] = Plain("delete", f, "ignore")
<1> DEFINE E == DeleteTables
           W == <<Plain("forward", "ip", "must"), Plain("forward", "ip6", "ignore")>>
           V == setup_family(c, "ip")
           A == AfterFamily(c, "ip")
           x == Plain("delete", f, "ignore")
<1>1. setup(c) = E \o W \o V \o A /\ "ip" \in Families
  BY DEF setup, Families
<1>2. E \o W \in Seq(Commands) /\ V \in Seq(Commands) /\ A \in Seq(Commands)
  BY <1>1, PreparePart, FamilyPart, AfterFamilyPart DEF Block
<1>3. \E i \in 1..Len(E \o W) : (E \o W)[i] = x
  <2> DEFINE a == Plain("delete", "ip", "ignore")  b == Plain("delete", "ip6", "ignore")
             d == Plain("forward", "ip", "must")   e == Plain("forward", "ip6", "ignore")
  <2>1. E \o W = <<a, b>> \o <<d, e>>
    BY DEF DeleteTables
  <2>2. x = a \/ x = b
    BY DEF Families
  <2> HIDE DEF E, W, a, b, d, e, x
  <2>3. (E \o W)[1] = a /\ (E \o W)[2] = b /\ Len(E \o W) = 4
    BY <2>1
  <2> QED
    BY <2>2, <2>3
<1> HIDE DEF E, W, V, A, x
<1>4. \E i \in 1..Len(E \o W \o V) : (E \o W \o V)[i] = x
  BY <1>2, <1>3, FirstPartPending
<1>5. \E i \in 1..Len(E \o W \o V \o A) : (E \o W \o V \o A)[i] = x
  <2>1. E \o W \o V \in Seq(Commands)
    BY <1>2
  <2> QED
    BY <1>2, <1>4, <2>1, FirstPartPending
<1> QED
  BY <1>1, <1>5 DEF x

(* A set-up of which nothing has failed has deleted the old tables, or will. *)
LEMMA NextRenewing ==
    ASSUME FirewallInv, AnyNext
    PROVE  Renewing'
<1>1. ASSUME NEW c \in Configs, StartSetup(c)
      PROVE  Renewing'
  <2>1. todo' = setup(c) /\ old' \subseteq Families
    BY <1>1 DEF StartSetup, Start, FirewallInv, Typed
  <2>2. ASSUME NEW f \in old'
        PROVE  Pending("delete", f)'
    <3>1. PICK i \in 1..Len(todo') : todo'[i] = Plain("delete", f, "ignore")
      BY <2>1, <2>2, SetupDeletes
    <3>2. Plain("delete", f, "ignore").op = "delete" /\ Plain("delete", f, "ignore").fam = f
      BY DEF Plain, Command
    <3> QED
      BY <3>1, <3>2 DEF Pending
  <2> QED
    BY <2>2 DEF Renewing
<1>2. CASE platform = "macos"
  <2>1. tables = {}
    BY <1>2 DEF FirewallInv, Pfctl
  <2>2. old' = {}
    <3>1. old = {}
      BY <2>1 DEF FirewallInv, Typed
    <3>2. PfNext
      BY <1>2 DEF AnyNext
    <3>3. old' = old \/ old' = tables
      BY <3>2 DEF PfNext, StartPfSetup, StartPfTeardown, Start, PfStepOk, PfStepFails, StepFails,
                 PfKilled, Killed
    <3> QED
      BY <2>1, <3>1, <3>3
  <2> QED
    BY <2>2 DEF Renewing
<1>3. CASE StartTeardown
  BY <1>3 DEF StartTeardown, Start, Renewing
<1>4. CASE StepOk
  <2> SUFFICES ASSUME program' = "setup", ~faulty', NEW f \in old'
               PROVE  Pending("delete", f)'
    BY DEF Renewing
  <2>1. /\ todo # << >> /\ todo' = Tail(todo) /\ program = "setup" /\ ~faulty /\ Effect(Head(todo))
        /\ todo \in Seq(Commands) /\ result = "running"
    BY <1>4 DEF StepOk, GoOn, FirewallInv, Typed
  <2>2. f \in old /\ ~(Head(todo).op = "delete" /\ Head(todo).fam = f)
    BY <2>1 DEF Effect
  <2>3. result # "failed"
    BY <2>1
  <2>4. Pending("delete", f)
    BY <2>1, <2>2, <2>3 DEF FirewallInv, Renewing
  <2> QED
    BY <2>1, <2>2, <2>4, StillPending
<1>5. CASE StepFails \/ Killed
  BY <1>5 DEF StepFails, Killed, Renewing
<1> QED
  BY <1>1, <1>2, <1>3, <1>4, <1>5 DEF AnyNext, Next

-----------------------------------------------------------------------------
(***************************************************************************)
(* The invariant holds, and so do the types.                               *)
(***************************************************************************)

(* The invariant holds at first, *)
LEMMA InitInv == AnyInit => FirewallInv
<1> SUFFICES ASSUME AnyInit
             PROVE  FirewallInv
  OBVIOUS
<1>1. /\ tables = {} /\ rules = NoRules /\ routing = {} /\ forwarding = {} /\ old = {}
      /\ program = "none" /\ config \in Configs /\ todo = << >> /\ result = "done"
      /\ skipped = FALSE /\ faulty = FALSE
      /\ anchor = NoConfig /\ pf_conf \subseteq Refs /\ main = pf_conf /\ enabled \in BOOLEAN
      /\ platform \in {"linux", "macos"}
  BY DEF AnyInit, Init, PfInit
<1>2. todo \in Seq(Commands) /\ Len(todo) = 0 /\ 1..Len(todo) = {}
  BY <1>1
<1>3. Typed
  <2>1. rules \in [Families -> [Chains -> Seq(Rule)]]
    BY <1>1 DEF NoRules
  <2> QED
    BY <1>1, <1>2, <2>1 DEF Typed
<1>4. Building
  <2>1. \A f \in Families : ~Unhindered(f)
    BY <1>1 DEF Unhindered
  <2>2. ASSUME NEW f \in Families, NEW ch \in Chains
        PROVE  \E n \in 0..Len(Full(config, f, ch)) : UpTo(f, ch, n)
    <3>1. 0 \in 0..Len(Full(config, f, ch))
      BY <1>3, FullLength
    <3>2. Silent(todo, f, ch)
      BY <1>2 DEF Silent
    <3>3. Emits(todo, f, ch, Full(config, f, ch), 0, 0)
      <4>1. todo \in Seq(Commands) /\ 0 \in Nat
        BY <1>2
      <4> QED
        BY <3>2, <4>1, SilentEmitsNone
    <3>4. rules[f][ch] = << >>
      BY <1>1 DEF NoRules
    <3>5. Lines(f, ch, 0, 0)
      BY <3>3, <3>4 DEF Lines
    <3> QED
      BY <3>1, <3>5 DEF UpTo
  <2> QED
    BY <2>1, <2>2 DEF Building
<1>5. Ordered /\ MarkedFirst
  <2>1. "output" \in Chains
    BY DEF Chains
  <2> QED
    BY <1>1, <1>2, <2>1 DEF Ordered, Sorted, MarkedFirst, NoRules
<1>6. Nft /\ Pfctl /\ Demolishing /\ Renewing
  BY <1>1, <1>2, <1>4, <1>5 DEF Nft, Pfctl, Loading, Demolishing, Renewing
<1> QED
  BY <1>3, <1>6 DEF FirewallInv

(* is preserved by every step, *)
LEMMA NextInv == FirewallInv /\ [AnyNext]_<<vars, pf, platform>> => FirewallInv'
<1> SUFFICES ASSUME FirewallInv, [AnyNext]_<<vars, pf, platform>>
             PROVE  FirewallInv'
  OBVIOUS
<1>1. CASE UNCHANGED <<vars, pf, platform>>
  <2>1. UNCHANGED <<tables, rules, routing, forwarding, program, config, todo, result, skipped, faulty, old,
                    anchor, main, pf_conf, enabled, platform>>
    BY <1>1 DEF vars, kernel, pf
  <2>2. Typed' /\ Demolishing' /\ Renewing'
    <3>0. \A op, f : Pending(op, f) <=> Pending(op, f)'
      BY <2>1 DEF Pending
    <3>1. Typed'
      BY <2>1 DEF FirewallInv, Typed
    <3>2. Demolishing'
      <4>1. Demolishing
        BY DEF FirewallInv
      <4> QED
        BY <2>1, <3>0, <4>1 DEF Demolishing
    <3>3. Renewing'
      BY <2>1, <3>0 DEF FirewallInv, Renewing
    <3> QED
      BY <3>1, <3>2, <3>3
  <2>3. Nft'
    <3>1. Building <=> Building'
      BY <2>1 DEF Building, UpTo, Lines, Whole, Covered, Unhindered
    <3>2. Ordered <=> Ordered'
      BY <2>1 DEF Ordered
    <3> QED
      BY <2>1, <3>1, <3>2 DEF FirewallInv, Nft, MarkedFirst
  <2>4. Pfctl'
    BY <2>1 DEF FirewallInv, Pfctl, Loading, Pending
  <2> QED
    BY <2>2, <2>3, <2>4 DEF FirewallInv
<1>2. CASE platform = "linux" /\ Next /\ UNCHANGED <<pf, platform>>
  <2>1. Typed /\ Ordered /\ Building /\ MarkedFirst /\ anchor = NoConfig /\ main = pf_conf
    BY <1>2 DEF FirewallInv, Nft
  <2>2. Typed' /\ Ordered' /\ Building' /\ MarkedFirst'
    BY <1>2, <2>1, NextTyped, NextOrdered, NextBuilding, NextMarkedFirst
  <2>3. anchor' = NoConfig /\ main' = pf_conf' /\ platform' = "linux"
    BY <1>2, <2>1 DEF pf
  <2> QED
    BY <1>2, <2>2, <2>3, NextDemolishing, NextRenewing DEF FirewallInv, Nft, Pfctl, AnyNext
<1>3. CASE platform = "macos" /\ PfNext /\ UNCHANGED platform
  <2>1. Typed /\ Pfctl
    BY DEF FirewallInv
  <2>2. Typed' /\ Pfctl' /\ platform' = "macos"
    BY <1>3, <2>1, PfNextTyped, NextPfctl
  <2> QED
    BY <1>3, <2>2, NextDemolishing, NextRenewing DEF FirewallInv, Nft, AnyNext
<1> QED
  BY <1>1, <1>2, <1>3 DEF AnyNext

(* and therefore holds always. *)
LEMMA FirewallInvAlways == AnySpec => []FirewallInv
  BY InitInv, NextInv, PTL DEF AnySpec

(* It contains the types. *)
LEMMA InvTypeOK == FirewallInv => TypeOK
<1> SUFFICES ASSUME FirewallInv
             PROVE  TypeOK
  OBVIOUS
<1>1. Typed
  BY DEF FirewallInv
<1>2. \A f \in Families, c \in Chains : \A i \in DOMAIN rules[f][c] : rules[f][c][i] \in Rule
  <2> SUFFICES ASSUME NEW f \in Families, NEW c \in Chains, NEW i \in DOMAIN rules[f][c]
               PROVE  rules[f][c][i] \in Rule
    OBVIOUS
  <2>1. rules[f][c] \in Seq(Rule)
    BY <1>1 DEF Typed
  <2> QED
    BY <2>1
<1>3. \A i \in DOMAIN todo : todo[i].fam \in Families \cup {""} /\ todo[i].on \in Severity
  <2> SUFFICES ASSUME NEW i \in DOMAIN todo
               PROVE  todo[i].fam \in Families \cup {""} /\ todo[i].on \in Severity
    OBVIOUS
  <2>1. todo \in Seq(Commands)
    BY <1>1 DEF Typed
  <2>2. todo[i] \in Commands
    BY <2>1
  <2> QED
    BY <2>2 DEF Commands
<1> QED
  BY <1>1, <1>2, <1>3 DEF Typed, TypeOK

(* The kernel's tables and the program (nftables.rs, setup and teardown) keep
   their types, and a family without a table has no rules. *)
THEOREM TypeCorrect == AnySpec => []TypeOK
  BY FirewallInvAlways, InvTypeOK, PTL

(* A teardown none of whose commands fails leaves no table, rule, route, anchor
   or forwarding behind (nftables.rs, teardown; pf.rs, teardown): whatever an
   earlier set-up left, a command that removes it is still to come. *)
THEOREM TeardownIsCompleteAlways == AnySpec => []TeardownIsComplete
<1>1. FirewallInv => TeardownIsComplete
  <2> SUFFICES ASSUME FirewallInv, program = "teardown", result = "done", ~faulty
               PROVE  /\ tables = {} /\ rules = NoRules /\ routing = {} /\ forwarding = {}
                      /\ anchor = NoConfig /\ main = pf_conf
    BY DEF TeardownIsComplete
  <2>1. Typed /\ todo = << >>
    BY DEF FirewallInv, Typed
  <2>2. \A op, f : ~Pending(op, f)
    <3>1. 1..Len(todo) = {}
      BY <2>1
    <3> QED
      BY <3>1 DEF Pending
  <2>3. /\ tables = {} /\ forwarding = {} /\ anchor = NoConfig /\ main = pf_conf
        /\ \A f \in Families : <<f, "rule">> \notin routing /\ <<f, "route">> \notin routing
    BY <2>2 DEF FirewallInv, Demolishing
  <2>4. routing = {}
    <3>1. routing \subseteq Families \X {"rule", "route"}
      BY <2>1 DEF Typed
    <3>2. \A x \in Families \X {"rule", "route"} :
             \E f \in Families : x = <<f, "rule">> \/ x = <<f, "route">>
      OBVIOUS
    <3> QED
      BY <2>3, <3>1, <3>2
  <2>5. rules = NoRules
    <3>1. rules \in [Families -> [Chains -> Seq(Rule)]] /\ \A f \in Families : rules[f] = NoRules[f]
      BY <2>1, <2>3 DEF Typed
    <3> QED
      BY <3>1 DEF NoRules
  <2> QED
    BY <2>3, <2>4, <2>5
<1> QED
  BY <1>1, FirewallInvAlways, PTL

-----------------------------------------------------------------------------
(***************************************************************************)
(* The first rule that matches.  M is the set of the rules that match a     *)
(* packet.                                                                 *)
(***************************************************************************)

Hit(F, M, v) ==
    \E i \in 1..Len(F) : F[i] \in M /\ F[i].verdict = v /\ \A j \in 1..(i - 1) : F[j] \notin M

Miss(F, M) == \A i \in 1..Len(F) : F[i] \notin M

(* Some rule is the first to match, unless none matches. *)
LEMMA HitOrMiss ==
    ASSUME NEW S, NEW F \in Seq(S), NEW M, ~Miss(F, M)
    PROVE  \E v : Hit(F, M, v)
<1> DEFINE hits == {i \in 1..Len(F) : F[i] \in M}
<1>1. Len(F) \in Nat
  OBVIOUS
<1>2. hits \in SUBSET Nat /\ hits # {}
  BY <1>1 DEF Miss
<1> DEFINE k == Min(hits)
<1>3. k \in hits /\ \A j \in hits : k =< j
  <2> HIDE DEF hits
  <2> QED
    BY <1>2, MinIsLeast
<1> HIDE DEF k
<1>4. \A j \in 1..(k - 1) : j \in 1..Len(F) /\ j < k
  BY <1>1, <1>3
<1>5. \A j \in 1..(k - 1) : F[j] \notin M
  BY <1>1, <1>3, <1>4
<1>6. Hit(F, M, F[k].verdict)
  BY <1>3, <1>5 DEF Hit
<1> QED
  BY <1>6

(* Only one is. *)
LEMMA HitUnique ==
    ASSUME NEW S, NEW F \in Seq(S), NEW M, NEW v, Hit(F, M, v)
    PROVE  ~Miss(F, M) /\ \A w : Hit(F, M, w) => w = v
<1>1. PICK i \in 1..Len(F) : F[i] \in M /\ F[i].verdict = v /\ \A j \in 1..(i - 1) : F[j] \notin M
  BY DEF Hit
<1>2. ASSUME NEW w, Hit(F, M, w)
      PROVE  w = v
  <2>1. PICK k \in 1..Len(F) : F[k] \in M /\ F[k].verdict = w /\ \A j \in 1..(k - 1) : F[j] \notin M
    BY <1>2 DEF Hit
  <2>2. ~(i < k) /\ ~(k < i)
    <3>1. i < k => i \in 1..(k - 1)
      OBVIOUS
    <3>2. k < i => k \in 1..(i - 1)
      OBVIOUS
    <3> QED
      BY <1>1, <2>1, <3>1, <3>2
  <2>3. i = k
    BY <2>2
  <2> QED
    BY <1>1, <2>1, <2>3
<1> QED
  BY <1>1, <1>2 DEF Miss

(* One part of a chain after the other. *)
LEMMA MissConcat ==
    ASSUME NEW S, NEW s \in Seq(S), NEW t \in Seq(S), NEW M
    PROVE  Miss(s \o t, M) <=> Miss(s, M) /\ Miss(t, M)
<1> DEFINE u == s \o t
<1>1. /\ Len(u) = Len(s) + Len(t) /\ Len(s) \in Nat /\ Len(t) \in Nat
      /\ \A i \in 1..Len(s) : u[i] = s[i]
      /\ \A i \in 1..Len(t) : u[Len(s) + i] = t[i]
      /\ \A i \in 1..Len(u) :
            \/ i \in 1..Len(s) /\ u[i] = s[i]
            \/ i > Len(s) /\ i - Len(s) \in 1..Len(t) /\ u[i] = t[i - Len(s)]
  BY ConcatAt
<1> HIDE DEF u
<1>2. Miss(s, M) /\ Miss(t, M) => Miss(u, M)
  BY <1>1 DEF Miss
<1>3. Miss(u, M) => Miss(s, M)
  <2>1. \A i \in 1..Len(s) : i \in 1..Len(u)
    BY <1>1
  <2> QED
    BY <1>1, <2>1 DEF Miss
<1>4. Miss(u, M) => Miss(t, M)
  <2>1. \A i \in 1..Len(t) : Len(s) + i \in 1..Len(u)
    BY <1>1
  <2> QED
    BY <1>1, <2>1 DEF Miss
<1> QED
  BY <1>2, <1>3, <1>4 DEF u

(* The second part decides about what the first does not match. *)
LEMMA HitConcat ==
    ASSUME NEW S, NEW s \in Seq(S), NEW t \in Seq(S), NEW M, NEW v
    PROVE  Hit(s \o t, M, v) <=> Hit(s, M, v) \/ (Miss(s, M) /\ Hit(t, M, v))
<1> DEFINE u == s \o t
<1>1. /\ Len(u) = Len(s) + Len(t) /\ Len(s) \in Nat /\ Len(t) \in Nat
      /\ \A i \in 1..Len(s) : u[i] = s[i]
      /\ \A i \in 1..Len(t) : u[Len(s) + i] = t[i]
      /\ \A i \in 1..Len(u) :
            \/ i \in 1..Len(s) /\ u[i] = s[i]
            \/ i > Len(s) /\ i - Len(s) \in 1..Len(t) /\ u[i] = t[i - Len(s)]
  BY ConcatAt
<1> HIDE DEF u
<1>2. ASSUME Hit(s, M, v)
      PROVE  Hit(u, M, v)
  <2>1. PICK i \in 1..Len(s) : s[i] \in M /\ s[i].verdict = v /\ \A j \in 1..(i - 1) : s[j] \notin M
    BY <1>2 DEF Hit
  <2>2. i \in 1..Len(u) /\ u[i] = s[i] /\ \A j \in 1..(i - 1) : j \in 1..Len(s) /\ u[j] = s[j]
    BY <1>1
  <2> QED
    BY <2>1, <2>2 DEF Hit
<1>3. ASSUME Miss(s, M), Hit(t, M, v)
      PROVE  Hit(u, M, v)
  <2>1. PICK i \in 1..Len(t) : t[i] \in M /\ t[i].verdict = v /\ \A j \in 1..(i - 1) : t[j] \notin M
    BY <1>3 DEF Hit
  <2>2. Len(s) + i \in 1..Len(u) /\ u[Len(s) + i] = t[i]
    BY <1>1
  <2>3. ASSUME NEW j \in 1..(Len(s) + i - 1)
        PROVE  u[j] \notin M
    <3>1. j \in 1..Len(u)
      BY <1>1
    <3>2. CASE j \in 1..Len(s) /\ u[j] = s[j]
      BY <1>3, <3>2 DEF Miss
    <3>3. CASE j > Len(s) /\ j - Len(s) \in 1..Len(t) /\ u[j] = t[j - Len(s)]
      <4>1. j - Len(s) \in 1..(i - 1)
        BY <1>1, <3>3
      <4> QED
        BY <2>1, <3>3, <4>1
    <3> QED
      BY <1>1, <3>1, <3>2, <3>3
  <2> QED
    BY <2>1, <2>2, <2>3 DEF Hit
<1>4. ASSUME Hit(u, M, v)
      PROVE  Hit(s, M, v) \/ (Miss(s, M) /\ Hit(t, M, v))
  <2>1. PICK i \in 1..Len(u) : u[i] \in M /\ u[i].verdict = v /\ \A j \in 1..(i - 1) : u[j] \notin M
    BY <1>4 DEF Hit
  <2>2. CASE i \in 1..Len(s) /\ u[i] = s[i]
    <3>1. \A j \in 1..(i - 1) : j \in 1..Len(s) /\ u[j] = s[j]
      BY <1>1, <2>2
    <3>2. \A j \in 1..(i - 1) : s[j] \notin M
      BY <2>1, <3>1
    <3> QED
      BY <2>1, <2>2, <3>2 DEF Hit
  <2>3. CASE i > Len(s) /\ i - Len(s) \in 1..Len(t) /\ u[i] = t[i - Len(s)]
    <3>1. \A j \in 1..Len(s) : j \in 1..(i - 1) /\ u[j] = s[j]
      BY <1>1, <2>3
    <3>2. Miss(s, M)
      BY <2>1, <3>1 DEF Miss
    <3>3. ASSUME NEW j \in 1..(i - Len(s) - 1)
          PROVE  t[j] \notin M
      <4>1. Len(s) + j \in 1..(i - 1) /\ j \in 1..Len(t) /\ u[Len(s) + j] = t[j]
        BY <1>1, <2>3
      <4> QED
        BY <2>1, <4>1
    <3>4. Hit(t, M, v)
      BY <2>1, <2>3, <3>3 DEF Hit
    <3> QED
      BY <3>2, <3>4
  <2> QED
    BY <1>1, <2>2, <2>3
<1> QED
  BY <1>2, <1>3, <1>4 DEF u

(* Chains of one rule, of none, and of rules with one verdict. *)
LEMMA OneRule ==
    ASSUME NEW r, NEW M
    PROVE  /\ Miss(<<r>>, M) <=> r \notin M
           /\ \A v : Hit(<<r>>, M, v) <=> r \in M /\ v = r.verdict
<1> DEFINE F == <<r>>
<1>1. Len(F) = 1 /\ F[1] = r /\ 1..(1 - 1) = {} /\ 1..1 = {1}
  OBVIOUS
<1> HIDE DEF F
<1>2. Miss(F, M) <=> r \notin M
  BY <1>1 DEF Miss
<1>3. \A v : Hit(F, M, v) <=> r \in M /\ v = r.verdict
  BY <1>1 DEF Hit
<1> QED
  BY <1>2, <1>3 DEF F

(* No rules match nothing. *)
LEMMA NoRules0 ==
    ASSUME NEW M
    PROVE  Miss(<< >>, M) /\ \A v : ~Hit(<< >>, M, v)
<1>1. 1..Len(<< >>) = {}
  OBVIOUS
<1> QED
  BY <1>1 DEF Miss, Hit

(* Rules of one verdict have it for all they match. *)
LEMMA SameVerdict ==
    ASSUME NEW S, NEW F \in Seq(S), NEW M, NEW v, \A i \in 1..Len(F) : F[i].verdict = v
    PROVE  \A w : Hit(F, M, w) <=> w = v /\ ~Miss(F, M)
<1>1. \A w : Hit(F, M, w) => w = v /\ ~Miss(F, M)
  BY HitUnique DEF Hit
<1>2. ~Miss(F, M) => \E w : Hit(F, M, w)
  BY HitOrMiss
<1> QED
  BY <1>1, <1>2

(* What the beginning of a chain decides, the whole chain decides alike. *)
LEMMA HitOfPrefix ==
    ASSUME NEW S, NEW F \in Seq(S), NEW s, NEW m \in 0..Len(F), Len(s) = m,
           \A i \in 1..m : s[i] = F[i], NEW M, NEW v, Hit(s, M, v)
    PROVE  Hit(F, M, v)
<1>1. PICK i \in 1..m : s[i] \in M /\ s[i].verdict = v /\ \A j \in 1..(i - 1) : s[j] \notin M
  BY DEF Hit
<1>2. Len(F) \in Nat
  OBVIOUS
<1>3. i \in 1..Len(F) /\ \A j \in 1..(i - 1) : j \in 1..m
  BY <1>2
<1>4. \A j \in 1..(i - 1) : F[j] \notin M
  BY <1>1, <1>3
<1> QED
  BY <1>1, <1>3, <1>4 DEF Hit

-----------------------------------------------------------------------------
(***************************************************************************)
(* Linux: the verdict of a chain.                                          *)
(***************************************************************************)

(* The rules that match a packet. *)
Matching(p) == {r \in Rule : Matches(r, p)}

(* Verdict finds the first rule that matches. *)
LEMMA VerdictIs ==
    ASSUME NEW p, NEW ch, rules[p.fam][ch] \in Seq(Rule)
    PROVE  LET s == rules[p.fam][ch]  IN
           /\ Miss(s, Matching(p)) => Verdict(p, ch) = "none"
           /\ \A v : Hit(s, Matching(p), v) => Verdict(p, ch) = v
           /\ Verdict(p, ch) # "none" => Hit(s, Matching(p), Verdict(p, ch))
<1> DEFINE s == rules[p.fam][ch]
           M == Matching(p)
           hits == {i \in DOMAIN s : Matches(s[i], p)}
<1>1. Len(s) \in Nat /\ DOMAIN s = 1..Len(s) /\ \A i \in 1..Len(s) : s[i] \in Rule
  OBVIOUS
<1>2. Verdict(p, ch) = IF hits = {} THEN "none" ELSE s[Min(hits)].verdict
  BY DEF Verdict
<1> HIDE DEF s
<1>3. \A i \in 1..Len(s) : i \in hits <=> s[i] \in M
  BY <1>1 DEF Matching
<1>4. hits \in SUBSET Nat
  BY <1>1
<1>5. CASE hits = {}
  <2>1. Miss(s, M)
    BY <1>3, <1>5 DEF Miss
  <2>2. \A v : ~Hit(s, M, v)
    BY <2>1 DEF Miss, Hit
  <2> QED
    BY <1>2, <1>5, <2>1, <2>2 DEF s
<1>6. CASE hits # {}
  <2> DEFINE k == Min(hits)
  <2>1. k \in hits /\ \A j \in hits : k =< j
    <3> HIDE DEF hits
    <3> QED
      BY <1>4, <1>6, MinIsLeast
  <2>2. k \in 1..Len(s) /\ s[k] \in M
    BY <1>1, <1>3, <2>1
  <2> HIDE DEF k
  <2>3. \A j \in 1..(k - 1) : j \in 1..Len(s) /\ ~(k =< j)
    BY <1>1, <2>2
  <2>4. \A j \in 1..(k - 1) : s[j] \notin M
    BY <1>3, <2>1, <2>3
  <2>5. Hit(s, M, s[k].verdict)
    BY <2>2, <2>4 DEF Hit
  <2>6. Verdict(p, ch) = s[k].verdict
    BY <1>2, <1>6 DEF k
  <2>7. s \in Seq(Rule)
    BY DEF s
  <2>8. ~Miss(s, M) /\ \A v : Hit(s, M, v) => v = s[k].verdict
    BY <2>5, <2>7, HitUnique
  <2> QED
    BY <2>5, <2>6, <2>8 DEF s
<1> QED
  BY <1>5, <1>6

(* What the parts of the chains do with a packet. *)
LEMMA PacketIs ==
    ASSUME NEW p \in Packets
    PROVE  /\ p.fam \in Families /\ p.from \in {"lan", "wan", "gateway"} /\ p.to_lan \in BOOLEAN
           /\ p.proto \in {"tcp", "udp"} /\ p.dport \in Dports /\ p.dport \in Nat \ {0}
           /\ p.dst \in {"iface", "local", "upstream", "remote"} /\ p.marked \in BOOLEAN
           /\ p.marked => p.from = "gateway"
           /\ p.dst \in {"iface", "local"} => ~p.to_lan
<1>1. /\ p.fam \in Families /\ p.from \in {"lan", "wan", "gateway"} /\ p.to_lan \in BOOLEAN
      /\ p.proto \in {"tcp", "udp"} /\ p.dport \in Dports
      /\ p.dst \in {"iface", "local", "upstream", "remote"} /\ p.marked \in BOOLEAN
  BY DEF Packets
<1>2. /\ p.marked => p.from = "gateway"
      /\ p.dst \in {"iface", "local"} => ~p.to_lan
  BY DEF Packets
<1>3. Dports \subseteq Nat \ {0}
  BY FirewallAssumption
<1> QED
  BY <1>1, <1>2, <1>3

Passes(via, p) == (via = "lan" => p.from = "lan") /\ (via = "to_lan" => p.to_lan)

Meets(via, proto, dport, dst, p) ==
    /\ Passes(via, p) /\ proto \in {"any", p.proto} /\ dport \in {AnyPort, p.dport}
    /\ dst \in {"any", p.dst} \/ (dst = "local" /\ ToThisHost(p))

(* A rule as Match builds it matches what its arguments say. *)
LEMMA MatchMatches ==
    ASSUME NEW via \in {"any", "lan", "to_lan"}, NEW proto \in {"any", "tcp", "udp"},
           NEW dport \in Dports \cup {AnyPort}, NEW dst \in {"any", "iface", "local", "upstream"},
           NEW verdict \in {"return", "redirect", "dnat", "tproxy", "drop"}, NEW p \in Packets
    PROVE  /\ Match(via, proto, dport, dst, verdict) \in Matching(p) <=> Meets(via, proto, dport, dst, p)
           /\ Match(via, proto, dport, dst, verdict).verdict = verdict
<1> DEFINE r == Match(via, proto, dport, dst, verdict)
<1>1. r \in Rule
  BY MatchIsRule
<1>2. /\ r.via = via /\ r.proto = proto /\ r.dport = dport /\ r.dst = dst /\ r.marked = FALSE
      /\ r.verdict = verdict
  BY DEF Match
<1> HIDE DEF r
<1>3. Matches(r, p) <=> Meets(via, proto, dport, dst, p)
  BY <1>2 DEF Matches, Passes, Meets
<1> QED
  BY <1>1, <1>2, <1>3 DEF Matching, r

InPorts(c, p) == \E i \in 1..Len(c.ports) : c.ports[i] = p.dport

(* The parts that consist of single rules. *)
LEMMA SingleRules ==
    ASSUME NEW c \in Configs, NEW via \in {"any", "lan"}, NEW p \in Packets
    PROVE  LET M == Matching(p)  IN
           /\ Miss(SshReturn(c, p.fam, via), M) \/ ToThisHost(p)
           /\ \A v : Hit(SshReturn(c, p.fam, via), M, v) => v = "return"
           /\ Miss(LocalReturn(via), M) <=> ~(Passes(via, p) /\ ToThisHost(p))
           /\ \A v : Hit(LocalReturn(via), M, v) => v = "return"
           /\ \A v : Hit(CatchAll(via), M, v) <=> v = "redirect" /\ Passes(via, p) /\ p.proto = "tcp"
           /\ Miss(UpstreamReturn(c, p.fam), M) <=> ~(p.proto = "tcp" /\ ToUpstream(c, p))
           /\ \A v : Hit(UpstreamReturn(c, p.fam), M, v) => v = "return"
           /\ Miss(MarkReturn, M) <=> ~p.marked
           /\ \A v : Hit(MarkReturn, M, v) => v = "return"
<1> DEFINE M == Matching(p)
<1>0. /\ p.fam \in Families /\ p.proto \in {"tcp", "udp"} /\ p.dport \in Nat \ {0} /\ p.marked \in BOOLEAN
      /\ p.dst \in {"iface", "local", "upstream", "remote"}
  BY PacketIs
<1>1. /\ 22 \in Dports \cup {AnyPort} /\ UpPort \in Dports \cup {AnyPort}
      /\ AnyPort \in Dports \cup {AnyPort} /\ UpPort # 0 /\ AnyPort = 0
  BY FirewallAssumption DEF AnyPort
<1>2. Miss(<< >>, M) /\ \A v : ~Hit(<< >>, M, v)
  BY NoRules0
<1>3. /\ Miss(SshReturn(c, p.fam, via), M) \/ ToThisHost(p)
      /\ \A v : Hit(SshReturn(c, p.fam, via), M, v) => v = "return"
  <2> DEFINE r == Match(via, "tcp", 22, "iface", "return")
  <2>1. r.verdict = "return" /\ (r \in M => p.dst = "iface")
    <3>1. r \in M <=> Meets(via, "tcp", 22, "iface", p)
      <4>1. 22 \in Dports \cup {AnyPort}
        BY <1>1
      <4> QED
        BY <4>1, MatchMatches
    <3>2. r.verdict = "return"
      BY DEF Match
    <3> QED
      BY <3>1, <3>2 DEF Meets
  <2>2. SshReturn(c, p.fam, via) = << >> \/ SshReturn(c, p.fam, via) = <<r>>
    BY DEF SshReturn, When
  <2> HIDE DEF r, M
  <2> QED
    BY <1>2, <2>1, <2>2, OneRule DEF ToThisHost
<1>4. /\ Miss(LocalReturn(via), M) <=> ~(Passes(via, p) /\ ToThisHost(p))
      /\ \A v : Hit(LocalReturn(via), M, v) => v = "return"
  <2> DEFINE r == Match(via, "any", AnyPort, "local", "return")
  <2>1. r.verdict = "return" /\ (r \in M <=> Passes(via, p) /\ ToThisHost(p))
    <3>1. r \in M <=> Meets(via, "any", AnyPort, "local", p)
      <4>1. AnyPort \in Dports \cup {AnyPort}
        OBVIOUS
      <4> QED
        BY <4>1, MatchMatches
    <3>2. r.verdict = "return"
      BY DEF Match
    <3> QED
      BY <3>1, <3>2 DEF Meets, ToThisHost
  <2>2. LocalReturn(via) = <<r>>
    BY DEF LocalReturn
  <2> HIDE DEF r, M
  <2> QED
    BY <2>1, <2>2, OneRule
<1>5. \A v : Hit(CatchAll(via), M, v) <=> v = "redirect" /\ Passes(via, p) /\ p.proto = "tcp"
  <2> DEFINE r == Match(via, "tcp", AnyPort, "any", "redirect")
  <2>1. r.verdict = "redirect" /\ (r \in M <=> Passes(via, p) /\ p.proto = "tcp")
    <3>1. r \in M <=> Meets(via, "tcp", AnyPort, "any", p)
      <4>1. AnyPort \in Dports \cup {AnyPort}
        OBVIOUS
      <4> QED
        BY <4>1, MatchMatches
    <3>2. r.verdict = "redirect"
      BY DEF Match
    <3> QED
      BY <1>0, <3>1, <3>2 DEF Meets, Passes
  <2>2. CatchAll(via) = <<r>>
    BY DEF CatchAll
  <2> HIDE DEF r, M
  <2> QED
    BY <2>1, <2>2, OneRule
<1>6. /\ Miss(UpstreamReturn(c, p.fam), M) <=> ~(p.proto = "tcp" /\ ToUpstream(c, p))
      /\ \A v : Hit(UpstreamReturn(c, p.fam), M, v) => v = "return"
  <2> DEFINE r == Match("any", "tcp", UpPort, "upstream", "return")
  <2>1. /\ r.verdict = "return"
        /\ r \in M <=> p.proto = "tcp" /\ p.dst = "upstream" /\ p.dport = UpPort
    <3>1. r \in M <=> Meets("any", "tcp", UpPort, "upstream", p)
      <4>1. UpPort \in Dports \cup {AnyPort}
        BY <1>1
      <4> QED
        BY <4>1, MatchMatches
    <3>2. r.verdict = "return"
      BY DEF Match
    <3> QED
      BY <1>0, <1>1, <3>1, <3>2 DEF Meets, Passes
  <2>2. UpstreamReturn(c, p.fam) = IF c.upstream = p.fam THEN <<r>> ELSE << >>
    BY DEF UpstreamReturn, When
  <2>3. Miss(<<r>>, M) <=> r \notin M
    BY OneRule
  <2>4. \A v : Hit(<<r>>, M, v) <=> r \in M /\ v = r.verdict
    BY OneRule
  <2> HIDE DEF r, M
  <2>5. CASE c.upstream = p.fam
    <3>1. UpstreamReturn(c, p.fam) = <<r>> /\ (ToUpstream(c, p) <=> p.dst = "upstream" /\ p.dport = UpPort)
      BY <2>2, <2>5 DEF ToUpstream
    <3> QED
      BY <2>1, <2>3, <2>4, <3>1
  <2>6. CASE c.upstream # p.fam
    <3>1. UpstreamReturn(c, p.fam) = << >> /\ ~ToUpstream(c, p)
      BY <2>2, <2>6 DEF ToUpstream
    <3> QED
      BY <1>2, <3>1
  <2> QED
    BY <2>5, <2>6
<1>7. /\ Miss(MarkReturn, M) <=> ~p.marked
      /\ \A v : Hit(MarkReturn, M, v) => v = "return"
  <2> DEFINE q == Match("any", "any", AnyPort, "any", "return")
             r == [q EXCEPT !.marked = TRUE]
  <2>1. q \in Rule
    BY <1>1, MatchIsRule
  <2>2. /\ r \in Rule /\ r.via = "any" /\ r.proto = "any" /\ r.dport = AnyPort /\ r.dst = "any"
        /\ r.marked = TRUE /\ r.verdict = "return"
    BY <2>1 DEF Match, Rule
  <2>3. MarkReturn = <<r>>
    BY DEF MarkReturn
  <2> HIDE DEF r
  <2>4. Matches(r, p) <=> p.marked
    BY <1>0, <2>2 DEF Matches
  <2>5. r \in M <=> p.marked
    BY <2>2, <2>4 DEF Matching
  <2> HIDE DEF M
  <2> QED
    BY <2>2, <2>3, <2>5, OneRule
<1> QED
  BY <1>3, <1>4, <1>5, <1>6, <1>7

(* A list of redirects redirects what is for one of its ports. *)
LEMMA PortHits ==
    ASSUME NEW c \in Configs, NEW via \in {"any", "lan"}, NEW p \in Packets
    PROVE  \A v : Hit(PortRedirects(c, via), Matching(p), v) <=>
                     v = "redirect" /\ Passes(via, p) /\ p.proto = "tcp" /\ InPorts(c, p)
<1> DEFINE M == Matching(p)
           F == PortRedirects(c, via)
           n == Len(c.ports)
<1>1. F \in Seq(Rule) /\ Len(F) = n /\ \A i \in 1..n : F[i] = Match(via, "tcp", c.ports[i], "any", "redirect")
  BY PortRedirectsAreRules
<1>2. n \in Nat /\ \A i \in 1..n : c.ports[i] \in Dports /\ c.ports[i] # 0
  <2>1. c.ports \in Seq(Dports) /\ Dports \subseteq Nat \ {0}
    BY ConfigsAssumption, FirewallAssumption DEF Config
  <2> QED
    BY <2>1
<1>3. \A i \in 1..n : /\ F[i].verdict = "redirect"
                      /\ F[i] \in M <=> Passes(via, p) /\ p.proto = "tcp" /\ c.ports[i] = p.dport
  <2> TAKE i \in 1..n
  <2> DEFINE r == Match(via, "tcp", c.ports[i], "any", "redirect")
  <2>1. c.ports[i] \in Dports \cup {AnyPort}
    BY <1>2
  <2>2. r \in M <=> Meets(via, "tcp", c.ports[i], "any", p)
    BY <2>1, MatchMatches
  <2>3. r.verdict = "redirect"
    BY DEF Match
  <2>4. F[i] = r /\ p.proto \in {"tcp", "udp"} /\ AnyPort = 0 /\ c.ports[i] # 0
    BY <1>1, <1>2, PacketIs DEF AnyPort
  <2> HIDE DEF r, F, M
  <2> QED
    BY <2>2, <2>3, <2>4 DEF Meets
<1> HIDE DEF F, M
<1>4. Miss(F, M) <=> ~(Passes(via, p) /\ p.proto = "tcp" /\ InPorts(c, p))
  BY <1>1, <1>3 DEF Miss, InPorts, n
<1>5. \A w : Hit(F, M, w) <=> w = "redirect" /\ ~Miss(F, M)
  BY <1>1, <1>3, SameVerdict
<1> QED
  BY <1>4, <1>5 DEF F, M

(* The redirect of a port list, or of everything. *)
LEMMA ProxiedIs ==
    ASSUME NEW c \in Configs, NEW p
    PROVE  Proxied(c, p) <=> p.proto = "tcp" /\ (c.allPorts \/ InPorts(c, p))
<1>1. c.ports \in Seq(Dports)
  BY ConfigsAssumption DEF Config
<1>2. DOMAIN c.ports = 1..Len(c.ports)
  BY <1>1
<1> QED
  BY <1>2 DEF Proxied, InPorts

(* The rules for QUIC concern QUIC that passes the interface. *)
LEMMA QuicHits ==
    ASSUME NEW c \in Configs, NEW via \in {"lan", "to_lan"}, NEW verdict \in {"tproxy", "drop"},
           NEW p \in Packets
    PROVE  /\ \A w : Hit(QuicRules(c, via, verdict), Matching(p), w) <=>
                       w = verdict /\ Passes(via, p) /\ IsQuic(c, p)
           /\ Miss(QuicRules(c, via, verdict), Matching(p)) <=> ~(Passes(via, p) /\ IsQuic(c, p))
<1> DEFINE M == Matching(p)
           F == QuicRules(c, via, verdict)
           W == quic_block_ports(c)
           n == Len(W)
<1>1. F \in Seq(Rule) /\ Len(F) = n /\ \A i \in 1..n : F[i] = Match(via, "udp", W[i], "any", verdict)
  BY QuicRulesAreRules
<1>2. n \in Nat /\ DOMAIN W = 1..n /\ \A i \in 1..n : W[i] \in Dports /\ W[i] # 0
  <2>1. W \in Seq(Dports \ {53}) /\ Dports \subseteq Nat \ {0}
    BY QuicPorts, FirewallAssumption
  <2> HIDE DEF W
  <2> QED
    BY <2>1
<1>3. \A i \in 1..n : /\ F[i].verdict = verdict
                      /\ F[i] \in M <=> Passes(via, p) /\ p.proto = "udp" /\ W[i] = p.dport
  <2> TAKE i \in 1..n
  <2> DEFINE r == Match(via, "udp", W[i], "any", verdict)
  <2>1. W[i] \in Dports \cup {AnyPort}
    BY <1>2
  <2> HIDE DEF W
  <2>2. r \in M <=> Meets(via, "udp", W[i], "any", p)
    BY <2>1, MatchMatches
  <2>3. r.verdict = verdict
    BY DEF Match
  <2>4. F[i] = r /\ p.proto \in {"tcp", "udp"} /\ AnyPort = 0 /\ W[i] # 0
    BY <1>1, <1>2, PacketIs DEF AnyPort
  <2> HIDE DEF r, F, M
  <2> QED
    BY <2>2, <2>3, <2>4 DEF Meets
<1>4. IsQuic(c, p) <=> p.proto = "udp" /\ \E i \in 1..n : W[i] = p.dport
  BY <1>2 DEF IsQuic
<1> HIDE DEF F, M, W, n
<1>5. Miss(F, M) <=> ~(Passes(via, p) /\ IsQuic(c, p))
  BY <1>1, <1>3, <1>4 DEF Miss
<1>6. \A w : Hit(F, M, w) <=> w = verdict /\ ~Miss(F, M)
  BY <1>1, <1>3, SameVerdict
<1> QED
  BY <1>5, <1>6 DEF F, M

(* The rules for DNS concern DNS from the LAN, of both protocols. *)
LEMMA DnsHits ==
    ASSUME NEW c \in Configs, NEW p \in Packets
    PROVE  LET F == DnsRules(c, p.fam)
               M == Matching(p)
               diverted == p.from = "lan" /\ p.dport = 53 /\ dns_target(c, p.fam)
           IN  /\ \A v : Hit(F, M, v) <=> v = "dnat" /\ diverted
               /\ Miss(F, M) <=> ~diverted
<1> DEFINE M == Matching(p)
           r == Match("lan", "udp", 53, "any", "dnat")
           t == Match("lan", "tcp", 53, "any", "dnat")
           diverted == p.from = "lan" /\ p.dport = 53 /\ dns_target(c, p.fam)
<1>0. p.proto \in {"tcp", "udp"} /\ AnyPort = 0 /\ 53 \in Dports \cup {AnyPort}
  BY PacketIs, FirewallAssumption DEF AnyPort
<1>1. r.verdict = "dnat" /\ (r \in M <=> p.from = "lan" /\ p.proto = "udp" /\ p.dport = 53)
  <2>1. r \in M <=> Meets("lan", "udp", 53, "any", p)
    BY <1>0, MatchMatches
  <2>2. r.verdict = "dnat"
    BY DEF Match
  <2> HIDE DEF r
  <2> QED
    BY <1>0, <2>1, <2>2 DEF Meets, Passes
<1>2. t.verdict = "dnat" /\ (t \in M <=> p.from = "lan" /\ p.proto = "tcp" /\ p.dport = 53)
  <2>1. t \in M <=> Meets("lan", "tcp", 53, "any", p)
    BY <1>0, MatchMatches
  <2>2. t.verdict = "dnat"
    BY DEF Match
  <2> HIDE DEF t
  <2> QED
    BY <1>0, <2>1, <2>2 DEF Meets, Passes
<1>3. DnsRules(c, p.fam) = IF dns_target(c, p.fam) THEN <<r, t>> ELSE << >>
  BY DEF DnsRules, When
<1> HIDE DEF r, t, M
<1>4. Miss(<<r, t>>, M) <=> r \notin M /\ t \notin M
  <2> DEFINE F == <<r, t>>
  <2>1. Len(F) = 2 /\ F[1] = r /\ F[2] = t /\ 1..2 = {1, 2}
    OBVIOUS
  <2> HIDE DEF F
  <2>2. Miss(F, M) <=> r \notin M /\ t \notin M
    BY <2>1 DEF Miss
  <2> QED
    BY <2>2 DEF F
<1>5. \A v : Hit(<<r, t>>, M, v) <=> v = "dnat" /\ ~Miss(<<r, t>>, M)
  <2> DEFINE F == <<r, t>>
  <2>1. F \in Seq({r, t}) /\ \A i \in 1..Len(F) : F[i] \in {r, t}
    OBVIOUS
  <2> HIDE DEF F
  <2>2. \A i \in 1..Len(F) : F[i].verdict = "dnat"
    BY <1>1, <1>2, <2>1
  <2>3. \A v : Hit(F, M, v) <=> v = "dnat" /\ ~Miss(F, M)
    BY <2>1, <2>2, SameVerdict
  <2> QED
    BY <2>3 DEF F
<1>6. Miss(<< >>, M) /\ \A v : ~Hit(<< >>, M, v)
  BY NoRules0
<1>7. CASE dns_target(c, p.fam)
  BY <1>0, <1>1, <1>2, <1>3, <1>4, <1>5, <1>7 DEF M
<1>8. CASE ~dns_target(c, p.fam)
  BY <1>3, <1>6, <1>8 DEF M
<1> QED
  BY <1>7, <1>8

(* What the NAT chains do with a packet. *)
LEMMA OutputHits ==
    ASSUME NEW c \in Configs, NEW p \in Packets
    PROVE  Hit(Output(c, p.fam), Matching(p), "redirect") <=>
              /\ ~p.marked /\ ~ToThisHost(p) /\ Proxied(c, p)
              /\ ~(p.proto = "tcp" /\ ToUpstream(c, p))
<1> DEFINE M == Matching(p)
           K == MarkReturn
           U == UpstreamReturn(c, p.fam)
           L == LocalReturn("any")
           S == SshReturn(c, p.fam, "any")
           A == CatchAll("any")
           P == PortRedirects(c, "any")
           R == IF c.allPorts THEN S \o A ELSE P
           v == "redirect"
<1>1. /\ K \in Seq(Rule) /\ U \in Seq(Rule) /\ L \in Seq(Rule) /\ S \in Seq(Rule) /\ A \in Seq(Rule)
      /\ P \in Seq(Rule)
  BY PacketIs, PartsAreRules, PortRedirectsAreRules
<1>2. Passes("any", p) /\ v # "return"
  BY DEF Passes
<1>3. /\ Miss(S, M) \/ ToThisHost(p)
      /\ ~Hit(S, M, v)
      /\ Miss(L, M) <=> ~ToThisHost(p)
      /\ ~Hit(L, M, v)
      /\ Hit(A, M, v) <=> p.proto = "tcp"
      /\ Miss(U, M) <=> ~(p.proto = "tcp" /\ ToUpstream(c, p))
      /\ ~Hit(U, M, v)
      /\ Miss(K, M) <=> ~p.marked
      /\ ~Hit(K, M, v)
  BY <1>2, SingleRules
<1>4. Hit(P, M, v) <=> p.proto = "tcp" /\ InPorts(c, p)
  BY <1>2, PortHits
<1>5. Proxied(c, p) <=> p.proto = "tcp" /\ (c.allPorts \/ InPorts(c, p))
  BY ProxiedIs
<1>6. Output(c, p.fam) = K \o U \o L \o R
  BY DEF Output
<1> HIDE DEF M, K, U, L, S, A, P, v
<1>7. R \in Seq(Rule)
  BY <1>1
<1>8. Hit(S \o A, M, v) <=> Miss(S, M) /\ Hit(A, M, v)
  BY <1>1, <1>3, HitConcat
<1>9. ~ToThisHost(p) => (Hit(R, M, v) <=> Proxied(c, p))
  BY <1>3, <1>4, <1>5, <1>8
<1> HIDE DEF R
<1> DEFINE B == K \o U
           C == B \o L
<1>10. B \in Seq(Rule) /\ C \in Seq(Rule)
  BY <1>1
<1>11. Miss(B, M) <=> Miss(K, M) /\ Miss(U, M)
  BY <1>1, MissConcat
<1>12. ~Hit(B, M, v)
  BY <1>1, <1>3, HitConcat
<1> HIDE DEF B
<1>13. Miss(C, M) <=> Miss(B, M) /\ Miss(L, M)
  BY <1>1, <1>10, MissConcat
<1>14. Hit(C, M, v) <=> Hit(B, M, v) \/ (Miss(B, M) /\ Hit(L, M, v))
  BY <1>1, <1>10, HitConcat
<1> HIDE DEF C
<1>15. Hit(C \o R, M, v) <=> Hit(C, M, v) \/ (Miss(C, M) /\ Hit(R, M, v))
  BY <1>7, <1>10, HitConcat
<1>16. Output(c, p.fam) = C \o R
  BY <1>6 DEF B, C
<1> QED
  BY <1>3, <1>9, <1>11, <1>12, <1>13, <1>14, <1>15, <1>16 DEF M, v

(* DNS comes first; what is for this host is excepted if all ports are proxied. *)
LEMMA PreroutingHits ==
    ASSUME NEW c \in Configs, NEW p \in Packets, p.from = "lan"
    PROVE  LET F == Prerouting(c, p.fam)
               M == Matching(p)
               diverted == p.dport = 53 /\ dns_target(c, p.fam)
           IN  /\ Hit(F, M, "dnat") <=> diverted
               /\ Hit(F, M, "redirect") <=> ~diverted /\ Proxied(c, p) /\ (c.allPorts => ~ToThisHost(p))
<1> DEFINE M == Matching(p)
           D == DnsRules(c, p.fam)
           L == LocalReturn("lan")
           S == SshReturn(c, p.fam, "lan")
           A == CatchAll("lan")
           P == PortRedirects(c, "lan")
           R == IF c.allPorts THEN S \o L \o A ELSE P
           v == "redirect"
           d == "dnat"
           diverted == p.dport = 53 /\ dns_target(c, p.fam)
<1>1. D \in Seq(Rule) /\ L \in Seq(Rule) /\ S \in Seq(Rule) /\ A \in Seq(Rule) /\ P \in Seq(Rule)
  BY PacketIs, PartsAreRules, PortRedirectsAreRules
<1>2. Passes("lan", p) /\ v # "return" /\ d # "return" /\ v # d
  BY DEF Passes
<1>3. /\ Miss(S, M) \/ ToThisHost(p)
      /\ ~Hit(S, M, v) /\ ~Hit(S, M, d)
      /\ Miss(L, M) <=> ~ToThisHost(p)
      /\ ~Hit(L, M, v) /\ ~Hit(L, M, d)
      /\ Hit(A, M, v) <=> p.proto = "tcp"
      /\ ~Hit(A, M, d)
  BY <1>2, SingleRules
<1>4. /\ Hit(P, M, v) <=> p.proto = "tcp" /\ InPorts(c, p)
      /\ ~Hit(P, M, d)
  BY <1>2, PortHits
<1>5. /\ Hit(D, M, d) <=> diverted
      /\ ~Hit(D, M, v)
      /\ Miss(D, M) <=> ~diverted
  BY <1>2, DnsHits
<1>6. Proxied(c, p) <=> p.proto = "tcp" /\ (c.allPorts \/ InPorts(c, p))
  BY ProxiedIs
<1>7. Prerouting(c, p.fam) = D \o R
  BY DEF Prerouting
<1> HIDE DEF M, D, L, S, A, P, v, d
<1> DEFINE B == S \o L
<1>8. R \in Seq(Rule) /\ B \in Seq(Rule)
  BY <1>1
<1>9. /\ Miss(B, M) <=> Miss(S, M) /\ Miss(L, M)
      /\ ~Hit(B, M, v) /\ ~Hit(B, M, d)
  BY <1>1, <1>3, MissConcat, HitConcat
<1> HIDE DEF B
<1>10. /\ Hit(B \o A, M, v) <=> Miss(B, M) /\ Hit(A, M, v)
       /\ ~Hit(B \o A, M, d)
  BY <1>1, <1>3, <1>8, <1>9, HitConcat
<1>11. /\ Hit(R, M, v) <=> Proxied(c, p) /\ (c.allPorts => ~ToThisHost(p))
       /\ ~Hit(R, M, d)
  BY <1>3, <1>4, <1>6, <1>9, <1>10 DEF B
<1> HIDE DEF R
<1>12. /\ Hit(D \o R, M, v) <=> Miss(D, M) /\ Hit(R, M, v)
       /\ Hit(D \o R, M, d) <=> Hit(D, M, d)
  BY <1>1, <1>5, <1>8, <1>11, HitConcat
<1> QED
  BY <1>5, <1>7, <1>11, <1>12 DEF M, v, d

(* The prerouting rules are for the configured interface only. *)
LEMMA PreroutingMiss ==
    ASSUME NEW c \in Configs, NEW p \in Packets, p.from # "lan"
    PROVE  Miss(Prerouting(c, p.fam), Matching(p))
<1> DEFINE M == Matching(p)
           D == DnsRules(c, p.fam)
           L == LocalReturn("lan")
           S == SshReturn(c, p.fam, "lan")
           A == CatchAll("lan")
           P == PortRedirects(c, "lan")
<1>1. D \in Seq(Rule) /\ L \in Seq(Rule) /\ S \in Seq(Rule) /\ A \in Seq(Rule) /\ P \in Seq(Rule)
  BY PacketIs, PartsAreRules, PortRedirectsAreRules
<1>2. ~Passes("lan", p)
  BY DEF Passes
<1>3. /\ \A v : ~Hit(A, M, v)
      /\ Miss(L, M)
      /\ \A v : ~Hit(P, M, v)
      /\ Miss(D, M)
  BY <1>2, SingleRules, PortHits, DnsHits
<1>4. Miss(S, M)
  <2> DEFINE r == Match("lan", "tcp", 22, "iface", "return")
  <2>1. 22 \in Dports \cup {AnyPort}
    BY FirewallAssumption
  <2>2. r \in M <=> Meets("lan", "tcp", 22, "iface", p)
    BY <2>1, MatchMatches
  <2>3. r \notin M
    BY <1>2, <2>2 DEF Meets
  <2>4. S = << >> \/ S = <<r>>
    BY DEF SshReturn, When
  <2> HIDE DEF r, M, S
  <2> QED
    BY <2>3, <2>4, OneRule, NoRules0
<1>5. Prerouting(c, p.fam) = D \o (IF c.allPorts THEN S \o L \o A ELSE P)
  BY DEF Prerouting
<1> HIDE DEF M, D, L, S, A, P
<1>6. Miss(A, M) /\ Miss(P, M)
  BY <1>1, <1>3, HitOrMiss
<1>7. S \o L \in Seq(Rule) /\ S \o L \o A \in Seq(Rule)
  BY <1>1
<1>8. Miss(S \o L, M)
  BY <1>1, <1>3, <1>4, MissConcat
<1>9. Miss(S \o L \o A, M)
  BY <1>1, <1>6, <1>7, <1>8, MissConcat
<1>10. Miss(D \o (S \o L \o A), M) /\ Miss(D \o P, M)
  BY <1>1, <1>3, <1>6, <1>7, <1>9, MissConcat
<1> QED
  BY <1>5, <1>10 DEF M

-----------------------------------------------------------------------------
(***************************************************************************)
(* Linux: what the invariant says of a chain.                              *)
(***************************************************************************)

(* A chain of a new table decides as it does once it is complete, or not at all. *)
LEMMA PartialVerdict ==
    ASSUME FirewallInv, platform = "linux", NEW p \in Packets, p.fam \notin old,
           NEW ch \in Chains, Verdict(p, ch) # "none"
    PROVE  Hit(Full(config, p.fam, ch), Matching(p), Verdict(p, ch))
<1> DEFINE f == p.fam
           F == Full(config, f, ch)
<1>1. f \in Families /\ Typed /\ Building /\ config \in Configs
  BY PacketIs DEF FirewallInv, Nft, Typed
<1>2. rules[f][ch] \in Seq(Rule) /\ F \in Seq(Rule)
  BY <1>1, FullIsRules DEF Typed
<1>3. Hit(rules[f][ch], Matching(p), Verdict(p, ch))
  BY <1>2, VerdictIs
<1>4. PICK n \in 0..Len(F) : \E m \in 0..n :
           /\ Lines(f, ch, m, n)
           /\ n \in Nat /\ m \in Nat /\ m =< n /\ m \in 0..Len(F)
  BY <1>1, ExtentOf
<1>5. PICK m \in 0..n : Lines(f, ch, m, n) /\ m \in 0..Len(F)
  BY <1>4
<1>6. Len(rules[f][ch]) = m /\ \A k \in 1..m : rules[f][ch][k] = F[k]
  BY <1>5 DEF Lines
<1> QED
  BY <1>2, <1>3, <1>5, <1>6, HitOfPrefix

(* A chain that is complete decides as it is meant to. *)
LEMMA CompleteVerdict ==
    ASSUME FirewallInv, platform = "linux", todo = << >>, NEW p \in Packets, p.fam \notin old,
           NEW ch \in Chains, Covered(p.fam, ch),
           NEW v, Hit(Full(config, p.fam, ch), Matching(p), v)
    PROVE  Verdict(p, ch) = v
<1> DEFINE f == p.fam
           F == Full(config, f, ch)
           s == rules[f][ch]
<1>1. f \in Families /\ Typed /\ config \in Configs /\ todo \in Seq(Commands)
  BY PacketIs DEF FirewallInv, Typed
<1>2. s \in Seq(Rule) /\ F \in Seq(Rule)
  BY <1>1, FullIsRules DEF Typed
<1>3. PICK n \in Nat : n = Len(F)
  BY <1>2
<1>4. PICK m \in 0..n : Lines(f, ch, m, n)
  BY <1>3 DEF Covered, UpTo
<1>5. m = n
  <2>1. m \in Nat /\ m =< n /\ Emits(todo, f, ch, F, m, n)
    BY <1>4 DEF Lines
  <2>2. Silent(todo, f, ch)
    <3>1. 1..Len(todo) = {}
      OBVIOUS
    <3> QED
      BY <3>1 DEF Silent
  <2> HIDE DEF F
  <2> QED
    BY <1>1, <2>1, <2>2, NothingToCome
<1>6. Len(s) = n /\ \A k \in 1..n : F[k] = s[k]
  BY <1>4, <1>5 DEF Lines
<1> HIDE DEF F, s
<1>7. Len(F) = n /\ n \in 0..Len(s)
  BY <1>3, <1>6
<1>8. Hit(s, Matching(p), v)
  BY <1>2, <1>6, <1>7, HitOfPrefix DEF F
<1> QED
  BY <1>2, <1>8, VerdictIs DEF s


(* What the chains of a new table do at most, at any time of a set-up. *)
LEMMA AtMost ==
    ASSUME FirewallInv, platform = "linux", NEW p \in Packets, p.fam \notin old
    PROVE  LET c == config
               diverted == p.dport = 53 /\ dns_target(c, p.fam)
           IN  /\ Verdict(p, "output") = "redirect" =>
                     c.local_traffic /\ ~p.marked /\ ~ToThisHost(p) /\ Proxied(c, p) /\ ~ToUpstream(c, p)
               /\ Verdict(p, "prerouting") = "redirect" =>
                     p.from = "lan" /\ ~diverted /\ Proxied(c, p) /\ (c.allPorts => ~ToThisHost(p))
               /\ Verdict(p, "prerouting") = "dnat" => p.from = "lan" /\ diverted
               /\ Verdict(p, "tproxy_prerouting") = "tproxy" =>
                     proxy_udp(c) /\ p.from = "lan" /\ IsQuic(c, p)
               /\ Verdict(p, "quic_forward") = "drop" => p.from = "lan" /\ IsQuic(c, p)
               /\ Verdict(p, "quic_output") = "drop" => c.local_traffic /\ p.to_lan /\ IsQuic(c, p)
<1> DEFINE c == config
           M == Matching(p)
           f == p.fam
<1>1. c \in Configs /\ f \in Families
  BY PacketIs DEF FirewallInv, Typed
<1>2. \A v : ~Hit(<< >>, M, v)
  BY NoRules0
<1>3. ASSUME Verdict(p, "output") = "redirect"
      PROVE  c.local_traffic /\ ~p.marked /\ ~ToThisHost(p) /\ Proxied(c, p) /\ ~ToUpstream(c, p)
  <2>1. Hit(Full(c, f, "output"), M, "redirect")
    BY <1>3, PartialVerdict DEF Chains
  <2>2. Full(c, f, "output") = IF c.local_traffic THEN Output(c, f) ELSE << >>
    BY DEF Full, When
  <2>3. c.local_traffic /\ Hit(Output(c, f), M, "redirect")
    BY <1>2, <2>1, <2>2
  <2>4. Proxied(c, p) => p.proto = "tcp"
    BY DEF Proxied
  <2> QED
    BY <1>1, <2>3, <2>4, OutputHits
<1>4. ASSUME NEW v, v # "none", Verdict(p, "prerouting") = v
      PROVE  p.from = "lan" /\ Hit(Prerouting(c, f), M, v)
  <2>1. Hit(Full(c, f, "prerouting"), M, v)
    BY <1>4, PartialVerdict DEF Chains
  <2>2. Full(c, f, "prerouting") = Prerouting(c, f)
    BY DEF Full
  <2>3. Prerouting(c, f) \in Seq(Rule)
    BY <1>1, ChainsAreRules
  <2>4. ~Miss(Prerouting(c, f), M)
    BY <2>1, <2>2, <2>3, HitUnique
  <2> QED
    BY <1>1, <2>1, <2>2, <2>4, PreroutingMiss
<1>5. ASSUME Verdict(p, "tproxy_prerouting") = "tproxy"
      PROVE  proxy_udp(c) /\ p.from = "lan" /\ IsQuic(c, p)
  <2>1. Hit(Full(c, f, "tproxy_prerouting"), M, "tproxy")
    BY <1>5, PartialVerdict DEF Chains
  <2>2. Full(c, f, "tproxy_prerouting") =
           IF proxy_udp(c) THEN QuicRules(c, "lan", "tproxy") ELSE << >>
    BY DEF Full, When
  <2>3. proxy_udp(c) /\ Hit(QuicRules(c, "lan", "tproxy"), M, "tproxy")
    BY <1>2, <2>1, <2>2
  <2>4. Passes("lan", p) /\ IsQuic(c, p)
    BY <1>1, <2>3, QuicHits
  <2> QED
    BY <2>3, <2>4 DEF Passes
<1>6. ASSUME Verdict(p, "quic_forward") = "drop"
      PROVE  p.from = "lan" /\ IsQuic(c, p)
  <2>1. Hit(Full(c, f, "quic_forward"), M, "drop")
    BY <1>6, PartialVerdict DEF Chains
  <2>2. Full(c, f, "quic_forward") = QuicRules(c, "lan", "drop")
    BY DEF Full
  <2>3. Passes("lan", p) /\ IsQuic(c, p)
    BY <1>1, <2>1, <2>2, QuicHits
  <2> QED
    BY <2>3 DEF Passes
<1>7. ASSUME Verdict(p, "quic_output") = "drop"
      PROVE  c.local_traffic /\ p.to_lan /\ IsQuic(c, p)
  <2>1. Hit(Full(c, f, "quic_output"), M, "drop")
    BY <1>7, PartialVerdict DEF Chains
  <2>2. Full(c, f, "quic_output") = IF c.local_traffic THEN QuicRules(c, "to_lan", "drop") ELSE << >>
    BY DEF Full, When
  <2>3. c.local_traffic /\ Hit(QuicRules(c, "to_lan", "drop"), M, "drop")
    BY <1>2, <2>1, <2>2
  <2>4. Passes("to_lan", p) /\ IsQuic(c, p)
    BY <1>1, <2>3, QuicHits
  <2> QED
    BY <2>3, <2>4 DEF Passes
<1>8. ASSUME Verdict(p, "prerouting") = "redirect"
      PROVE  /\ p.from = "lan" /\ ~(p.dport = 53 /\ dns_target(c, f)) /\ Proxied(c, p)
             /\ c.allPorts => ~ToThisHost(p)
  <2>1. p.from = "lan" /\ Hit(Prerouting(c, f), M, "redirect")
    BY <1>4, <1>8
  <2> QED
    BY <1>1, <2>1, PreroutingHits
<1>9. ASSUME Verdict(p, "prerouting") = "dnat"
      PROVE  p.from = "lan" /\ p.dport = 53 /\ dns_target(c, f)
  <2>1. p.from = "lan" /\ Hit(Prerouting(c, f), M, "dnat")
    BY <1>4, <1>9
  <2> QED
    BY <1>1, <2>1, PreroutingHits
<1> QED
  BY <1>3, <1>5, <1>6, <1>7, <1>8, <1>9

(* What they do at least, once a set-up has ended with them complete. *)
LEMMA AtLeast ==
    ASSUME FirewallInv, platform = "linux", todo = << >>, NEW p \in Packets, p.fam \notin old,
           Whole(p.fam)
    PROVE  LET c == config
               diverted == p.dport = 53 /\ dns_target(c, p.fam)
           IN  /\ c.local_traffic /\ ~p.marked /\ ~ToThisHost(p) /\ Proxied(c, p) /\ ~ToUpstream(c, p)
                     => Verdict(p, "output") = "redirect"
               /\ p.from = "lan" /\ ~diverted /\ Proxied(c, p) /\ (c.allPorts => ~ToThisHost(p))
                     => Verdict(p, "prerouting") = "redirect"
               /\ p.from = "lan" /\ diverted => Verdict(p, "prerouting") = "dnat"
               /\ p.from = "lan" /\ IsQuic(c, p) =>
                     \/ proxy_udp(c) /\ Verdict(p, "tproxy_prerouting") = "tproxy"
                     \/ Verdict(p, "quic_forward") = "drop"
               /\ c.local_traffic /\ p.to_lan /\ IsQuic(c, p) => Verdict(p, "quic_output") = "drop"
<1> DEFINE c == config
           M == Matching(p)
           f == p.fam
<1>1. c \in Configs /\ f \in Families
  BY PacketIs DEF FirewallInv, Typed
<1>2. ASSUME c.local_traffic, ~p.marked, ~ToThisHost(p), Proxied(c, p), ~ToUpstream(c, p)
      PROVE  Verdict(p, "output") = "redirect"
  <2>1. Hit(Output(c, f), M, "redirect")
    BY <1>1, <1>2, OutputHits
  <2>2. Full(c, f, "output") = Output(c, f)
    BY <1>2 DEF Full, When
  <2> QED
    BY <2>1, <2>2, CompleteVerdict DEF Whole, Chains
<1>3. ASSUME NEW v, Hit(Prerouting(c, f), M, v)
      PROVE  Verdict(p, "prerouting") = v
  <2>1. Full(c, f, "prerouting") = Prerouting(c, f)
    BY DEF Full
  <2> QED
    BY <1>3, <2>1, CompleteVerdict DEF Whole, Chains
<1>4. ASSUME p.from = "lan", IsQuic(c, p)
      PROVE  \/ proxy_udp(c) /\ Verdict(p, "tproxy_prerouting") = "tproxy"
             \/ Verdict(p, "quic_forward") = "drop"
  <2>1. Passes("lan", p)
    BY <1>4 DEF Passes
  <2>2. /\ Hit(QuicRules(c, "lan", "tproxy"), M, "tproxy")
        /\ Hit(QuicRules(c, "lan", "drop"), M, "drop")
    BY <1>1, <1>4, <2>1, QuicHits
  <2>3. CASE proxy_udp(c) /\ Covered(f, "tproxy_prerouting")
    <3>1. Full(c, f, "tproxy_prerouting") = QuicRules(c, "lan", "tproxy")
      BY <2>3 DEF Full, When
    <3> QED
      BY <2>2, <2>3, <3>1, CompleteVerdict DEF Chains
  <2>4. CASE Covered(f, "quic_forward")
    <3>1. Full(c, f, "quic_forward") = QuicRules(c, "lan", "drop")
      BY DEF Full
    <3> QED
      BY <2>2, <2>4, <3>1, CompleteVerdict DEF Chains
  <2> QED
    BY <2>3, <2>4 DEF Whole
<1>5. ASSUME c.local_traffic, p.to_lan, IsQuic(c, p)
      PROVE  Verdict(p, "quic_output") = "drop"
  <2>1. Passes("to_lan", p)
    BY <1>5 DEF Passes
  <2>2. Hit(QuicRules(c, "to_lan", "drop"), M, "drop")
    BY <1>1, <1>5, <2>1, QuicHits
  <2>3. Full(c, f, "quic_output") = QuicRules(c, "to_lan", "drop")
    BY <1>5 DEF Full, When
  <2> QED
    BY <2>2, <2>3, CompleteVerdict DEF Whole, Chains
<1>6. ASSUME p.from = "lan", ~(p.dport = 53 /\ dns_target(c, f)), Proxied(c, p),
             c.allPorts => ~ToThisHost(p)
      PROVE  Verdict(p, "prerouting") = "redirect"
  BY <1>1, <1>3, <1>6, PreroutingHits
<1>7. ASSUME p.from = "lan", p.dport = 53, dns_target(c, f)
      PROVE  Verdict(p, "prerouting") = "dnat"
  BY <1>1, <1>3, <1>7, PreroutingHits
<1> QED
  BY <1>2, <1>4, <1>5, <1>6, <1>7

(* A packet that the proxy has marked leaves the output chain at once, even in a
   table of an earlier program. *)
LEMMA MarkedReturns ==
    ASSUME FirewallInv, platform = "linux", NEW p \in Packets, p.marked
    PROVE  Verdict(p, "output") # "redirect"
<1> DEFINE s == rules[p.fam]["output"]
           M == Matching(p)
<1>1. s \in Seq(Rule) /\ (s # << >> => s[1] = MarkReturn[1])
  <2>1. p.fam \in Families /\ "output" \in Chains
    BY PacketIs DEF Chains
  <2> QED
    BY <2>1 DEF FirewallInv, Typed, Nft, MarkedFirst
<1>2. /\ Miss(s, M) => Verdict(p, "output") = "none"
      /\ Verdict(p, "output") # "none" => Hit(s, M, Verdict(p, "output"))
      /\ \A v : Hit(s, M, v) => Verdict(p, "output") = v
  BY <1>1, VerdictIs
<1>3. MarkReturn[1] \in M /\ MarkReturn[1].verdict = "return"
  <2> DEFINE q == Match("any", "any", AnyPort, "any", "return")
             r == [q EXCEPT !.marked = TRUE]
  <2>1. q \in Rule
    BY MatchIsRule
  <2>2. /\ r \in Rule /\ r.via = "any" /\ r.proto = "any" /\ r.dport = AnyPort /\ r.dst = "any"
        /\ r.marked = TRUE /\ r.verdict = "return"
    BY <2>1 DEF Match, Rule
  <2>3. MarkReturn[1] = r
    BY DEF MarkReturn
  <2> HIDE DEF r
  <2>4. Matches(r, p)
    BY <2>2 DEF Matches
  <2> QED
    BY <2>2, <2>3, <2>4 DEF Matching
<1> HIDE DEF s, M
<1>4. CASE s = << >>
  <2>1. Miss(s, M)
    BY <1>4, NoRules0
  <2> QED
    BY <1>2, <2>1
<1>5. CASE s # << >>
  <2>1. 1 \in 1..Len(s) /\ 1..(1 - 1) = {}
    BY <1>1, <1>5
  <2>2. Hit(s, M, "return")
    BY <1>1, <1>3, <1>5, <2>1 DEF Hit
  <2> QED
    BY <1>2, <2>2
<1> QED
  BY <1>4, <1>5

(* Decision, on Linux, by the verdicts. *)
LEMMA LinuxOutcome ==
    ASSUME platform = "linux", NEW p \in Packets, Outcome(p) = "proxy"
    PROVE  \/ p.from = "gateway" /\ Verdict(p, "output") = "redirect"
           \/ p.from # "gateway" /\ Verdict(p, "prerouting") = "redirect"
  BY DEF Outcome, Decision

(* After a set-up: what becomes of a packet is what the policy says. *)
LEMMA LinuxPolicy ==
    ASSUME FirewallInv, platform = "linux", todo = << >>, NEW p \in Packets, p.fam \notin old,
           Whole(p.fam)
    PROVE  Decision(p) \in NftPolicy(config, p)
<1> DEFINE c == config
           diverted == p.dport = 53 /\ dns_target(c, p.fam)
<1>0. p.dst \in {"iface", "local"} => ~p.to_lan
  BY PacketIs
<1>1. IsQuic(c, p) => p.proto = "udp" /\ p.dport # 53
  <2>1. quic_block_ports(c) \in Seq(Dports \ {53})
    BY QuicPorts DEF FirewallInv, Typed
  <2> QED
    BY <2>1 DEF IsQuic
<1>2. Proxied(c, p) => p.proto = "tcp"
  BY DEF Proxied
<1>3. CASE p.from = "wan"
  <2>1. /\ Verdict(p, "tproxy_prerouting") # "tproxy" /\ Verdict(p, "prerouting") # "redirect"
        /\ Verdict(p, "prerouting") # "dnat" /\ Verdict(p, "quic_forward") # "drop"
    BY <1>3, AtMost
  <2> QED
    BY <1>3, <2>1 DEF Decision, NftPolicy
<1>4. CASE p.from = "gateway"
  <2>1. Verdict(p, "quic_output") = "drop" <=> c.local_traffic /\ p.to_lan /\ IsQuic(c, p)
    BY AtMost, AtLeast
  <2>2. Verdict(p, "output") = "redirect" <=>
           c.local_traffic /\ ~p.marked /\ ~ToThisHost(p) /\ Proxied(c, p) /\ ~ToUpstream(c, p)
    BY AtMost, AtLeast
  <2>3. Decision(p) = IF Verdict(p, "quic_output") = "drop" THEN "drop"
                      ELSE IF Verdict(p, "output") = "redirect" THEN "proxy" ELSE "pass"
    BY <1>4 DEF Decision
  <2>4. NftPolicy(c, p) =
            IF ~c.local_traffic THEN {"pass"}
            ELSE IF IsQuic(c, p) /\ p.to_lan THEN {"drop"}
            ELSE IF p.marked \/ ToThisHost(p) \/ ToUpstream(c, p) \/ ~Proxied(c, p) THEN {"pass"}
            ELSE {"proxy"}
    BY <1>4 DEF NftPolicy
  <2> QED
    BY <1>2, <2>1, <2>2, <2>3, <2>4
<1>5. CASE p.from = "lan"
  <2>1. Verdict(p, "tproxy_prerouting") = "tproxy" => proxy_udp(c) /\ IsQuic(c, p)
    BY AtMost
  <2>2. Verdict(p, "quic_forward") = "drop" => IsQuic(c, p)
    BY AtMost
  <2>3. IsQuic(c, p) => \/ proxy_udp(c) /\ Verdict(p, "tproxy_prerouting") = "tproxy"
                        \/ Verdict(p, "quic_forward") = "drop"
    BY <1>5, AtLeast
  <2>4. Verdict(p, "prerouting") = "redirect" <=>
           ~diverted /\ Proxied(c, p) /\ (c.allPorts => ~ToThisHost(p))
    BY <1>5, AtMost, AtLeast
  <2>5. Verdict(p, "prerouting") = "dnat" <=> diverted
    BY <1>5, AtMost, AtLeast
  <2>6. Decision(p) =
            IF Verdict(p, "tproxy_prerouting") = "tproxy" THEN "relay"
            ELSE IF Verdict(p, "prerouting") = "redirect" THEN "proxy"
            ELSE IF Verdict(p, "prerouting") = "dnat" THEN "dns"
            ELSE IF ~ToThisHost(p) /\ Verdict(p, "quic_forward") = "drop" THEN "drop" ELSE "pass"
    BY <1>5 DEF Decision
  <2>7. NftPolicy(c, p) =
            IF diverted THEN {"dns"}
            ELSE IF IsQuic(c, p)
                 THEN (IF ToThisHost(p) THEN {"pass"} ELSE {"drop"})
                        \cup (IF proxy_udp(c) THEN {"relay"} ELSE {})
            ELSE IF Proxied(c, p) /\ (c.allPorts => ~ToThisHost(p)) THEN {"proxy"} ELSE {"pass"}
    BY <1>5 DEF NftPolicy
  <2> QED
    BY <1>1, <1>2, <2>1, <2>2, <2>3, <2>4, <2>5, <2>6, <2>7
<1> QED
  BY <1>3, <1>4, <1>5, PacketIs

-----------------------------------------------------------------------------
(***************************************************************************)
(* macOS: what the translation rules of an anchor do with a packet.         *)
(***************************************************************************)

PfRules ==
    [on : {"lan", "lo0"}, fam : Families, proto : {"tcp", "udp"}, dports : SUBSET (Dports \cup {AnyPort}),
     dst : {"any", "iface", "upstream"}, verdict : {"dns", "proxy", "no rdr"}]

(* The rules that match a packet on an interface. *)
PfMatching(p, on) ==
    {r \in PfRules : /\ r.on = on /\ r.fam = p.fam /\ r.proto = p.proto
                     /\ r.dports \cap {AnyPort, p.dport} # {}
                     /\ r.dst \in {"any", p.dst}}

PfMeets(at, f, proto, dports, dst, p, on) ==
    /\ at = on /\ f = p.fam /\ proto = p.proto /\ dports \cap {AnyPort, p.dport} # {}
    /\ dst \in {"any", p.dst}

(* A rule has its verdict and matches what it is meant to match. *)
Stands(r, at, f, proto, dports, dst, verdict, p, on) ==
    /\ r \in PfRules /\ r.verdict = verdict
    /\ r \in PfMatching(p, on) <=> PfMeets(at, f, proto, dports, dst, p, on)

(* As PfRule builds it. *)
LEMMA PfRuleMatches ==
    ASSUME NEW at \in {"lan", "lo0"}, NEW f \in Families, NEW proto \in {"tcp", "udp"},
           NEW dports \in SUBSET (Dports \cup {AnyPort}), NEW dst \in {"any", "iface", "upstream"},
           NEW verdict \in {"dns", "proxy", "no rdr"}, NEW p, NEW on
    PROVE  Stands(PfRule(at, f, proto, dports, dst, verdict), at, f, proto, dports, dst, verdict, p, on)
<1> DEFINE r == PfRule(at, f, proto, dports, dst, verdict)
<1>1. /\ r.on = at /\ r.fam = f /\ r.proto = proto /\ r.dports = dports /\ r.dst = dst
      /\ r.verdict = verdict
  BY DEF PfRule
<1>2. r \in PfRules
  BY DEF PfRule, PfRules
<1> HIDE DEF r
<1>3. r \in PfMatching(p, on) <=> PfMeets(at, f, proto, dports, dst, p, on)
  BY <1>1, <1>2 DEF PfMatching, PfMeets
<1>4. Stands(r, at, f, proto, dports, dst, verdict, p, on)
  BY <1>1, <1>2, <1>3 DEF Stands
<1> QED
  BY <1>4 DEF r

(* Sequences of no rule, *)
LEMMA NoPfRules == << >> \in Seq(PfRules)
  OBVIOUS

(* and of one. *)
LEMMA OnePfRule ==
    ASSUME NEW r \in PfRules
    PROVE  <<r>> \in Seq(PfRules)
  OBVIOUS

(* HitConcat and MissConcat together. *)
LEMMA ConcatHits ==
    ASSUME NEW S, NEW s \in Seq(S), NEW t \in Seq(S), NEW M
    PROVE  /\ s \o t \in Seq(S)
           /\ Miss(s \o t, M) <=> Miss(s, M) /\ Miss(t, M)
           /\ \A v : Hit(s \o t, M, v) <=> Hit(s, M, v) \/ (Miss(s, M) /\ Hit(t, M, v))
<1>1. s \o t \in Seq(S)
  OBVIOUS
<1>2. \A v : Hit(s \o t, M, v) <=> Hit(s, M, v) \/ (Miss(s, M) /\ Hit(t, M, v))
  BY HitConcat
<1> QED
  BY <1>1, <1>2, MissConcat

(* The ports of a rule: all, or those of the list. *)
LEMMA PortFilterIs ==
    ASSUME NEW c \in Configs, NEW p \in Packets
    PROVE  /\ PortFilter(c) \in SUBSET (Dports \cup {AnyPort})
           /\ PortFilter(c) \cap {AnyPort, p.dport} # {} <=> c.allPorts \/ InPorts(c, p)
<1>1. c.ports \in Seq(Dports) /\ Dports \subseteq Nat \ {0}
  BY ConfigsAssumption, FirewallAssumption DEF Config
<1>2. DOMAIN c.ports = 1..Len(c.ports) /\ \A i \in 1..Len(c.ports) : c.ports[i] \in Dports /\ c.ports[i] # AnyPort
  BY <1>1 DEF AnyPort
<1>3. CASE c.allPorts
  BY <1>3 DEF PortFilter
<1>4. CASE ~c.allPorts
  <2>1. PortFilter(c) = {c.ports[i] : i \in 1..Len(c.ports)}
    BY <1>2, <1>4 DEF PortFilter
  <2> QED
    BY <1>2, <1>4, <2>1 DEF InPorts
<1> QED
  BY <1>3, <1>4

(* The rules for DNS. *)
LEMMA DnsRdrHits ==
    ASSUME NEW c \in Configs, NEW f \in Families, NEW p \in Packets, NEW on \in {"lan", "lo0"}
    PROVE  LET F == dns_rdr(c, f)
               M == PfMatching(p, on)
               diverted == on = "lan" /\ f = p.fam /\ p.dport = 53 /\ dns_target(c, f)
           IN  /\ F \in Seq(PfRules)
               /\ \A v : Hit(F, M, v) <=> v = "dns" /\ diverted
               /\ Miss(F, M) <=> ~diverted
<1> DEFINE M == PfMatching(p, on)
           r == PfRule("lan", f, "udp", {53}, "any", "dns")
           t == PfRule("lan", f, "tcp", {53}, "any", "dns")
           diverted == on = "lan" /\ f = p.fam /\ p.dport = 53 /\ dns_target(c, f)
<1>0. p.proto \in {"tcp", "udp"} /\ AnyPort = 0 /\ {53} \in SUBSET (Dports \cup {AnyPort})
  BY PacketIs, FirewallAssumption DEF AnyPort
<1>1. {53} \cap {AnyPort, p.dport} # {} <=> p.dport = 53
  <2>1. \A S : {53} \cap S # {} <=> 53 \in S
    OBVIOUS
  <2>2. 53 \in {AnyPort, p.dport} <=> p.dport = 53
    BY <1>0
  <2> QED
    BY <2>1, <2>2
<1>2. Stands(r, "lan", f, "udp", {53}, "any", "dns", p, on)
  BY <1>0, PfRuleMatches
<1>3. Stands(t, "lan", f, "tcp", {53}, "any", "dns", p, on)
  BY <1>0, PfRuleMatches
<1>4. dns_rdr(c, f) = IF dns_target(c, f) THEN <<r, t>> ELSE << >>
  BY DEF dns_rdr, When
<1> HIDE DEF r, t
<1>5. r \in M \/ t \in M <=> on = "lan" /\ f = p.fam /\ p.dport = 53
  BY <1>0, <1>1, <1>2, <1>3 DEF PfMeets, Stands
<1> DEFINE F == <<r, t>>
<1>6. /\ F \in Seq(PfRules) /\ Len(F) = 2 /\ F[1] = r /\ F[2] = t /\ 1..2 = {1, 2}
  BY <1>2, <1>3 DEF Stands
<1> HIDE DEF F, M
<1>7. Miss(F, M) <=> ~(r \in M \/ t \in M)
  BY <1>6 DEF Miss
<1>8. \A v : Hit(F, M, v) <=> v = "dns" /\ ~Miss(F, M)
  <2>1. \A i \in 1..Len(F) : F[i].verdict = "dns"
    BY <1>2, <1>3, <1>6 DEF Stands
  <2> QED
    BY <1>6, <2>1, SameVerdict
<1>9. /\ Miss(<< >>, M) /\ \A v : ~Hit(<< >>, M, v)
      /\ << >> \in Seq(PfRules)
  BY NoRules0, NoPfRules
<1>10. CASE dns_target(c, f)
  <2>1. dns_rdr(c, f) = F
    BY <1>4, <1>10 DEF F
  <2> QED
    BY <1>5, <1>6, <1>7, <1>8, <1>10, <2>1 DEF M
<1>11. CASE ~dns_target(c, f)
  BY <1>4, <1>9, <1>11 DEF M
<1> QED
  BY <1>10, <1>11

(* The exceptions: what is for the interface, and what is for the upstream. *)
LEMMA NoRdrHits ==
    ASSUME NEW c \in Configs, NEW f \in Families, NEW p \in Packets, NEW on \in {"lan", "lo0"}
    PROVE  LET L == local_no_rdr(c, f)
               N == no_rdr(c)
               M == PfMatching(p, on)
           IN  /\ L \in Seq(PfRules) /\ N \in Seq(PfRules)
               /\ \A v : Hit(L, M, v) \/ Hit(N, M, v) => v = "no rdr"
               /\ Miss(L, M) <=> ~(on = "lan" /\ f = p.fam /\ f \in c.addrs /\ Proxied(c, p) /\ p.dst = "iface")
               /\ Miss(N, M) <=> ~(on = "lo0" /\ PassesToUpstream(c, p))
<1> DEFINE M == PfMatching(p, on)
           r == PfRule("lan", f, "tcp", PortFilter(c), "iface", "no rdr")
           u == upstream_addr(c)
           t == PfRule("lo0", u, "tcp", {UpPort}, "upstream", "no rdr")
<1>1. /\ p.fam \in Families /\ AnyPort = 0 /\ {UpPort} \in SUBSET (Dports \cup {AnyPort}) /\ UpPort # 0
      /\ PortFilter(c) \in SUBSET (Dports \cup {AnyPort})
      /\ PortFilter(c) \cap {AnyPort, p.dport} # {} <=> c.allPorts \/ InPorts(c, p)
  BY PacketIs, FirewallAssumption, PortFilterIs DEF AnyPort
<1>2. {UpPort} \cap {AnyPort, p.dport} # {} <=> p.dport = UpPort
  BY <1>1
<1>3. Proxied(c, p) <=> p.proto = "tcp" /\ (c.allPorts \/ InPorts(c, p))
  BY ProxiedIs
<1>4. Stands(r, "lan", f, "tcp", PortFilter(c), "iface", "no rdr", p, on)
  BY <1>1, PfRuleMatches
<1>5. u \in Families \cup {"none"} /\ "none" \notin Families
  BY ConfigsAssumption DEF Config, upstream_addr, Families
<1>6. u # "none" => Stands(t, "lo0", u, "tcp", {UpPort}, "upstream", "no rdr", p, on)
  <2> HIDE DEF u
  <2> QED
    BY <1>1, <1>5, PfRuleMatches
<1>7. local_no_rdr(c, f) = IF f \in c.addrs THEN <<r>> ELSE << >>
  BY DEF local_no_rdr, When
<1>8. no_rdr(c) = IF u # "none" THEN <<t>> ELSE << >>
  BY DEF no_rdr, When
<1>9. PassesToUpstream(c, p) <=> p.proto = "tcp" /\ p.dst = "upstream" /\ p.dport = UpPort /\ p.fam = u
  BY DEF PassesToUpstream
<1> HIDE DEF r, t, u
<1>10. r \in M <=> on = "lan" /\ f = p.fam /\ Proxied(c, p) /\ p.dst = "iface"
  BY <1>1, <1>3, <1>4 DEF PfMeets, Stands
<1>11. u # "none" => (t \in M <=> on = "lo0" /\ PassesToUpstream(c, p))
  BY <1>2, <1>6, <1>9 DEF PfMeets, Stands
<1> HIDE DEF M
<1>12. /\ Miss(<< >>, M) /\ \A v : ~Hit(<< >>, M, v)
       /\ << >> \in Seq(PfRules)
  BY NoRules0, NoPfRules
<1>13. /\ Miss(<<r>>, M) <=> r \notin M
       /\ \A v : Hit(<<r>>, M, v) => v = "no rdr"
       /\ <<r>> \in Seq(PfRules)
  <2>1. r \in PfRules /\ r.verdict = "no rdr"
    BY <1>4 DEF Stands
  <2>2. <<r>> \in Seq(PfRules)
    BY <2>1, OnePfRule
  <2> QED
    BY <2>1, <2>2, OneRule
<1>14. u # "none" => /\ Miss(<<t>>, M) <=> t \notin M
                     /\ \A v : Hit(<<t>>, M, v) => v = "no rdr"
                     /\ <<t>> \in Seq(PfRules)
  <2>1. u # "none" => t \in PfRules /\ t.verdict = "no rdr"
    BY <1>6 DEF Stands
  <2>2. u # "none" => <<t>> \in Seq(PfRules)
    BY <2>1, OnePfRule
  <2> QED
    BY <2>1, <2>2, OneRule
<1>15. /\ local_no_rdr(c, f) \in Seq(PfRules)
       /\ \A v : Hit(local_no_rdr(c, f), M, v) => v = "no rdr"
       /\ Miss(local_no_rdr(c, f), M) <=>
             ~(on = "lan" /\ f = p.fam /\ f \in c.addrs /\ Proxied(c, p) /\ p.dst = "iface")
  BY <1>7, <1>10, <1>12, <1>13
<1>16. /\ no_rdr(c) \in Seq(PfRules)
       /\ \A v : Hit(no_rdr(c), M, v) => v = "no rdr"
       /\ Miss(no_rdr(c), M) <=> ~(on = "lo0" /\ PassesToUpstream(c, p))
  <2>1. CASE u # "none"
    BY <1>8, <1>11, <1>14, <2>1
  <2>2. CASE u = "none"
    BY <1>1, <1>5, <1>8, <1>9, <1>12, <2>2
  <2> QED
    BY <2>1, <2>2
<1> QED
  BY <1>15, <1>16 DEF M

(* The redirects, on the interface, and on lo0 where the upstream is known. *)
LEMMA RedirectsHits ==
    ASSUME NEW c \in Configs, NEW f \in Families, NEW p \in Packets, NEW on \in {"lan", "lo0"}
    PROVE  LET R == Redirects(c, f)
               M == PfMatching(p, on)
               redirected == f = p.fam /\ Proxied(c, p) /\ (on = "lo0" => upstream_addr(c) # "none")
           IN  /\ R \in Seq(PfRules)
               /\ \A v : Hit(R, M, v) <=> v = "proxy" /\ redirected
               /\ Miss(R, M) <=> ~redirected
<1> DEFINE M == PfMatching(p, on)
           r == PfRule("lan", f, "tcp", PortFilter(c), "any", "proxy")
           t == PfRule("lo0", f, "tcp", PortFilter(c), "any", "proxy")
           u == upstream_addr(c)
           W == IF u # "none" THEN <<t>> ELSE << >>
<1>1. /\ PortFilter(c) \in SUBSET (Dports \cup {AnyPort})
      /\ PortFilter(c) \cap {AnyPort, p.dport} # {} <=> c.allPorts \/ InPorts(c, p)
  BY PortFilterIs
<1>2. Proxied(c, p) <=> p.proto = "tcp" /\ (c.allPorts \/ InPorts(c, p))
  BY ProxiedIs
<1>3. Stands(r, "lan", f, "tcp", PortFilter(c), "any", "proxy", p, on)
  BY <1>1, PfRuleMatches
<1>4. Stands(t, "lo0", f, "tcp", PortFilter(c), "any", "proxy", p, on)
  BY <1>1, PfRuleMatches
<1>5. Redirects(c, f) = <<r>> \o W
  BY DEF Redirects, When
<1> HIDE DEF r, t, u
<1>6. /\ r \in M <=> on = "lan" /\ f = p.fam /\ Proxied(c, p)
      /\ t \in M <=> on = "lo0" /\ f = p.fam /\ Proxied(c, p)
  BY <1>1, <1>2, <1>3, <1>4 DEF PfMeets, Stands
<1> HIDE DEF M
<1>7. /\ Miss(<< >>, M) /\ \A v : ~Hit(<< >>, M, v)
      /\ << >> \in Seq(PfRules)
  BY NoRules0, NoPfRules
<1>8. /\ Miss(<<r>>, M) <=> r \notin M
      /\ \A v : Hit(<<r>>, M, v) <=> v = "proxy" /\ r \in M
      /\ <<r>> \in Seq(PfRules)
  <2>1. r \in PfRules /\ r.verdict = "proxy"
    BY <1>3 DEF Stands
  <2>2. <<r>> \in Seq(PfRules)
    BY <2>1, OnePfRule
  <2> QED
    BY <2>1, <2>2, OneRule
<1>9. /\ Miss(<<t>>, M) <=> t \notin M
      /\ \A v : Hit(<<t>>, M, v) <=> v = "proxy" /\ t \in M
      /\ <<t>> \in Seq(PfRules)
  <2>1. t \in PfRules /\ t.verdict = "proxy"
    BY <1>4 DEF Stands
  <2>2. <<t>> \in Seq(PfRules)
    BY <2>1, OnePfRule
  <2> QED
    BY <2>1, <2>2, OneRule
<1>10. /\ W \in Seq(PfRules)
       /\ Miss(W, M) <=> ~(u # "none" /\ t \in M)
       /\ \A v : Hit(W, M, v) <=> v = "proxy" /\ u # "none" /\ t \in M
  BY <1>7, <1>9
<1> DEFINE H == <<r>>
<1>11. /\ Miss(H, M) <=> r \notin M
       /\ \A v : Hit(H, M, v) <=> v = "proxy" /\ r \in M
       /\ H \in Seq(PfRules)
  BY <1>8
<1>12. Redirects(c, f) = H \o W
  BY <1>5
<1> HIDE DEF W, H
<1>13. /\ H \o W \in Seq(PfRules)
       /\ Miss(H \o W, M) <=> Miss(H, M) /\ Miss(W, M)
       /\ \A v : Hit(H \o W, M, v) <=> Hit(H, M, v) \/ (Miss(H, M) /\ Hit(W, M, v))
  BY <1>10, <1>11, ConcatHits
<1> QED
  BY <1>6, <1>10, <1>11, <1>12, <1>13 DEF M, u

(* The rules of an anchor, on either interface. *)
LEMMA TranslationHits ==
    ASSUME NEW c \in Configs, NEW p \in Packets, NEW on \in {"lan", "lo0"}
    PROVE  LET F == Translation(c)
               M == PfMatching(p, on)
               diverted == on = "lan" /\ p.dport = 53 /\ dns_target(c, p.fam)
               kept == on = "lan" /\ p.fam \in c.addrs /\ p.dst = "iface"
           IN  /\ F \in Seq(PfRules)
               /\ Hit(F, M, "dns") <=> diverted
               /\ Hit(F, M, "proxy") <=>
                     /\ Proxied(c, p) /\ ~diverted /\ ~kept
                     /\ on = "lo0" => upstream_addr(c) # "none" /\ ~PassesToUpstream(c, p)
<1> DEFINE M == PfMatching(p, on)
           N == no_rdr(c)
           D4 == dns_rdr(c, "ip")
           D6 == dns_rdr(c, "ip6")
           L4 == local_no_rdr(c, "ip")
           L6 == local_no_rdr(c, "ip6")
           R4 == Redirects(c, "ip")
           R6 == Redirects(c, "ip6")
           diverted(f) == on = "lan" /\ f = p.fam /\ p.dport = 53 /\ dns_target(c, f)
           kept(f) == on = "lan" /\ f = p.fam /\ f \in c.addrs /\ Proxied(c, p) /\ p.dst = "iface"
           redirected(f) == f = p.fam /\ Proxied(c, p) /\ (on = "lo0" => upstream_addr(c) # "none")
<1>0. "ip" \in Families /\ "ip6" \in Families /\ p.fam \in {"ip", "ip6"}
  BY PacketIs DEF Families
<1>1. /\ D4 \in Seq(PfRules) /\ D6 \in Seq(PfRules)
      /\ Miss(D4, M) <=> ~diverted("ip")
      /\ Miss(D6, M) <=> ~diverted("ip6")
      /\ \A v : Hit(D4, M, v) <=> v = "dns" /\ diverted("ip")
      /\ \A v : Hit(D6, M, v) <=> v = "dns" /\ diverted("ip6")
  BY <1>0, DnsRdrHits
<1>2. /\ N \in Seq(PfRules) /\ L4 \in Seq(PfRules) /\ L6 \in Seq(PfRules)
      /\ Miss(N, M) <=> ~(on = "lo0" /\ PassesToUpstream(c, p))
      /\ Miss(L4, M) <=> ~kept("ip")
      /\ Miss(L6, M) <=> ~kept("ip6")
      /\ \A v : Hit(N, M, v) \/ Hit(L4, M, v) \/ Hit(L6, M, v) => v = "no rdr"
  BY <1>0, NoRdrHits
<1>3. /\ R4 \in Seq(PfRules) /\ R6 \in Seq(PfRules)
      /\ Miss(R4, M) <=> ~redirected("ip")
      /\ Miss(R6, M) <=> ~redirected("ip6")
      /\ \A v : Hit(R4, M, v) <=> v = "proxy" /\ redirected("ip")
      /\ \A v : Hit(R6, M, v) <=> v = "proxy" /\ redirected("ip6")
  BY <1>0, RedirectsHits
<1> DEFINE C1 == N \o D4
           C2 == C1 \o D6
           C3 == C2 \o L4
           C4 == C3 \o L6
           C5 == C4 \o R4
           C6 == C5 \o R6
<1>4. Translation(c) = C6
  BY DEF Translation
<1> HIDE DEF M, N, D4, D6, L4, L6, R4, R6, diverted, kept, redirected
<1>5. /\ C1 \in Seq(PfRules)
      /\ Miss(C1, M) <=> Miss(N, M) /\ Miss(D4, M)
      /\ \A v : Hit(C1, M, v) <=> Hit(N, M, v) \/ (Miss(N, M) /\ Hit(D4, M, v))
  BY <1>1, <1>2, ConcatHits
<1> HIDE DEF C1
<1>6. /\ C2 \in Seq(PfRules)
      /\ Miss(C2, M) <=> Miss(C1, M) /\ Miss(D6, M)
      /\ \A v : Hit(C2, M, v) <=> Hit(C1, M, v) \/ (Miss(C1, M) /\ Hit(D6, M, v))
  BY <1>1, <1>5, ConcatHits
<1> HIDE DEF C2
<1>7. /\ C3 \in Seq(PfRules)
      /\ Miss(C3, M) <=> Miss(C2, M) /\ Miss(L4, M)
      /\ \A v : Hit(C3, M, v) <=> Hit(C2, M, v) \/ (Miss(C2, M) /\ Hit(L4, M, v))
  BY <1>2, <1>6, ConcatHits
<1> HIDE DEF C3
<1>8. /\ C4 \in Seq(PfRules)
      /\ Miss(C4, M) <=> Miss(C3, M) /\ Miss(L6, M)
      /\ \A v : Hit(C4, M, v) <=> Hit(C3, M, v) \/ (Miss(C3, M) /\ Hit(L6, M, v))
  BY <1>2, <1>7, ConcatHits
<1> HIDE DEF C4
<1>9. /\ C5 \in Seq(PfRules)
      /\ Miss(C5, M) <=> Miss(C4, M) /\ Miss(R4, M)
      /\ \A v : Hit(C5, M, v) <=> Hit(C4, M, v) \/ (Miss(C4, M) /\ Hit(R4, M, v))
  BY <1>3, <1>8, ConcatHits
<1> HIDE DEF C5
<1>10. /\ C6 \in Seq(PfRules)
       /\ \A v : Hit(C6, M, v) <=> Hit(C5, M, v) \/ (Miss(C5, M) /\ Hit(R6, M, v))
  BY <1>3, <1>9, ConcatHits
<1> HIDE DEF C6
<1>11. /\ ~(diverted("ip") /\ diverted("ip6"))
       /\ diverted("ip") \/ diverted("ip6") <=> on = "lan" /\ p.dport = 53 /\ dns_target(c, p.fam)
       /\ kept("ip") \/ kept("ip6") <=>
             on = "lan" /\ p.fam \in c.addrs /\ Proxied(c, p) /\ p.dst = "iface"
       /\ redirected("ip") \/ redirected("ip6") <=>
             Proxied(c, p) /\ (on = "lo0" => upstream_addr(c) # "none")
  BY <1>0 DEF diverted, kept, redirected
<1>12. Hit(C6, M, "dns") <=> ~(on = "lo0" /\ PassesToUpstream(c, p)) /\ (diverted("ip") \/ diverted("ip6"))
  BY <1>1, <1>2, <1>3, <1>5, <1>6, <1>7, <1>8, <1>9, <1>10
<1>13. Hit(C6, M, "proxy") <=> /\ ~(on = "lo0" /\ PassesToUpstream(c, p))
                               /\ ~diverted("ip") /\ ~diverted("ip6") /\ ~kept("ip") /\ ~kept("ip6")
                               /\ redirected("ip") \/ redirected("ip6")
  BY <1>1, <1>2, <1>3, <1>5, <1>6, <1>7, <1>8, <1>9, <1>10
<1>14. Hit(C6, M, "dns") <=> on = "lan" /\ p.dport = 53 /\ dns_target(c, p.fam)
  BY <1>11, <1>12
<1>15. Hit(C6, M, "proxy") <=>
          /\ Proxied(c, p) /\ ~(on = "lan" /\ p.dport = 53 /\ dns_target(c, p.fam))
          /\ ~(on = "lan" /\ p.fam \in c.addrs /\ p.dst = "iface")
          /\ on = "lo0" => upstream_addr(c) # "none" /\ ~PassesToUpstream(c, p)
  BY <1>11, <1>13
<1> QED
  BY <1>4, <1>10, <1>14, <1>15 DEF M

(* The first translation rule that matches, by position. *)
LEMMA TranslatedIs ==
    ASSUME anchor \in Configs, NEW p \in Packets, NEW on \in {"lan", "lo0"}
    PROVE  LET F == Translation(anchor)
               M == PfMatching(p, on)
           IN  /\ Translated(p, on) # "no rdr" => Hit(F, M, Translated(p, on))
               /\ \A v : Hit(F, M, v) /\ "rdr-anchor" \in main => Translated(p, on) = v
<1> DEFINE s == Translation(anchor)
           M == PfMatching(p, on)
           hits == {i \in DOMAIN s :
                       /\ s[i].on = on /\ s[i].fam = p.fam /\ s[i].proto = p.proto
                       /\ s[i].dports \cap {AnyPort, p.dport} # {}
                       /\ s[i].dst \in {"any", p.dst}}
<1>1. s \in Seq(PfRules)
  BY TranslationHits
<1>2. Translated(p, on) = IF "rdr-anchor" \notin main \/ hits = {} THEN "no rdr" ELSE s[Min(hits)].verdict
  BY DEF Translated
<1> HIDE DEF s
<1>3. Len(s) \in Nat /\ DOMAIN s = 1..Len(s) /\ \A i \in 1..Len(s) : s[i] \in PfRules
  BY <1>1
<1>4. \A i \in 1..Len(s) : i \in hits <=> s[i] \in M
  BY <1>3 DEF PfMatching
<1>5. hits \in SUBSET Nat
  BY <1>3
<1>6. CASE hits = {}
  <2>1. \A v : ~Hit(s, M, v)
    BY <1>4, <1>6 DEF Hit
  <2> QED
    BY <1>2, <1>6, <2>1 DEF s
<1>7. CASE hits # {}
  <2> DEFINE k == Min(hits)
  <2>1. k \in hits /\ \A j \in hits : k =< j
    <3> HIDE DEF hits
    <3> QED
      BY <1>5, <1>7, MinIsLeast
  <2>2. k \in 1..Len(s) /\ s[k] \in M
    BY <1>3, <1>4, <2>1
  <2> HIDE DEF k
  <2>3. \A j \in 1..(k - 1) : j \in 1..Len(s) /\ ~(k =< j)
    BY <1>3, <2>2
  <2>4. \A j \in 1..(k - 1) : s[j] \notin M
    BY <1>4, <2>1, <2>3
  <2>5. Hit(s, M, s[k].verdict)
    BY <2>2, <2>4 DEF Hit
  <2>6. Translated(p, on) = IF "rdr-anchor" \notin main THEN "no rdr" ELSE s[k].verdict
    BY <1>2, <1>7 DEF k
  <2>7. \A v : Hit(s, M, v) => v = s[k].verdict
    BY <1>1, <2>5, HitUnique
  <2> QED
    BY <2>5, <2>6, <2>7 DEF s
<1> QED
  BY <1>6, <1>7

(* A verdict of the translation rules is one of these. *)
LEMMA TranslatedTo ==
    ASSUME anchor \in Configs, NEW p \in Packets, NEW on \in {"lan", "lo0"}
    PROVE  Translated(p, on) \in {"no rdr", "dns", "proxy"}
<1> DEFINE s == Translation(anchor)
<1>1. s \in Seq(PfRules)
  BY TranslationHits
<1>2. Translated(p, on) # "no rdr" => \E i \in 1..Len(s) : s[i].verdict = Translated(p, on)
  BY TranslatedIs DEF Hit
<1> HIDE DEF s
<1>3. \A i \in 1..Len(s) : s[i] \in PfRules
  BY <1>1
<1>4. \A r \in PfRules : r.verdict \in {"dns", "proxy", "no rdr"}
  BY DEF PfRules
<1> QED
  BY <1>2, <1>3, <1>4

(* What a loaded anchor does with a packet at most. *)
LEMMA PfAtMost ==
    ASSUME anchor \in Configs, NEW p \in Packets
    PROVE  LET c == anchor
               diverted == p.dport = 53 /\ dns_target(c, p.fam)
           IN  /\ Translated(p, "lan") = "dns" => diverted
               /\ Translated(p, "lan") = "proxy" =>
                     Proxied(c, p) /\ ~diverted /\ ~(p.fam \in c.addrs /\ p.dst = "iface")
               /\ Translated(p, "lan") \in {"no rdr", "dns", "proxy"}
               /\ Translated(p, "lo0") # "no rdr" =>
                     Proxied(c, p) /\ upstream_addr(c) # "none" /\ ~PassesToUpstream(c, p)
<1>1. /\ Translated(p, "lan") \in {"no rdr", "dns", "proxy"}
      /\ Translated(p, "lo0") \in {"no rdr", "dns", "proxy"}
  BY TranslatedTo
<1>2. /\ Translated(p, "lan") # "no rdr" =>
            Hit(Translation(anchor), PfMatching(p, "lan"), Translated(p, "lan"))
      /\ Translated(p, "lo0") # "no rdr" =>
            Hit(Translation(anchor), PfMatching(p, "lo0"), Translated(p, "lo0"))
  BY TranslatedIs
<1>3. /\ Hit(Translation(anchor), PfMatching(p, "lan"), "dns") =>
            p.dport = 53 /\ dns_target(anchor, p.fam)
      /\ Hit(Translation(anchor), PfMatching(p, "lan"), "proxy") =>
            /\ Proxied(anchor, p) /\ ~(p.dport = 53 /\ dns_target(anchor, p.fam))
            /\ ~(p.fam \in anchor.addrs /\ p.dst = "iface")
  BY TranslationHits
<1>4. /\ ~Hit(Translation(anchor), PfMatching(p, "lo0"), "dns")
      /\ Hit(Translation(anchor), PfMatching(p, "lo0"), "proxy") =>
            Proxied(anchor, p) /\ upstream_addr(anchor) # "none" /\ ~PassesToUpstream(anchor, p)
  BY TranslationHits
<1> QED
  BY <1>1, <1>2, <1>3, <1>4

(* And at least, once the main ruleset refers to it. *)
LEMMA PfAtLeast ==
    ASSUME anchor \in Configs, Refs \subseteq main, NEW p \in Packets
    PROVE  LET c == anchor
               diverted == p.dport = 53 /\ dns_target(c, p.fam)
           IN  /\ diverted => Translated(p, "lan") = "dns"
               /\ Proxied(c, p) /\ ~diverted /\ ~(p.fam \in c.addrs /\ p.dst = "iface")
                     => Translated(p, "lan") = "proxy"
               /\ Proxied(c, p) /\ upstream_addr(c) # "none" /\ ~PassesToUpstream(c, p)
                     => Translated(p, "lo0") = "proxy"
<1>1. "rdr-anchor" \in main
  BY DEF Refs
<1>2. /\ \A v : Hit(Translation(anchor), PfMatching(p, "lan"), v) => Translated(p, "lan") = v
      /\ \A v : Hit(Translation(anchor), PfMatching(p, "lo0"), v) => Translated(p, "lo0") = v
  BY <1>1, TranslatedIs
<1>3. /\ p.dport = 53 /\ dns_target(anchor, p.fam)
            => Hit(Translation(anchor), PfMatching(p, "lan"), "dns")
      /\ Proxied(anchor, p) /\ ~(p.dport = 53 /\ dns_target(anchor, p.fam))
         /\ ~(p.fam \in anchor.addrs /\ p.dst = "iface")
            => Hit(Translation(anchor), PfMatching(p, "lan"), "proxy")
  BY TranslationHits
<1>4. Proxied(anchor, p) /\ upstream_addr(anchor) # "none" /\ ~PassesToUpstream(anchor, p)
         => Hit(Translation(anchor), PfMatching(p, "lo0"), "proxy")
  BY TranslationHits
<1> QED
  BY <1>2, <1>3, <1>4

(* What pf redirects to the proxy: nothing without an anchor, what comes from the
   LAN by its rules for that interface, the rest by those for lo0. *)
LEMMA PfProxied ==
    ASSUME Typed, NEW p \in Packets, PfDecision(p) = "proxy"
    PROVE  /\ anchor \in Configs
           /\ \/ p.from = "lan" /\ Translated(p, "lan") = "proxy"
              \/ p.from # "lan" /\ Translated(p, "lo0") # "no rdr"
<1>1. anchor # NoConfig /\ anchor \in Configs
  BY DEF PfDecision, Typed
<1>2. p.from = "lan" => ~ReachesLo0(p)
  BY DEF ReachesLo0, OverLo0, LeavesByLan
<1>3. Translated(p, "lan") \in {"no rdr", "dns", "proxy"}
  BY <1>1, TranslatedTo
<1> QED
  BY <1>1, <1>2, <1>3 DEF PfDecision

(* The ports of a packet that a filter rule routes to lo0. *)
LEMMA RoutedIs ==
    ASSUME NEW c \in Configs, NEW p \in Packets
    PROVE  RoutedToLo0(c, p) <=>
              upstream_addr(c) # "none" /\ Proxied(c, p) /\ ~PassesToUpstream(c, p)
  BY PortFilterIs, ProxiedIs DEF RoutedToLo0

(* After a set-up: what becomes of a packet is what the policy says. *)
LEMMA MacosPolicy ==
    ASSUME Typed, anchor = config, anchor # NoConfig, Refs \subseteq main, enabled,
           NEW p \in Packets, p.dst = "iface" => p.fam \in config.addrs
    PROVE  PfDecision(p) \in PfPolicy(config, p)
<1> DEFINE c == config
           diverted == p.dport = 53 /\ dns_target(c, p.fam)
<1>0. /\ c \in Configs /\ anchor \in Configs /\ "anchor" \in main
      /\ p.dst \in {"iface", "local"} => ~p.to_lan
  BY PacketIs DEF Typed, Refs
<1>1. IsQuic(c, p) => p.proto = "udp" /\ p.dport # 53
  <2>1. quic_block_ports(c) \in Seq(Dports \ {53})
    BY <1>0, QuicPorts
  <2> QED
    BY <2>1 DEF IsQuic
<1>2. Proxied(c, p) => p.proto = "tcp"
  BY DEF Proxied
<1>3. QuicBlocked(c, p) <=> IsQuic(c, p)
  BY DEF QuicBlocked, IsQuic
<1>4. /\ Translated(p, "lan") = "dns" <=> diverted
      /\ Translated(p, "lan") = "proxy" <=> Proxied(c, p) /\ ~diverted /\ p.dst # "iface"
      /\ Translated(p, "lan") \in {"no rdr", "dns", "proxy"}
  BY <1>0, PfAtMost, PfAtLeast
<1>5. /\ Translated(p, "lo0") # "no rdr" <=>
            Proxied(c, p) /\ upstream_addr(c) # "none" /\ ~PassesToUpstream(c, p)
  <2>1. Translated(p, "lo0") # "no rdr" =>
            Proxied(c, p) /\ upstream_addr(c) # "none" /\ ~PassesToUpstream(c, p)
    BY <1>0, PfAtMost
  <2>2. Proxied(c, p) /\ upstream_addr(c) # "none" /\ ~PassesToUpstream(c, p) =>
            Translated(p, "lo0") = "proxy"
    BY <1>0, PfAtLeast
  <2> QED
    BY <2>1, <2>2
<1>6. Blocked(p) <=> IsQuic(c, p) /\ (p.from = "lan" \/ LeavesByLan(p))
  BY <1>0, <1>3 DEF Blocked
<1>7. CASE p.from = "lan"
  <2>1. ~ReachesLo0(p)
    BY <1>7 DEF ReachesLo0, OverLo0, LeavesByLan
  <2>2. PfDecision(p) = IF Translated(p, "lan") # "no rdr" THEN Translated(p, "lan")
                        ELSE IF IsQuic(c, p) THEN "drop" ELSE "pass"
    BY <1>6, <1>7, <2>1 DEF PfDecision
  <2>3. PfPolicy(c, p) = IF diverted THEN {"dns"}
                         ELSE IF IsQuic(c, p) THEN {"drop"}
                         ELSE IF Proxied(c, p) /\ p.dst # "iface" THEN {"proxy"} ELSE {"pass"}
    BY <1>7 DEF PfPolicy
  <2> HIDE DEF diverted
  <2>4. CASE diverted
    BY <1>4, <2>2, <2>3, <2>4
  <2>5. CASE ~diverted
    BY <1>1, <1>2, <1>4, <2>2, <2>3, <2>5
  <2> QED
    BY <2>4, <2>5
<1>8. CASE p.from # "lan"
  <2>1. PfDecision(p) = IF ReachesLo0(p) /\ Translated(p, "lo0") # "no rdr" THEN "proxy"
                        ELSE IF IsQuic(c, p) /\ LeavesByLan(p) THEN "drop" ELSE "pass"
    BY <1>6, <1>8 DEF PfDecision
  <2>2. CASE p.from = "gateway" /\ ToThisHost(p)
    <3>1. ~LeavesByLan(p)
      BY <2>2 DEF LeavesByLan, OverLo0
    <3>2. PfPolicy(c, p) = {"pass", "proxy"}
      BY <1>8, <2>2 DEF PfPolicy
    <3> QED
      BY <2>1, <3>1, <3>2
  <2>3. CASE ~(p.from = "gateway" /\ ToThisHost(p)) /\ ~p.to_lan
    <3>1. ~LeavesByLan(p) /\ (ReachesLo0(p) => p.from = "gateway" /\ p.dst = "upstream")
      BY <2>3 DEF LeavesByLan, ReachesLo0, OverLo0
    <3>2. PfPolicy(c, p) = IF p.from = "gateway" /\ p.dst = "upstream" THEN {"pass", "proxy"} ELSE {"pass"}
      BY <1>8, <2>3 DEF PfPolicy
    <3> QED
      BY <2>1, <3>1, <3>2
  <2>4. CASE ~(p.from = "gateway" /\ ToThisHost(p)) /\ p.to_lan
    <3>1. LeavesByLan(p) /\ (ReachesLo0(p) <=> RoutedToLo0(c, p))
      BY <1>0, <1>8, <2>4 DEF LeavesByLan, ReachesLo0, OverLo0
    <3>2. RoutedToLo0(c, p) <=> upstream_addr(c) # "none" /\ Proxied(c, p) /\ ~PassesToUpstream(c, p)
      BY <1>0, RoutedIs
    <3>3. PfPolicy(c, p) = IF IsQuic(c, p) THEN {"drop"}
                           ELSE IF c.local_traffic /\ c.upstream # "none" /\ Proxied(c, p) /\ ~ToUpstream(c, p)
                                THEN {"proxy"} ELSE {"pass"}
      BY <1>8, <2>4 DEF PfPolicy
    <3>4. /\ upstream_addr(c) # "none" <=> c.local_traffic /\ c.upstream # "none"
          /\ upstream_addr(c) # "none" => upstream_addr(c) = c.upstream
      BY DEF upstream_addr
    <3>5. upstream_addr(c) # "none" /\ p.proto = "tcp" => (PassesToUpstream(c, p) <=> ToUpstream(c, p))
      BY <3>4 DEF PassesToUpstream, ToUpstream
    <3> QED
      BY <1>1, <1>2, <1>5, <2>1, <3>1, <3>2, <3>3, <3>4, <3>5
  <2> QED
    BY <2>2, <2>3, <2>4
<1> QED
  BY <1>7, <1>8

-----------------------------------------------------------------------------
(***************************************************************************)
(* The properties.                                                         *)
(***************************************************************************)

(* The packets considered are those of the platform. *)
LEMMA TrafficIs ==
    ASSUME NEW p \in Traffic
    PROVE  /\ p \in Packets
           /\ platform # "linux" => ~p.marked /\ (p.dst = "iface" => p.fam \in config.addrs)
  BY DEF Traffic

(* What pf redirects, it redirects by the rules of the last set-up, unless they are stale. *)
LEMMA PfFresh ==
    ASSUME Typed, platform = "macos", NEW p \in Packets, ~Stale(p), Outcome(p) = "proxy"
    PROVE  /\ PfDecision(p) = "proxy" /\ anchor = config /\ config \in Configs
           /\ \/ p.from = "lan" /\ Translated(p, "lan") = "proxy"
              \/ p.from # "lan" /\ Translated(p, "lo0") # "no rdr"
<1>1. PfDecision(p) = "proxy"
  BY DEF Outcome
<1>2. anchor \in {config, NoConfig} /\ anchor # NoConfig
  BY <1>1 DEF Stale, PfDecision
<1> QED
  BY <1>1, <1>2, PfProxied DEF Typed

(* In no state is a packet of the proxy's own redirected back into the proxy
   (nftables.rs: the mark rule comes first in the output chain; pf.rs: no rdr on
   lo0 for the upstream): every chain is a prefix of what it is meant to be, and
   in every prefix the exception comes before the redirects. *)
THEOREM NoLoopAlways == AnySpec => []NoLoop
<1>1. ASSUME FirewallInv, NEW p \in Traffic, p.from = "gateway", Outcome(p) = "proxy"
      PROVE  /\ ~p.marked
             /\ p.dst = "upstream" /\ p.dport = UpPort /\ ~Stale(p) => config.upstream # p.fam
  <2>1. p \in Packets /\ (platform # "linux" => ~p.marked)
    BY TrafficIs
  <2>2. Typed /\ platform \in {"linux", "macos"}
    BY <1>1 DEF FirewallInv, Typed
  <2>3. CASE platform = "linux"
    <3>1. Verdict(p, "output") = "redirect"
      BY <1>1, <2>1, <2>3, LinuxOutcome
    <3>2. ~p.marked
      BY <1>1, <2>1, <2>3, <3>1, MarkedReturns, PacketIs
    <3>3. ~Stale(p) => ~ToUpstream(config, p)
      BY <1>1, <2>1, <2>3, <3>1, AtMost DEF Stale
    <3> QED
      BY <3>2, <3>3 DEF ToUpstream
  <2>4. CASE platform = "macos"
    <3>1. ASSUME p.dst = "upstream", p.dport = UpPort, ~Stale(p)
          PROVE  config.upstream # p.fam
      <4>1. Translated(p, "lo0") # "no rdr" /\ anchor = config /\ anchor \in Configs
        BY <1>1, <2>1, <2>2, <2>4, <3>1, PfFresh
      <4>2. /\ Proxied(config, p) /\ upstream_addr(config) # "none"
            /\ ~PassesToUpstream(config, p)
        BY <2>1, <4>1, PfAtMost
      <4>3. upstream_addr(config) = config.upstream /\ p.proto = "tcp"
        BY <4>2 DEF upstream_addr, Proxied
      <4> QED
        BY <3>1, <4>2, <4>3 DEF PassesToUpstream
    <3> QED
      BY <2>1, <2>4, <3>1
  <2> QED
    BY <2>2, <2>3, <2>4
<1>2. FirewallInv => NoLoop
  BY <1>1 DEF NoLoop
<1> QED
  BY <1>2, FirewallInvAlways, PTL

(* DNS that is to be diverted is at no time of a set-up redirected to the proxy
   (nftables.rs adds the DNS rules of a prerouting chain before its redirects,
   pf.rs writes them before): no prefix of the rules holds one without the other. *)
THEOREM DnsNotProxiedAlways == AnySpec => []DnsNotProxied
<1>1. ASSUME FirewallInv, NEW p \in Traffic, p.from = "lan", p.dport = 53, ~Stale(p),
             dns_target(config, p.fam)
      PROVE  Outcome(p) # "proxy"
  <2> SUFFICES ASSUME Outcome(p) = "proxy"
               PROVE  FALSE
    OBVIOUS
  <2>1. p \in Packets
    BY TrafficIs
  <2>2. Typed /\ platform \in {"linux", "macos"}
    BY <1>1 DEF FirewallInv, Typed
  <2>3. CASE platform = "linux"
    <3>1. Verdict(p, "prerouting") = "redirect"
      BY <1>1, <2>1, <2>3, LinuxOutcome
    <3> QED
      BY <1>1, <2>1, <2>3, <3>1, AtMost DEF Stale
  <2>4. CASE platform = "macos"
    <3>1. Translated(p, "lan") = "proxy" /\ anchor = config /\ anchor \in Configs
      BY <1>1, <2>1, <2>2, <2>4, PfFresh
    <3> QED
      BY <1>1, <2>1, <3>1, PfAtMost
  <2> QED
    BY <2>2, <2>3, <2>4
<1>2. FirewallInv => DnsNotProxied
  BY <1>1 DEF DnsNotProxied
<1> QED
  BY <1>2, FirewallInvAlways, PTL

(* Connections to this host's own services are at no time redirected, so that a
   set-up that fails half-way locks nobody out (nftables.rs: the returns for SSH
   and for local addresses; pf.rs: no rdr for the interface's addresses). *)
THEOREM GatewayReachableAlways == AnySpec => []GatewayReachable
<1>1. ASSUME FirewallInv, NEW p \in Traffic, OwnService(p), ~Stale(p)
      PROVE  Outcome(p) # "proxy"
  <2> SUFFICES ASSUME Outcome(p) = "proxy"
               PROVE  FALSE
    OBVIOUS
  <2>1. p \in Packets /\ (platform # "linux" => (p.dst = "iface" => p.fam \in config.addrs))
    BY TrafficIs
  <2>2. Typed /\ platform \in {"linux", "macos"}
    BY <1>1 DEF FirewallInv, Typed
  <2>3. CASE platform = "linux"
    <3>1. ToThisHost(p) /\ (p.from = "gateway" \/ config.allPorts)
      BY <1>1, <2>3 DEF OwnService
    <3>2. CASE p.from = "gateway" /\ Verdict(p, "output") = "redirect"
      BY <1>1, <2>1, <2>3, <3>1, <3>2, AtMost DEF Stale
    <3>3. CASE p.from # "gateway" /\ Verdict(p, "prerouting") = "redirect"
      BY <1>1, <2>1, <2>3, <3>1, <3>3, AtMost DEF Stale
    <3> QED
      BY <2>1, <2>3, <3>2, <3>3, LinuxOutcome
  <2>4. CASE platform = "macos"
    <3>1. p.from = "lan" /\ p.dst = "iface"
      BY <1>1, <2>4 DEF OwnService
    <3>2. Translated(p, "lan") = "proxy" /\ anchor = config /\ anchor \in Configs
      BY <1>1, <2>1, <2>2, <2>4, <3>1, PfFresh
    <3> QED
      BY <2>1, <2>4, <3>1, <3>2, PfAtMost
  <2> QED
    BY <2>2, <2>3, <2>4
<1>2. FirewallInv => GatewayReachable
  BY <1>1 DEF GatewayReachable
<1> QED
  BY <1>2, FirewallInvAlways, PTL

(* A set-up that reports success has put the whole policy in force: whatever it
   passed over on its way (the TPROXY fallback, IPv6, the policy routing, a main
   ruleset that already referred to the anchor), each packet of a family that it
   did not skip is treated as the configuration says (nftables.rs setup,
   setup_ipv6, setup_udp_handling; pf.rs setup). *)
THEOREM PolicyInForceAlways == AnySpec => []PolicyInForce
<1>1. ASSUME FirewallInv, program = "setup", result = "done"
      PROVE  /\ todo = << >> /\ Typed
             /\ \A op, f : ~Pending(op, f)
  <2>1. todo = << >> /\ Typed
    BY <1>1 DEF FirewallInv, Typed
  <2>2. 1..Len(todo) = {}
    BY <2>1
  <2> QED
    BY <2>1, <2>2 DEF Pending
<1>2. ASSUME FirewallInv, program = "setup", result = "done", platform = "linux", NEW p \in Traffic,
             p.fam \in old => ~faulty, p.fam = "ip6" => ~skipped
      PROVE  Decision(p) \in NftPolicy(config, p)
  <2>1. p \in Packets /\ p.fam \in Families
    BY TrafficIs, PacketIs
  <2>2. p.fam \notin old
    BY <1>1, <1>2 DEF FirewallInv, Renewing
  <2>3. Whole(p.fam)
    BY <1>2, <2>1 DEF FirewallInv, Nft, Building, Unhindered
  <2> QED
    BY <1>1, <1>2, <2>1, <2>2, <2>3, LinuxPolicy
<1>3. ASSUME FirewallInv, program = "setup", result = "done", platform = "macos", NEW p \in Traffic, enabled
      PROVE  PfDecision(p) \in PfPolicy(config, p)
  <2>1. p \in Packets /\ (p.dst = "iface" => p.fam \in config.addrs)
    BY <1>3, TrafficIs
  <2>2. anchor = config /\ Refs \subseteq main
    BY <1>1, <1>3 DEF FirewallInv, Pfctl, Loading
  <2>3. anchor # NoConfig
    BY <1>1, <1>3, <2>2, NoConfigAssumption DEF Typed
  <2> QED
    BY <1>1, <1>3, <2>1, <2>2, <2>3, MacosPolicy
<1>4. FirewallInv => platform \in {"linux", "macos"}
  BY DEF FirewallInv, Typed
<1>5. FirewallInv => PolicyInForce
  BY <1>2, <1>3, <1>4 DEF PolicyInForce
<1> QED
  BY <1>5, FirewallInvAlways, PTL

=============================================================================
