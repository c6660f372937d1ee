------------------------------ MODULE Firewall ------------------------------
(***************************************************************************)
(* The Linux firewall commands: --setup-firewall (nftables.rs, setup) and   *)
(* --teardown-firewall (teardown).  Each is a program that runs a list of   *)
(* external commands, nft, sysctl and ip, one after the other; each of them *)
(* can fail, and the program itself can be stopped between two of them.     *)
(* What a failure leads to depends on where it happens: it is ignored, ends *)
(* the program, skips the rest of IPv6, replaces TPROXY by drop rules, or   *)
(* skips the rest of the policy routing.  Nothing is rolled back.           *)
(*                                                                          *)
(* The state is the kernel's: the two trans_proxy tables with their chains  *)
(* of rules, the TPROXY policy routing and the forwarding switches.  Its    *)
(* meaning is given by Decision: what becomes of a packet, by the first     *)
(* rule that matches it in each chain it passes.  Policy is the intended    *)
(* decision, stated without chains and rules.                               *)
(***************************************************************************)
EXTENDS Integers, Sequences, FiniteSets, SequencesExt

CONSTANTS
    Configs,      \* the configurations set-up is called with
    Dports,       \* destination ports that are told apart
    UpPort,       \* the upstream proxy's port
    MaxRuns,      \* bound: programs started
    MaxFailures   \* bound: commands that fail

ASSUME FirewallAssumption ==
    /\ {22, 53, 443, UpPort} \subseteq Dports /\ Dports \subseteq Nat \ {0}
    /\ MaxRuns \in Nat /\ MaxFailures \in Nat

Families == {"ip", "ip6"}
Chains == {"prerouting", "output", "tproxy_prerouting", "quic_forward", "quic_output"}

(* What setup reads of the command line and of the interface.  dns is the
   address the DNS forwarder listens on: none, a given address of a family,
   or the wildcard of a family.  addrs are the families the interface has an
   address of.  With allPorts there is no --ports list. *)
Config ==
    [allPorts : BOOLEAN, ports : Seq(Dports), local_traffic : BOOLEAN,
     upstream : Families \cup {"none"}, socks5 : BOOLEAN, allow_quic : BOOLEAN,
     dns : {"none", "v4", "any4", "v6", "any6"}, addrs : SUBSET Families]

ASSUME ConfigsAssumption == Configs \subseteq Config

AnyPort == 0

(* A rule applies to packets that come in ("lan") or leave ("to_lan") through
   the configured interface or to all ("any"), of a protocol, for a port, to a
   destination, and with the --fwmark mark or whatever mark. *)
Rule ==
    [via : {"any", "lan", "to_lan"}, proto : {"any", "tcp", "udp"},
     dport : Dports \cup {AnyPort}, dst : {"any", "iface", "local", "upstream"},
     marked : BOOLEAN, verdict : {"return", "redirect", "dnat", "tproxy", "drop"}]

VARIABLES
    tables,      \* the families whose trans_proxy table exists
    rules,       \* rules[f][c]: the rules of chain c of family f
    routing,     \* TPROXY policy routing: the (family, "rule" | "route") present
    forwarding,  \* the families with IP forwarding
    program,     \* "none", "setup" or "teardown": what was started last
    config,      \* its configuration
    todo,        \* its commands not yet run
    result,      \* "running", "done" or "failed"
    skipped,     \* whether it gave up on IPv6
    faulty,      \* whether one of its commands failed
    old,         \* the families whose table is still an earlier program's
    runs, failures

kernel == <<tables, rules, routing, forwarding>>
vars == <<kernel, program, config, todo, result, skipped, faulty, old, runs, failures>>

-----------------------------------------------------------------------------
(* The derived settings: config.rs proxy_udp_enabled, firewall/mod.rs. *)

proxy_udp(c) == ~c.allow_quic /\ c.upstream # "none" /\ c.socks5

(* The ports that are not DNS's, in their order. *)
WithoutDns(ports) ==
    LET kept[i \in 0..Len(ports)] ==
            IF i = 0 THEN << >>
            ELSE IF ports[i] = 53 THEN kept[i - 1] ELSE Append(kept[i - 1], ports[i])
    IN  kept[Len(ports)]

quic_block_ports(c) ==
    IF c.allow_quic THEN << >> ELSE IF c.allPorts THEN <<443>> ELSE WithoutDns(c.ports)

(* dns_target_v4 and dns_target_v6: whether DNS of the family is diverted.  An
   IPv6 wildcard also takes IPv4, an IPv4 address or wildcard takes IPv4 only. *)
dns_target(c, f) ==
    CASE f = "ip"  -> c.dns = "v4" \/ (c.dns \in {"any4", "any6"} /\ "ip" \in c.addrs)
      [] f = "ip6" -> c.dns = "v6" \/ (c.dns = "any6" /\ "ip6" \in c.addrs)

-----------------------------------------------------------------------------
(* The rules, in the order in which setup adds them. *)

Match(via, proto, dport, dst, verdict) ==
    [via |-> via, proto |-> proto, dport |-> dport, dst |-> dst,
     marked |-> FALSE, verdict |-> verdict]

When(condition, seq) == IF condition THEN seq ELSE << >>

(* The rules that send TCP to the proxy and the returns before them, in the
   prerouting chain (via = "lan") or the output chain ("any").  Only with all
   ports is SSH to the interface's own address let through by name. *)
SshReturn(c, f, via) == When(f \in c.addrs, <<Match(via, "tcp", 22, "iface", "return")>>)

LocalReturn(via) == <<Match(via, "any", AnyPort, "local", "return")>>

CatchAll(via) == <<Match(via, "tcp", AnyPort, "any", "redirect")>>

PortRedirects(c, via) ==
    [i \in DOMAIN c.ports |-> Match(via, "tcp", c.ports[i], "any", "redirect")]

DnsRules(c, f) ==
    When(dns_target(c, f),
         <<Match("lan", "udp", 53, "any", "dnat"), Match("lan", "tcp", 53, "any", "dnat")>>)

(* mutated: the DNS rules come after the redirects *)
PreroutingDnsLast(c, f) ==
    (IF c.allPorts THEN SshReturn(c, f, "lan") \o LocalReturn("lan") \o CatchAll("lan")
     ELSE PortRedirects(c, "lan")) \o DnsRules(c, f)

(* mutated: the return for local destinations comes after the catch-all *)
PreroutingLocalLast(c, f) ==
    DnsRules(c, f)
      \o (IF c.allPorts THEN SshReturn(c, f, "lan") \o CatchAll("lan") \o LocalReturn("lan")
          ELSE PortRedirects(c, "lan"))

Prerouting(c, f) ==
    DnsRules(c, f)
      \o (IF c.allPorts THEN SshReturn(c, f, "lan") \o LocalReturn("lan") \o CatchAll("lan")
          ELSE PortRedirects(c, "lan"))

MarkReturn == <<[Match("any", "any", AnyPort, "any", "return") EXCEPT !.marked = TRUE]>>

UpstreamReturn(c, f) ==
    When(c.upstream = f, <<Match("any", "tcp", UpPort, "upstream", "return")>>)

(* mutated: the return for the proxy's own packets comes last *)
OutputMarkLast(c, f) ==
    UpstreamReturn(c, f) \o LocalReturn("any")
      \o (IF c.allPorts THEN SshReturn(c, f, "any") \o CatchAll("any")
          ELSE PortRedirects(c, "any")) \o MarkReturn

Output(c, f) ==
    MarkReturn \o UpstreamReturn(c, f) \o LocalReturn("any")
      \o (IF c.allPorts THEN SshReturn(c, f, "any") \o CatchAll("any")
          ELSE PortRedirects(c, "any"))

(* One rule for each port of quic_block_ports. *)
QuicRules(c, via, verdict) ==
    [i \in DOMAIN quic_block_ports(c) |->
        Match(via, "udp", quic_block_ports(c)[i], "any", verdict)]

-----------------------------------------------------------------------------
(* The commands.  on says what a failure leads to. *)

Severity == {"ignore", "must", "v6", "tproxy", "routing"}

NoRule == << >>

(* The command of a kind, for a family; chain and rule only where it has them. *)
Command(op, f, chain, rule, on) ==
    [op |-> op, chain |-> chain, rule |-> rule, on |-> on, fam |-> f]

Plain(op, f, on) == Command(op, f, "", NoRule, on)

(* nft add chain, then one nft add rule for each rule. *)
AddChain(f, chain, seq, on) ==
    <<Command("chain", f, chain, NoRule, on)>>
      \o [i \in DOMAIN seq |-> Command("rule", f, chain, seq[i], on)]

(* A failure within the IPv4 part ends setup, one within setup_ipv6 ends that. *)
OnError(f) == IF f = "ip" THEN "must" ELSE "v6"

setup_quic_forward(c, f) ==
    When(quic_block_ports(c) # << >>,
         AddChain(f, "quic_forward", QuicRules(c, "lan", "drop"), OnError(f)))

setup_quic_block_output(c, f) ==
    When(quic_block_ports(c) # << >> /\ c.local_traffic,
         AddChain(f, "quic_output", QuicRules(c, "to_lan", "drop"), OnError(f)))

setup_udp_tproxy(c, f) ==
    When(quic_block_ports(c) # << >>,
         AddChain(f, "tproxy_prerouting", QuicRules(c, "lan", "tproxy"), "tproxy"))

(* setup_udp_handling as far as every command succeeds; see StepFails. *)
setup_udp_handling(c, f) ==
    (IF proxy_udp(c) THEN setup_udp_tproxy(c, f) ELSE setup_quic_forward(c, f))
      \o setup_quic_block_output(c, f)

(* The part for one family. *)
setup_family(c, f) ==
    <<Plain("table", f, OnError(f))>>
      \o AddChain(f, "prerouting", Prerouting(c, f), OnError(f))
      \o When(c.local_traffic, AddChain(f, "output", Output(c, f), OnError(f)))
      \o setup_udp_handling(c, f)

setup_tproxy_routing ==
    <<Plain("rule del", "ip", "ignore"), Plain("rule add", "ip", "routing"),
      Plain("route flush", "ip", "ignore"), Plain("route add", "ip", "routing"),
      Plain("rule del", "ip6", "ignore"), Plain("rule add", "ip6", "ignore"),
      Plain("route flush", "ip6", "ignore"), Plain("route add", "ip6", "ignore")>>

teardown_tproxy_routing ==
    <<Plain("rule del", "ip", "ignore"), Plain("route flush", "ip", "ignore"),
      Plain("rule del", "ip6", "ignore"), Plain("route flush", "ip6", "ignore")>>

DeleteTables == <<Plain("delete", "ip", "ignore"), Plain("delete", "ip6", "ignore")>>

(* What follows the part for a family, and what follows its UDP diversion. *)
AfterFamily(c, f) ==
    When(f = "ip", setup_family(c, "ip6")) \o When(proxy_udp(c), setup_tproxy_routing)

AfterTproxy(c, f) == setup_quic_block_output(c, f) \o AfterFamily(c, f)

setup(c) ==
    DeleteTables
      \o <<Plain("forward", "ip", "must"), Plain("forward", "ip6", "ignore")>>
      \o setup_family(c, "ip") \o AfterFamily(c, "ip")

(* mutated: the policy routing stays *)
teardown_tables ==
    DeleteTables
      \o <<Plain("unforward", "ip", "must"), Plain("unforward", "ip6", "ignore")>>

teardown ==
    DeleteTables \o teardown_tproxy_routing
      \o <<Plain("unforward", "ip", "must"), Plain("unforward", "ip6", "ignore")>>

-----------------------------------------------------------------------------
NoRules == [f \in Families |-> [c \in Chains |-> << >>]]

Init ==
    /\ tables = {} /\ rules = NoRules /\ routing = {} /\ forwarding = {}
    /\ program = "none" /\ config \in Configs
    /\ todo = << >> /\ result = "done" /\ skipped = FALSE /\ faulty = FALSE /\ old = {}
    /\ runs = 0 /\ failures = 0

Start(name, c, commands) ==
    /\ result # "running" /\ runs < MaxRuns
    /\ program' = name /\ config' = c /\ todo' = commands
    /\ result' = "running" /\ skipped' = FALSE /\ faulty' = FALSE
    /\ old' = tables /\ runs' = runs + 1
    /\ UNCHANGED <<kernel, failures>>

StartSetup(c) == Start("setup", c, setup(c))

StartTeardown == Start("teardown", config, teardown)

(* What a command does to the kernel when it succeeds.  Adding a table or a
   chain that exists succeeds; adding to a table that does not exist fails, and
   so does adding a routing rule or a route twice. *)
Effect(cmd) ==
    LET f == cmd.fam  IN
    /\ tables' = CASE cmd.op = "delete" -> tables \ {f}
                   [] cmd.op = "table"  -> tables \cup {f}
                   [] OTHER             -> tables
    /\ rules' = CASE cmd.op = "delete" -> [rules EXCEPT ![f] = NoRules[f]]
                  [] cmd.op = "rule"   -> [rules EXCEPT ![f][cmd.chain] = Append(@, cmd.rule)]
                  [] OTHER             -> rules
    /\ cmd.op \in {"chain", "rule"} => f \in tables
    /\ cmd.op = "rule add"  => <<f, "rule">> \notin routing
    /\ cmd.op = "route add" => <<f, "route">> \notin routing
    /\ routing' = CASE cmd.op = "rule del"    -> routing \ {<<f, "rule">>}
                    [] cmd.op = "route flush" -> routing \ {<<f, "route">>}
                    [] cmd.op = "rule add"    -> routing \cup {<<f, "rule">>}
                    [] cmd.op = "route add"   -> routing \cup {<<f, "route">>}
                    [] OTHER                  -> routing
    /\ forwarding' = CASE cmd.op = "forward"   -> forwarding \cup {f}
                       [] cmd.op = "unforward" -> forwarding \ {f}
                       [] OTHER                -> forwarding
    /\ old' = IF cmd.op = "delete" THEN old \ {f} ELSE old

(* The program goes on with rest, or ends successfully. *)
GoOn(rest) ==
    /\ todo' = rest
    /\ result' = IF rest = << >> THEN "done" ELSE "running"

StepOk ==
    /\ todo # << >>
    /\ Effect(Head(todo))
    /\ GoOn(Tail(todo))
    /\ UNCHANGED <<program, config, skipped, faulty, runs, failures>>

(* mutated: a TPROXY failure is only reported *)
FallbackToNothing(cmd) == AfterTproxy(config, cmd.fam)

(* What remains to be done when cmd, a command of the TPROXY part, has failed:
   setup_quic_block, whose output half follows TPROXY as well. *)
Fallback(cmd) == setup_quic_forward(config, cmd.fam) \o AfterTproxy(config, cmd.fam)

(* What remains when setup_ipv6 has given up. *)
SkipIpv6 == AfterFamily(config, "ip6")

(* The first command fails and changes nothing. *)
StepFails ==
    /\ todo # << >> /\ failures < MaxFailures
    /\ failures' = failures + 1 /\ faulty' = TRUE
    /\ LET cmd == Head(todo)  IN
       /\ CASE cmd.on = "ignore"  -> GoOn(Tail(todo))
            [] cmd.on = "tproxy"  -> GoOn(Fallback(cmd))
            [] cmd.on = "v6"      -> GoOn(SkipIpv6)
            [] cmd.on = "routing" -> GoOn(<< >>)
            [] cmd.on = "must"    -> todo' = << >> /\ result' = "failed"
       /\ skipped' = (skipped \/ cmd.on = "v6")
    /\ UNCHANGED <<kernel, program, config, old, runs>>

(* The program is stopped between two commands. *)
Killed ==
    /\ todo # << >>
    /\ todo' = << >> /\ result' = "failed"
    /\ UNCHANGED <<kernel, program, config, skipped, faulty, old, runs, failures>>

Next ==
    \/ \E c \in Configs : StartSetup(c)
    \/ StartTeardown
    \/ StepOk
    \/ StepFails
    \/ Killed

Spec == Init /\ [][Next]_vars

-----------------------------------------------------------------------------
(* Packets.  from: received on the configured interface, received on another
   one, or sent by this host; to_lan: leaves through the configured interface;
   marked: carries the mark that the proxy sets on its own sockets.  The
   destination is the interface's address, another address of this host, the
   upstream proxy, or elsewhere. *)
Packets ==
    {p \in [fam : Families, from : {"lan", "wan", "gateway"}, to_lan : BOOLEAN,
            proto : {"tcp", "udp"}, dport : Dports,
            dst : {"iface", "local", "upstream", "remote"}, marked : BOOLEAN] :
        /\ p.marked => p.from = "gateway"
        /\ p.dst \in {"iface", "local"} => ~p.to_lan}

ToThisHost(p) == p.dst \in {"iface", "local"}

Matches(r, p) ==
    /\ r.via = "lan" => p.from = "lan"
    /\ r.via = "to_lan" => p.to_lan
    /\ r.proto \in {"any", p.proto}
    /\ r.dport \in {AnyPort, p.dport}
    /\ \/ r.dst \in {"any", p.dst}
       \/ r.dst = "local" /\ ToThisHost(p)
    /\ r.marked => p.marked

(* The verdict of the first rule of a chain that matches. *)
Verdict(p, chain) ==
    LET rs == rules[p.fam][chain]
        hits == {i \in DOMAIN rs : Matches(rs[i], p)}
    IN  IF hits = {} THEN "none" ELSE rs[Min(hits)].verdict

(* What becomes of a packet, hook by hook: sent by this host; diverted by
   TPROXY before NAT; redirected or sent to the DNS forwarder by NAT; for this
   host; forwarded. *)
Decision(p) ==
    CASE p.from = "gateway" ->
            IF Verdict(p, "quic_output") = "drop" THEN "drop"
            ELSE IF Verdict(p, "output") = "redirect" THEN "proxy" ELSE "pass"
      [] p.from # "gateway" /\ Verdict(p, "tproxy_prerouting") = "tproxy" -> "relay"
      [] OTHER ->
            CASE Verdict(p, "prerouting") = "redirect" -> "proxy"
              [] Verdict(p, "prerouting") = "dnat" -> "dns"
              [] OTHER -> IF ~ToThisHost(p) /\ Verdict(p, "quic_forward") = "drop"
                          THEN "drop" ELSE "pass"

-----------------------------------------------------------------------------
(* Type invariant. *)
TypeOK ==
    /\ tables \subseteq Families
    /\ \A f \in Families, c \in Chains : \A i \in DOMAIN rules[f][c] : rules[f][c][i] \in Rule
    /\ routing \subseteq Families \X {"rule", "route"}
    /\ forwarding \subseteq Families /\ old \subseteq tables
    /\ program \in {"none", "setup", "teardown"} /\ config \in Configs
    /\ result \in {"running", "done", "failed"}
    /\ (result = "running") = (todo # << >>)
    /\ \A i \in DOMAIN todo : todo[i].fam \in Families \cup {""} /\ todo[i].on \in Severity
    /\ \A f \in Families : f \notin tables => rules[f] = NoRules[f]
=============================================================================
