--------------------------------- MODULE Pf ---------------------------------
(***************************************************************************)
(* The firewall commands on macOS (src/firewall/pf.rs).  Where nftables    *)
(* takes forty commands, pf takes few: the rules of an anchor are loaded   *)
(* in one call, and the main ruleset is made to refer to the anchor in     *)
(* another.  The program around the commands, the options and the packets  *)
(* are those of module Firewall, and so are Start, StepFails and Killed.   *)
(***************************************************************************)
EXTENDS Firewall

CONSTANT NoConfig

ASSUME NoConfigAssumption == NoConfig \notin Configs

VARIABLES
    anchor,      \* the configuration whose rules the anchor holds, or NoConfig
    main,        \* how the main ruleset refers to the anchor, a subset of Refs
    pf_conf,     \* how /etc/pf.conf does; it is never written
    enabled      \* whether pf filters at all

pf == <<anchor, main, pf_conf, enabled>>

(* rdr-anchor makes the translation rules count, anchor the filter rules. *)
Refs == {"rdr-anchor", "anchor"}

-----------------------------------------------------------------------------
(* build_rules.  The exception for the proxy's own port is left out: no packet
   considered here is addressed to it. *)

PfRule(on, f, proto, dports, dst, verdict) ==
    [on |-> on, fam |-> f, proto |-> proto, dports |-> dports, dst |-> dst, verdict |-> verdict]

(* FirewallConfig::from_config passes the upstream's address on only with
   --local-traffic. *)
upstream_addr(c) == IF c.local_traffic THEN c.upstream ELSE "none"

PortFilter(c) == IF c.allPorts THEN {AnyPort} ELSE {c.ports[i] : i \in DOMAIN c.ports}

dns_rdr(c, f) ==
    When(dns_target(c, f),
         <<PfRule("lan", f, "udp", {53}, "any", "dns"), PfRule("lan", f, "tcp", {53}, "any", "dns")>>)

local_no_rdr(c, f) ==
    When(f \in c.addrs, <<PfRule("lan", f, "tcp", PortFilter(c), "iface", "no rdr")>>)

no_rdr(c) ==
    When(upstream_addr(c) # "none",
         <<PfRule("lo0", upstream_addr(c), "tcp", {UpPort}, "upstream", "no rdr")>>)

Redirects(c, f) ==
    <<PfRule("lan", f, "tcp", PortFilter(c), "any", "proxy")>>
      \o When(upstream_addr(c) # "none", <<PfRule("lo0", f, "tcp", PortFilter(c), "any", "proxy")>>)

Translation(c) ==
    no_rdr(c) \o dns_rdr(c, "ip") \o dns_rdr(c, "ip6")
      \o local_no_rdr(c, "ip") \o local_no_rdr(c, "ip6")
      \o Redirects(c, "ip") \o Redirects(c, "ip6")

(* The filter rules: QUIC is dropped on the interface in both directions; what
   leaves through it for the upstream proxy passes; other TCP on the proxied
   ports is routed to lo0, where the translation rules meet it. *)
QuicBlocked(c, p) == p.proto = "udp" /\ \E i \in DOMAIN quic_block_ports(c) : quic_block_ports(c)[i] = p.dport

PassesToUpstream(c, p) ==
    p.proto = "tcp" /\ p.dst = "upstream" /\ p.dport = UpPort /\ p.fam = upstream_addr(c)

RoutedToLo0(c, p) ==
    /\ upstream_addr(c) # "none" /\ p.proto = "tcp" /\ PortFilter(c) \cap {AnyPort, p.dport} # {}
    /\ ~PassesToUpstream(c, p)

-----------------------------------------------------------------------------
(* The commands. *)
pf_setup ==
    <<Plain("forward", "ip", "must"), Plain("forward", "ip6", "must"),
      Plain("load", "", "must"), Plain("reference", "", "must"), Plain("enable", "", "ignore")>>

pf_teardown ==
    <<Plain("flush", "", "ignore"), Plain("restore", "", "ignore"),
      Plain("unforward", "ip", "must"), Plain("unforward", "ip6", "ignore")>>

anchor_referenced == Refs \subseteq main

(* The file's references and those of ours that it lacks. *)
main_ruleset_with_anchor_references == pf_conf \cup (Refs \ pf_conf)

PfEffect(cmd) ==
    /\ forwarding' = CASE cmd.op = "forward"   -> forwarding \cup {cmd.fam}
                       [] cmd.op = "unforward" -> forwarding \ {cmd.fam}
                       [] OTHER                -> forwarding
    /\ anchor' = CASE cmd.op = "load"  -> config
                   [] cmd.op = "flush" -> NoConfig
                   [] OTHER            -> anchor
    /\ main' = CASE cmd.op = "reference" /\ ~anchor_referenced -> main_ruleset_with_anchor_references
                 [] cmd.op = "restore" -> pf_conf
                 [] OTHER              -> main
    /\ enabled' = (enabled \/ cmd.op = "enable")

PfInit ==
    /\ anchor = NoConfig /\ pf_conf \in SUBSET Refs /\ main = pf_conf
    /\ enabled \in BOOLEAN

StartPfSetup(c) == Start("setup", c, pf_setup) /\ UNCHANGED pf

StartPfTeardown == Start("teardown", config, pf_teardown) /\ UNCHANGED pf

PfStepOk ==
    /\ todo # << >>
    /\ PfEffect(Head(todo))
    /\ GoOn(Tail(todo))
    /\ UNCHANGED <<program, config, skipped, faulty, runs, failures, tables, rules, routing, old, pf_conf>>

PfStepFails == StepFails /\ UNCHANGED pf

PfKilled == Killed /\ UNCHANGED pf

PfNext ==
    \/ \E c \in Configs : StartPfSetup(c)
    \/ StartPfTeardown
    \/ PfStepOk
    \/ PfStepFails
    \/ PfKilled

-----------------------------------------------------------------------------
(* What becomes of a packet.  The first matching translation rule decides. *)
Translated(p, on) ==
    LET rs == Translation(anchor)
        hits == {i \in DOMAIN rs :
                    /\ rs[i].on = on /\ rs[i].fam = p.fam /\ rs[i].proto = p.proto
                    /\ rs[i].dports \cap {AnyPort, p.dport} # {}
                    /\ rs[i].dst \in {"any", p.dst}}
    IN  IF "rdr-anchor" \notin main \/ hits = {} THEN "no rdr" ELSE rs[Min(hits)].verdict

(* What is sent to this host, or to an upstream proxy on it, goes over lo0; so
   does what a filter rule routes there on its way out. *)
OverLo0(p) == p.from = "gateway" /\ (ToThisHost(p) \/ (p.dst = "upstream" /\ ~p.to_lan))

LeavesByLan(p) == p.from # "lan" /\ p.to_lan /\ ~OverLo0(p)

Blocked(p) ==
    /\ "anchor" \in main /\ QuicBlocked(anchor, p)
    /\ p.from = "lan" \/ LeavesByLan(p)

ReachesLo0(p) ==
    OverLo0(p) \/ (LeavesByLan(p) /\ "anchor" \in main /\ RoutedToLo0(anchor, p))

PfDecision(p) ==
    IF ~enabled \/ anchor = NoConfig THEN "pass"
    ELSE CASE p.from = "lan" /\ Translated(p, "lan") # "no rdr" -> Translated(p, "lan")
           [] ReachesLo0(p) /\ Translated(p, "lo0") # "no rdr" -> "proxy"
           [] OTHER -> IF Blocked(p) THEN "drop" ELSE "pass"
=============================================================================
