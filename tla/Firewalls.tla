----------------------------- MODULE Firewalls -----------------------------
(***************************************************************************)
(* The firewall of either platform (src/firewall/mod.rs): the same two     *)
(* programs, which write nftables rules on Linux and pf rules on macOS,    *)
(* and the properties that both must have.  A build is for one platform;   *)
(* the other's part of the state stays as it is.                           *)
(***************************************************************************)
EXTENDS Pf

VARIABLE platform

AnyInit ==
    /\ Init /\ PfInit
    /\ platform \in {"linux", "macos"}
    /\ platform = "linux" => pf_conf = {} /\ ~enabled

AnyNext ==
    /\ \/ platform = "linux" /\ Next /\ UNCHANGED pf
       \/ platform = "macos" /\ PfNext
    /\ UNCHANGED platform

AnySpec == AnyInit /\ [][AnyNext]_<<vars, pf, platform>>

-----------------------------------------------------------------------------
(* The packets of the platform: a mark, and addresses of the interface in a
   family where it has none, do not occur on macOS. *)
Traffic ==
    IF platform = "linux" THEN Packets
    ELSE {p \in Packets : ~p.marked /\ (p.dst = "iface" => p.fam \in config.addrs)}

Outcome(p) == IF platform = "linux" THEN Decision(p) ELSE PfDecision(p)

(* The rules that meet p are those of an earlier program. *)
Stale(p) == IF platform = "linux" THEN p.fam \in old ELSE anchor \notin {config, NoConfig}

(* No loop: in no state, be it in the middle of a set-up, after one that failed
   or was stopped, or over a table that could not be deleted, is a packet that
   the proxy itself sends (with its mark) redirected back into the proxy; nor
   is one to the upstream proxy while the rules are those of the last set-up. *)
NoLoop ==
    \A p \in Traffic :
        p.from = "gateway" /\ Outcome(p) = "proxy" =>
            /\ ~p.marked
            /\ p.dst = "upstream" /\ p.dport = UpPort /\ ~Stale(p)
                  => config.upstream # p.fam

(* Where DNS is diverted to the forwarder, DNS over TCP from the LAN does not
   reach the proxy instead, at no time of a set-up and however it ends, although
   the redirects of the same chain would match it. *)
DnsNotProxied ==
    \A p \in Traffic :
        p.from = "lan" /\ p.dport = 53 /\ ~Stale(p) /\ dns_target(config, p.fam)
            => Outcome(p) # "proxy"

(* Connections to this host's own services are not redirected at any time, so
   that a set-up that fails half-way does not lock the administrator out.  On
   Linux: its own ones in either mode, those from the LAN where all ports are
   proxied.  On macOS: those from the LAN to the interface's address. *)
OwnService(p) ==
    IF platform = "linux"
    THEN ToThisHost(p) /\ (p.from = "gateway" \/ config.allPorts)
    ELSE p.from = "lan" /\ p.dst = "iface"

GatewayReachable ==
    \A p \in Traffic :
        OwnService(p) /\ ~Stale(p) => Outcome(p) # "proxy"

-----------------------------------------------------------------------------
(* The decisions that a completed set-up is meant to lead to.  QUIC is relayed or
   dropped; what is received on other interfaces is left alone on Linux. *)
IsQuic(c, p) == p.proto = "udp" /\ \E i \in DOMAIN quic_block_ports(c) : quic_block_ports(c)[i] = p.dport

Proxied(c, p) == p.proto = "tcp" /\ (c.allPorts \/ \E i \in DOMAIN c.ports : c.ports[i] = p.dport)

ToUpstream(c, p) == p.dst = "upstream" /\ p.dport = UpPort /\ p.fam = c.upstream

NftPolicy(c, p) ==
    CASE p.from = "wan" -> {"pass"}
      [] p.from = "gateway" ->
            IF ~c.local_traffic THEN {"pass"}
            ELSE IF IsQuic(c, p) /\ p.to_lan THEN {"drop"}
            ELSE IF p.marked \/ ToThisHost(p) \/ ToUpstream(c, p) \/ ~Proxied(c, p) THEN {"pass"}
            ELSE {"proxy"}
      [] p.from = "lan" ->
            IF p.dport = 53 /\ dns_target(c, p.fam) THEN {"dns"}
            ELSE IF IsQuic(c, p)
                 THEN (IF ToThisHost(p) THEN {"pass"} ELSE {"drop"})
                        \cup (IF proxy_udp(c) THEN {"relay"} ELSE {})
            ELSE IF Proxied(c, p) /\ (c.allPorts => ~ToThisHost(p)) THEN {"proxy"} ELSE {"pass"}

(* pf tells apart where a packet leaves, not who sent it.  About connections of
   this host to itself nothing is demanded. *)
PfPolicy(c, p) ==
    IF p.from = "lan"
    THEN IF p.dport = 53 /\ dns_target(c, p.fam) THEN {"dns"}
         ELSE IF IsQuic(c, p) THEN {"drop"}
         ELSE IF Proxied(c, p) /\ p.dst # "iface" THEN {"proxy"} ELSE {"pass"}
    ELSE IF p.from = "gateway" /\ ToThisHost(p) THEN {"pass", "proxy"}
    ELSE IF ~p.to_lan THEN (IF p.from = "gateway" /\ p.dst = "upstream" THEN {"pass", "proxy"} ELSE {"pass"})
    ELSE IF IsQuic(c, p) THEN {"drop"}
    ELSE IF c.local_traffic /\ c.upstream # "none" /\ Proxied(c, p) /\ ~ToUpstream(c, p)
         THEN {"proxy"} ELSE {"pass"}

(* A set-up that reports success has put the whole policy in force, for every
   packet.  On Linux: for IPv4 always, TPROXY fallback included, for IPv6 unless
   it said that it skipped it, as long as no deletion of an old table fails; on
   macOS if pf is enabled, wherever the anchor was referenced before. *)
PolicyInForce ==
    program = "setup" /\ result = "done" =>
        \A p \in Traffic :
            IF platform = "linux"
            THEN (p.fam \in old => ~faulty) /\ (p.fam = "ip6" => ~skipped)
                    => Decision(p) \in NftPolicy(config, p)
            ELSE enabled => PfDecision(p) \in PfPolicy(config, p)

(* A teardown none of whose commands fails leaves nothing behind, whatever
   set-ups, finished or not, went before it. *)
TeardownIsComplete ==
    program = "teardown" /\ result = "done" /\ ~faulty =>
        /\ tables = {} /\ rules = NoRules /\ routing = {} /\ forwarding = {}
        /\ anchor = NoConfig /\ main = pf_conf
=============================================================================
