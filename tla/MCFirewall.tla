----------------------------- MODULE MCFirewall -----------------------------
(* Instances of Firewall: configurations that between them use every option and
   every rule. *)
EXTENDS Firewalls

Default == [allPorts |-> TRUE, ports |-> << >>, local_traffic |-> FALSE,
            upstream |-> "ip", socks5 |-> FALSE, allow_quic |-> FALSE,
            dns |-> "none", addrs |-> {"ip"}]

MCConfigs ==
    {(* everything, SOCKS5 upstream, DNS on both families *)
     [Default EXCEPT !.local_traffic = TRUE, !.socks5 = TRUE, !.dns = "any6",
                     !.addrs = {"ip", "ip6"}],
     (* a port list with the DNS port in it, local traffic, IPv6 upstream *)
     [Default EXCEPT !.allPorts = FALSE, !.ports = <<53, 443, 80>>, !.local_traffic = TRUE,
                     !.upstream = "ip6", !.dns = "v6"],
     (* LAN only, HTTP upstream, the interface without an address *)
     [Default EXCEPT !.dns = "v4", !.addrs = {}],
     (* a port list over SOCKS5 *)
     [Default EXCEPT !.allPorts = FALSE, !.ports = <<443, 80>>, !.socks5 = TRUE, !.dns = "any4"],
     (* QUIC let through, local traffic, no upstream known *)
     [Default EXCEPT !.upstream = "none", !.allow_quic = TRUE, !.local_traffic = TRUE,
                     !.dns = "any4", !.addrs = {"ip6"}]}
=============================================================================
