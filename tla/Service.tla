------------------------------ MODULE Service ------------------------------
(***************************************************************************)
(* The installed service on Linux: the commands --install, --start, --stop *)
(* and --uninstall of src/service, the unit they leave, the server process *)
(* of src/main.rs that it runs, and the firewall rules that it puts in     *)
(* force before and takes away after (module Firewall has their commands   *)
(* one by one; here a set-up or teardown is one step that may fail).       *)
(*                                                                         *)
(* systemd is external: its actions are what the unit's directives make it *)
(* do.  Two parsers read command lines, each in its own way: the           *)
(* installer's helpers (extract_arg, has_flag, filter_service_args), which *)
(* make two lines of one, and clap, which parses what the user typed and,  *)
(* in two further processes, the two lines of the unit.                    *)
(***************************************************************************)
EXTENDS Integers, Sequences

CONSTANTS
    None,
    CommandLines,    \* what may be typed with --install
    Networks,        \* what a process may find when it looks names up
    MaxCommands, MaxFailures, MaxReboots, MaxChanges     \* bounds of the model

VARIABLES
    bin, unit, enabled,     \* on disk: the program, the unit, its symlink
    loaded,     \* the unit as systemd last read it
    svc,        \* "inactive", "pre", "running", "post" or "restart"
    setup,      \* the arguments of the set-up that runs or ran last
    looked_up,  \* the network as that set-up found it
    after,      \* what comes after "post": "inactive" or "restart"
    args,       \* the arguments of the server that runs or ran last
    found,      \* the network as that server found it
    proc,       \* the server process: "none", "starting", "up" or "ended"
    dns, relay, \* its DNS forwarder and UDP relay: "off", "starting", "up", "dead"
    rules,      \* the firewall configuration in force, or None
    network,    \* the address of the interface and that of the upstream, now
    command,    \* the service command under way or done last
    at,         \* its next step, or "done" or "failed"
    adrift,     \* history: systemctl failed to stop it, or a teardown failed
    mixed,      \* history: the unit was reloaded in mid-start
    failures, reboots, commands, changes

files == <<bin, unit, enabled>>
manager == <<loaded, svc, setup, looked_up, after>>
server == <<args, found, proc, dns, relay>>
cli == <<command, at>>
history == <<adrift, mixed>>
budget == <<failures, reboots, commands>>
environment == <<network, changes>>
vars == <<files, manager, server, rules, cli, history, budget, environment>>

-----------------------------------------------------------------------------
(***************************************************************************)
(* Command lines.  A line is a set of arguments, each at a place of its    *)
(* own; an argument has a head and, in the form --flag=value, a tail.      *)
(***************************************************************************)
Arg(place, head, tail) == [at |-> place, head |-> head, tail |-> tail]

Following(line, a) == {b \in line : b.at > a.at /\ \A c \in line : c.at > a.at => b.at <= c.at}

(* What is given with an occurrence of a flag: its tail, or the next argument. *)
Given(line, a) ==
    IF a.tail # None THEN {a.tail} ELSE {b.head : b \in Following(line, a)}

ValueFlags == {"--listen-addr", "--upstream-proxy", "--log-level", "--dns-listen",
               "--dns-upstream", "--interface", "--pid-file", "--log-file", "--proxy-user",
               "--fwmark", "--ports"}
BareFlags == {"--dns", "--dns-strip-aaaa", "--daemon", "-d", "--local-traffic", "--gateway",
              "--sni", "--allow-quic", "--install", "--uninstall", "--start", "--stop",
              "--setup-firewall", "--teardown-firewall"}
Flags == ValueFlags \cup BareFlags

Option(head) == IF head = "-d" THEN "--daemon" ELSE head

(* clap (external) takes a line whose every argument is a flag it knows, with a
   value just if the flag has one, or the value of the flag before it; no option
   may be repeated, and --upstream-proxy must be there unless another command is. *)
Accepts(line) ==
    /\ \A a \in line :
         \/ a.head \in BareFlags /\ a.tail = None
         \/ /\ a.head \in ValueFlags
            /\ a.tail = None => \E b \in Following(line, a) : b.head \notin Flags
         \/ /\ a.head \notin Flags /\ a.tail = None
            /\ \E b \in line : b.head \in ValueFlags /\ b.tail = None /\ a \in Following(line, b)
    /\ \A a, b \in line : a.head \in Flags /\ Option(a.head) = Option(b.head) => a = b
    /\ \E a \in line :
         a.head \in {"--upstream-proxy", "--uninstall", "--start", "--stop", "--teardown-firewall"}

(* What clap finds on a line it accepts: the value of an option, if it is given,
   and whether a flag is. *)
Parsed(line, flag) == UNION {Given(line, a) : a \in {a \in line : a.head = flag}}

IsSet(line, flag) == \E a \in line : a.head = flag

-----------------------------------------------------------------------------
(***************************************************************************)
(* The unit: the installer looks for flags on the line it was given.       *)
(***************************************************************************)
SkipFlags == {"--install", "--uninstall", "--start", "--stop", "--daemon", "-d",
              "--setup-firewall", "--teardown-firewall"}
SkipWithValue == {"--pid-file", "--log-file"}

(* The loop's skip_next: no two flags of SkipWithValue follow each other on a
   line that clap has accepted. *)
Skipped(line, a) ==
    \/ a.head \in SkipFlags /\ a.tail = None
    \/ a.head \in SkipWithValue
    \/ \E b \in line : b.head \in SkipWithValue /\ b.tail = None /\ a \in Following(line, b)

filter_service_args(line) == {a \in line : ~Skipped(line, a)}

(* Mutated: a value after "=" is not seen. *)
ExtractSpaced(line, flag) ==
    LET hits == {a \in line : a.head = flag /\ a.tail = None}
    IN  UNION {Given(line, a) : a \in {a \in hits : \A b \in hits : a.at <= b.at}}

(* The first one decides: the set of what it returns, empty or a singleton. *)
extract_arg(line, flag) ==
    LET hits == {a \in line : a.head = flag}
    IN  UNION {Given(line, a) : a \in {a \in hits : \A b \in hits : a.at <= b.at}}

has_flag(line, flag) == \E a \in line : a.head = flag /\ a.tail = None

ForwardedValues == <<"--interface", "--listen-addr", "--upstream-proxy", "--dns-listen",
                     "--ports", "--fwmark">>
ForwardedFlags == <<"--local-traffic", "--dns">>

(* setup_args: the k-th forwarded flag goes to place 2k, its value after it. *)
ValuedArg(line, k) ==
    {Arg(2 * k, ForwardedValues[k], None) : v \in extract_arg(line, ForwardedValues[k])}
    \cup {Arg(2 * k + 1, v, None) : v \in extract_arg(line, ForwardedValues[k])}

BareArg(line, k) ==
    IF has_flag(line, ForwardedFlags[k]) THEN {Arg(13 + k, ForwardedFlags[k], None)} ELSE {}

SetupLine(line) ==
    {Arg(0, "--setup-firewall", None)}
    \cup (UNION {ValuedArg(line, k) : k \in 1..6}) \cup (UNION {BareArg(line, k) : k \in 1..2})

(* ExecStartPre and ExecStart.  ExecStopPost has no arguments to choose. *)
generate_unit(line) ==
    LET kept == filter_service_args(line)
    IN  [setup |-> SetupLine(kept), start |-> kept]

-----------------------------------------------------------------------------
(***************************************************************************)
(* What a process makes of its line.  Names are looked up in the network   *)
(* as it is at that moment: the interface's address, if it has one, and    *)
(* the address of the upstream's host.                                     *)
(***************************************************************************)
Or(values, default) == IF values = {} THEN default ELSE CHOOSE v \in values : TRUE

(* Config::parse; upstreams are named by their protocol. *)
Config(line) ==
    [listen_addr    |-> Or(Parsed(line, "--listen-addr"), "8443"),
     upstream_proxy |-> Or(Parsed(line, "--upstream-proxy"), None),
     interface      |-> Or(Parsed(line, "--interface"), "eth0"),
     ports          |-> Or(Parsed(line, "--ports"), None),
     fwmark         |-> Or(Parsed(line, "--fwmark"), "1"),
     dns_listen     |-> Or(Parsed(line, "--dns-listen"), None),
     dns            |-> IsSet(line, "--dns"),
     local_traffic  |-> IsSet(line, "--local-traffic"),
     allow_quic     |-> IsSet(line, "--allow-quic")]

proxy_udp_enabled(c) == ~c.allow_quic /\ c.upstream_proxy = "socks5"

(* An address, and the interface it was found to be that of. *)
Address(address, interface) == [address |-> address, interface |-> interface]

(* The address given, or the interface's and 0.0.0.0 if it has none. *)
resolve_dns_listen(c, net) ==
    IF c.dns_listen # None THEN Address(c.dns_listen, None)
    ELSE IF ~c.dns THEN None
    ELSE IF net.address = None THEN Address("0.0.0.0", None)
    ELSE Address(net.address, c.interface)

(* FirewallConfig::from_config *)
from_config(c, net) ==
    [interface     |-> c.interface,
     proxy_port    |-> c.listen_addr,
     fwmark        |-> IF c.local_traffic THEN c.fwmark ELSE None,
     upstream_addr |-> IF c.local_traffic THEN Address(net.upstream, None) ELSE None,
     ports         |-> c.ports,
     dns_listen    |-> resolve_dns_listen(c, net),
     block_quic    |-> ~c.allow_quic,
     proxy_udp     |-> proxy_udp_enabled(c)]

(* A unit is never taken for no unit.  Each argument has its place, and no value
   reads like a flag (clap takes such a value in the form --flag=value only). *)
ASSUME UnitAssumption == \A line \in CommandLines : generate_unit(line) # None

ASSUME LineAssumption ==
    \A line \in CommandLines : \A a \in line :
        /\ a \in [at : Nat, head : STRING, tail : STRING \cup {None}]
        /\ a.tail \notin Flags
        /\ \A b \in line : a.at = b.at => a = b

-----------------------------------------------------------------------------
Init ==
    /\ bin = FALSE /\ unit = None /\ enabled = FALSE
    /\ loaded = None /\ svc = "inactive" /\ after = "inactive"
    /\ network \in Networks /\ looked_up = network /\ found = network
    /\ setup = {} /\ args = {} /\ proc = "none" /\ dns = "off" /\ relay = "off"
    /\ rules = None
    /\ command = [name |-> "none", args |-> {}] /\ at = "done"
    /\ adrift = FALSE /\ mixed = FALSE
    /\ failures = 0 /\ reboots = 0 /\ commands = 0 /\ changes = 0

MayFail == failures < MaxFailures /\ failures' = failures + 1

(***************************************************************************)
(* The server: main, from the runtime on, run in the foreground.           *)
(***************************************************************************)
Alive == proc \in {"starting", "up"}

(* proxy::run has bound its listener. *)
ProxyBinds ==
    /\ proc = "starting"
    /\ proc' = "up"
    /\ UNCHANGED <<files, manager, args, found, dns, relay, rules, cli, history, budget, environment>>

(* It could not, or the process is killed: the tasks end with the process. *)
ServerFails ==
    /\ Alive /\ MayFail
    /\ proc' = "ended" /\ dns' = "off" /\ relay' = "off"
    /\ UNCHANGED <<files, manager, args, found, rules, cli, history, reboots, commands, environment>>

DnsBinds ==
    /\ Alive /\ dns = "starting"
    /\ dns' = "up"
    /\ UNCHANGED <<files, manager, args, found, proc, relay, rules, cli, history, budget, environment>>

(* dns::run returns or panics: it cannot bind, or either of its listeners fails. *)
DnsDies ==
    /\ Alive /\ dns \in {"starting", "up"} /\ MayFail
    /\ dns' = "dead"
    /\ UNCHANGED <<files, manager, args, found, proc, relay, rules, cli, history, reboots, commands, environment>>

RelayBinds ==
    /\ Alive /\ relay = "starting"
    /\ relay' = "up"
    /\ UNCHANGED <<files, manager, args, found, proc, dns, rules, cli, history, budget, environment>>

(* udp::run fails: that is logged and the rest goes on. *)
RelayFails ==
    /\ Alive /\ relay \in {"starting", "up"} /\ MayFail
    /\ relay' = "dead"
    /\ UNCHANGED <<files, manager, args, found, proc, dns, rules, cli, history, reboots, commands, environment>>

(* Mutated: nothing waits for the task of the forwarder. *)
DnsExitIgnored == dns = "dead" /\ UNCHANGED vars

(* The select over proxy::run and the forwarder's task sees that it has ended. *)
DnsExitEndsServer ==
    /\ Alive /\ dns = "dead"
    /\ proc' = "ended" /\ dns' = "off" /\ relay' = "off"
    /\ UNCHANGED <<files, manager, args, found, rules, cli, history, budget, environment>>

-----------------------------------------------------------------------------
(***************************************************************************)
(* systemd (external), driven by the unit: ExecStartPre, ExecStart, and    *)
(* ExecStopPost however the service ends; Restart=always, RestartSec=5.    *)
(* A command whose binary is missing fails without effect.                 *)
(***************************************************************************)
Systemd(from) == svc = from /\ UNCHANGED <<files, command, reboots, commands, environment>>

Executable == bin /\ loaded # None

(* ExecStartPre begins: main parses its line and looks names up. *)
BeginSetup(line) == setup' = line /\ looked_up' = network

(* A start job that waits for this is done.  The server parses its own line and
   looks names up anew; a line that it does not accept ends it at once, and so
   does an upstream that cannot be resolved (ServerFails). *)
SetupSucceeds ==
    /\ Systemd("pre") /\ Executable /\ Accepts(setup)
    /\ at' = IF at = "starting" THEN "done" ELSE at
    /\ rules' = from_config(Config(setup), looked_up)
    /\ svc' = "running"
    /\ args' = loaded.start /\ found' = network
    /\ LET c == Config(args')
       IN  IF Accepts(args')
           THEN /\ proc' = "starting"
                /\ dns' = IF resolve_dns_listen(c, found') # None THEN "starting" ELSE "off"
                /\ relay' = IF proxy_udp_enabled(c) THEN "starting" ELSE "off"
           ELSE proc' = "ended" /\ dns' = "off" /\ relay' = "off"
    /\ UNCHANGED <<loaded, setup, looked_up, after, history, failures>>

(* It does not accept its line, or it stops at some command, with what it had put
   in force by then. *)
SetupFails ==
    /\ Systemd("pre")
    /\ at' = IF at = "starting" THEN "failed" ELSE at
    /\ IF Executable /\ Accepts(setup)
       THEN rules' \in {rules, from_config(Config(setup), looked_up)} /\ MayFail
       ELSE UNCHANGED <<rules, failures>>
    /\ svc' = "post" /\ after' = "restart"
    /\ UNCHANGED <<loaded, setup, looked_up, server, history>>

MainExits ==
    /\ Systemd("running") /\ proc = "ended"
    /\ proc' = "none"
    /\ svc' = "post" /\ after' = "restart"
    /\ UNCHANGED <<loaded, setup, looked_up, args, found, dns, relay, rules, at, history, failures>>

(* Mutated: the unit has no ExecStopPost. *)
NoTeardown ==
    /\ Systemd("post")
    /\ svc' = after
    /\ UNCHANGED <<loaded, setup, looked_up, after, server, rules, at, history, failures>>

Teardown ==
    /\ Systemd("post")
    /\ svc' = after
    /\ \/ Executable /\ rules' = None /\ UNCHANGED <<adrift, failures>>
       \/ Executable /\ adrift' = TRUE /\ MayFail /\ UNCHANGED rules
       \/ ~Executable /\ UNCHANGED <<rules, adrift, failures>>
    /\ UNCHANGED <<loaded, setup, looked_up, after, server, at, mixed>>

(* A unit that has gone by then is not started again. *)
RestartTimer ==
    /\ Systemd("restart")
    /\ IF loaded = None
       THEN svc' = "inactive" /\ UNCHANGED <<setup, looked_up>>
       ELSE svc' = "pre" /\ BeginSetup(loaded.setup)
    /\ mixed' = FALSE
    /\ UNCHANGED <<loaded, after, server, rules, at, adrift, failures>>

(* The host goes down at any moment and comes up again: what is enabled is
   started; rules and whatever was under way are gone. *)
Reboot ==
    /\ reboots < MaxReboots /\ reboots' = reboots + 1
    /\ loaded' = unit
    /\ IF enabled /\ unit # None
       THEN svc' = "pre" /\ BeginSetup(unit.setup)
       ELSE svc' = "inactive" /\ UNCHANGED <<setup, looked_up>>
    /\ after' = "inactive"
    /\ proc' = "none" /\ dns' = "off" /\ relay' = "off"
    /\ rules' = None
    /\ at' = IF at = "done" THEN "done" ELSE "failed"
    /\ adrift' = FALSE /\ mixed' = FALSE
    /\ UNCHANGED <<files, args, found, command, failures, commands, environment>>

(* A lease, a new upstream: what is looked up from now on is something else. *)
NetworkChanges ==
    /\ changes < MaxChanges /\ changes' = changes + 1
    /\ network' \in Networks \ {network}
    /\ UNCHANGED <<files, manager, server, rules, cli, history, budget>>

-----------------------------------------------------------------------------
(***************************************************************************)
(* The service commands, one at a time.  They fail at once, without        *)
(* effect, for a user who is not root and on a line that clap rejects.     *)
(***************************************************************************)
BeginUninstallOrQuit ==                     \* mutated: no unit, nothing to remove
    IF unit # None THEN "disable" ELSE "done"

BeginUninstall == IF unit # None THEN "disable" ELSE "binary"

Begin(name, line) ==
    /\ at \in {"done", "failed"}
    /\ commands < MaxCommands /\ commands' = commands + 1
    /\ command' = [name |-> name, args |-> line]
    /\ at' = CASE name = "install" -> IF Accepts(line) THEN "copy" ELSE "failed"
               [] name = "start" -> IF unit # None THEN "job" ELSE "failed"
               [] name = "stop" -> IF unit # None THEN "stop" ELSE "failed"
               [] name = "uninstall" -> BeginUninstall
    /\ UNCHANGED <<files, manager, server, rules, history, failures, reboots, environment>>

Step(from, to) == at = from /\ at' = to /\ UNCHANGED <<command, reboots, commands, environment>>

(* Any step that is not ignored ends the command, what was done stays. *)
StepFails ==
    /\ at \in {"copy", "chmod", "unit", "reload", "enable", "job", "stop", "rmunit", "binary"}
    /\ MayFail
    /\ at' = "failed"
    /\ UNCHANGED <<files, manager, server, rules, command, history, reboots, commands, environment>>

(* A program that is being executed cannot be written to (external). *)
Busy == bin /\ (Alive \/ svc \in {"pre", "post"})

Copy ==
    /\ Step("copy", IF Busy THEN "failed" ELSE "chmod")
    /\ bin' = TRUE
    /\ UNCHANGED <<unit, enabled, manager, server, rules, history, failures>>

(* set_executable, and the legacy scripts go. *)
Chmod ==
    /\ Step("chmod", "unit")
    /\ UNCHANGED <<files, manager, server, rules, history, failures>>

WriteUnit ==
    /\ Step("unit", "reload")
    /\ unit' = generate_unit(command.args)
    /\ UNCHANGED <<bin, enabled, manager, server, rules, history, failures>>

DaemonReload ==
    /\ loaded' = unit
    /\ mixed' = (mixed \/ (svc = "pre" /\ loaded # unit))
    /\ UNCHANGED <<files, svc, setup, looked_up, after, server, rules, adrift>>

Reload == Step("reload", "enable") /\ DaemonReload /\ UNCHANGED failures

Enable ==
    /\ Step("enable", "job")
    /\ enabled' = TRUE
    /\ UNCHANGED <<bin, unit, manager, server, rules, history, failures>>

(* The start job of enable --now and of start: nothing if it runs, to wait if
   it is being started or stopped. *)
StartJob ==
    /\ svc # "post"
    /\ Step("job", IF svc = "running" THEN "done" ELSE "starting")
    /\ IF svc \in {"inactive", "restart"}
       THEN /\ svc' = "pre" /\ mixed' = FALSE
            /\ loaded' = IF loaded = None THEN unit ELSE loaded
            /\ BeginSetup(loaded'.setup)
       ELSE UNCHANGED <<svc, mixed, loaded, setup, looked_up>>
    /\ UNCHANGED <<files, after, server, rules, adrift, failures>>

(* The stop job: SIGTERM to the process there is, which the server answers by
   ending (shutdown_signal), then ExecStopPost. *)
StopJob ==
    /\ svc # "inactive"
    /\ after' = "inactive"
    /\ svc' = IF svc = "restart" THEN "inactive" ELSE "post"
    /\ proc' = "none" /\ dns' = "off" /\ relay' = "off"
    /\ IF svc = "pre" /\ Executable /\ Accepts(setup)
       THEN rules' \in {rules, from_config(Config(setup), looked_up)}
       ELSE UNCHANGED rules
    /\ UNCHANGED <<bin, unit, loaded, setup, looked_up, args, found, history, failures>>

Stop == Step("stop", "stopping") /\ StopJob /\ UNCHANGED enabled

(* disable --now, whose failure is ignored. *)
Disable ==
    /\ enabled' = FALSE
    /\ \/ Step("disable", "disabling") /\ StopJob
       \/ /\ svc = "inactive" /\ Step("disable", "rmunit")
          /\ UNCHANGED <<bin, unit, manager, server, rules, history, failures>>

DisableFails ==
    /\ Step("disable", "rmunit") /\ MayFail
    /\ adrift' = (adrift \/ svc # "inactive")
    /\ UNCHANGED <<files, manager, server, rules, mixed>>

(* The stop job is done. *)
Stopped ==
    /\ svc = "inactive"
    /\ \/ Step("stop", "done") \/ Step("stopping", "done") \/ Step("disabling", "rmunit")
    /\ UNCHANGED <<files, manager, server, rules, history, failures>>

RemoveUnit ==
    /\ Step("rmunit", "binary")
    /\ unit' = None
    /\ UNCHANGED <<bin, enabled, manager, server, rules, history, failures>>

(* The legacy scripts go after the binary, which is gone if they cannot be
   removed; that the binary cannot is StepFails. *)
RemoveBinary ==
    /\ bin' = FALSE
    /\ \/ Step("binary", "forget") /\ UNCHANGED failures
       \/ Step("binary", "failed") /\ MayFail
    /\ UNCHANGED <<unit, enabled, manager, server, rules, history>>

(* The last daemon-reload, whose failure is ignored too. *)
Forget ==
    /\ Step("forget", "done")
    /\ \/ DaemonReload /\ UNCHANGED failures
       \/ MayFail /\ UNCHANGED <<files, manager, server, rules, history>>

-----------------------------------------------------------------------------
Next ==
    \/ ProxyBinds \/ ServerFails
    \/ DnsBinds \/ DnsDies \/ DnsExitEndsServer
    \/ RelayBinds \/ RelayFails
    \/ SetupSucceeds \/ SetupFails \/ MainExits \/ Teardown \/ RestartTimer
    \/ Reboot \/ NetworkChanges
    \/ \E line \in CommandLines : Begin("install", line)
    \/ \E name \in {"start", "stop", "uninstall"} : Begin(name, {})
    \/ StepFails
    \/ Copy \/ Chmod \/ WriteUnit \/ Reload \/ Enable \/ StartJob
    \/ Stop \/ Stopped
    \/ Disable \/ DisableFails \/ RemoveUnit \/ RemoveBinary \/ Forget

(* The server's tasks are polled and systemd does what the unit says; nobody
   has to type a command, and nothing has to fail. *)
Fairness ==
    /\ WF_vars(ProxyBinds) /\ WF_vars(DnsBinds) /\ WF_vars(DnsExitEndsServer)
    /\ WF_vars(SetupSucceeds \/ SetupFails)
    /\ WF_vars(MainExits) /\ WF_vars(Teardown) /\ WF_vars(RestartTimer)

Spec == Init /\ [][Next]_vars /\ Fairness

-----------------------------------------------------------------------------
TypeOK ==
    /\ bin \in BOOLEAN /\ enabled \in BOOLEAN
    /\ svc \in {"inactive", "pre", "running", "post", "restart"}
    /\ proc \in {"none", "starting", "up", "ended"}
    /\ svc = "running" <=> proc # "none"
    /\ ~Alive => dns = "off" /\ relay = "off"

(* The rules never outlive the service: whenever it is down, be it that it was
   stopped in mid-start, that a set-up failed half-way, that it died or was
   uninstalled, no traffic is still redirected to a proxy that is not there.
   Only a teardown or a stop that itself fails leaves any (main.rs and the
   unit's ExecStopPost; README, "removed when it stops"). *)
RulesGoneWhenDown == svc \in {"inactive", "restart"} /\ ~adrift => rules = None

(* What the unit's two processes must agree on: what is on their lines, what either
   looks up for itself, and what --allow-quic changes. *)
Written == {"interface", "proxy_port", "fwmark", "ports"}
LookedUp == {"upstream_addr", "dns_listen"}
Quic == {"block_quic", "proxy_udp"}

(* The unit's two command lines agree: the rules put in force by ExecStartPre are
   those that the server of ExecStart relies on, in its port, its mark and what it
   leaves alone; unless the network changed between their look-ups, in its DNS
   listener and its upstream; and but for --allow-quic (AllowQuicHonoured), in its
   UDP relay.  The server can read its own line.  So it is in whatever form the
   flags were given and however often the service was installed anew, unless systemd
   read a new unit between the two commands of one start.  What the installer's own
   parser makes of the flags is compared with what clap makes of them
   (generate_unit, Config). *)
RulesMeetServer ==
    svc = "running" /\ ~mixed =>
        LET served == from_config(Config(args), found)
        IN  /\ Accepts(args)
            /\ \A f \in Written : rules[f] = served[f]
            /\ found = looked_up => \A f \in LookedUp : rules[f] = served[f]
            /\ ~Config(args).allow_quic => \A f \in Quic : rules[f] = served[f]

(* An uninstall that reports success leaves neither program nor unit (of the
   symlink in `enabled`, which a disable that failed leaves, it says nothing), and
   nothing running or in force, whatever an install that failed or was cut off by
   a reboot, or an uninstall that did, had left; a stop that failed is the
   exception. *)
UninstallIsComplete ==
    command.name = "uninstall" /\ at = "done" =>
        /\ ~bin /\ unit = None
        /\ ~adrift => svc = "inactive" /\ rules = None

(* "a dead forwarder silently blackholes DNS for every client.  Treat forwarder
   exit as fatal so the service manager can restart us" (main): while rules
   send DNS to a forwarder, one is there, or will be, or the rules go. *)
Blackhole == rules # None /\ rules.dns_listen # None /\ dns # "up"

BlackholeHeals == [](Blackhole => <>(~Blackhole \/ adrift))

(* --allow-quic: "Pass this flag to disable both the interception and the drop"
   (config.rs).  Not so for an installed service: the flag is not among those
   that the unit passes on to the firewall set-up. *)
AllowQuicHonoured ==
    svc = "running" /\ Config(args).allow_quic => ~rules.block_quic /\ ~rules.proxy_udp
=============================================================================
