---------------------------- MODULE ServiceProofs ----------------------------
(***************************************************************************)
(* Theorems about module Service, for any command lines, and any number of *)
(* commands, failures and reboots.                                         *)
(*                                                                         *)
(* That the rules go with the service rests on the teardown of the unit,   *)
(* which can only run while the unit is loaded and the binary is there.    *)
(* Backed says that they are, whenever the service is not down.  InStep    *)
(* says what a command finds on disk at each of its steps, and that an     *)
(* uninstall removes unit and binary only once the service is down, or has *)
(* been lost track of.                                                     *)
(***************************************************************************)
EXTENDS Service, TLAPS

Down == svc = "inactive" \/ adrift

InstallSteps == {"copy", "chmod", "unit"}
OtherSteps == {"reload", "enable", "job", "starting", "stop", "stopping"}

InStep ==
    /\ at \in InstallSteps => command.args \in CommandLines /\ Accepts(command.args)
    /\ at \in InstallSteps \cup OtherSteps => command.name # "uninstall"
    /\ at \in {"chmod", "unit"} => bin
    /\ at \in {"reload", "enable", "job"} => unit # None
    /\ at \in {"rmunit", "binary", "forget"} => Down
    /\ at \in {"binary", "forget"} => unit = None
    /\ at = "forget" => ~bin
    /\ unit # None => bin
    /\ unit = None => Down

Backed ==
    /\ svc \in {"inactive", "pre", "running", "post", "restart"}
    /\ after \in {"inactive", "restart"}
    /\ ~Down => Executable

Uninstalled == command.name = "uninstall" /\ at = "done" => ~bin /\ unit = None

IInv == InStep /\ Backed /\ RulesGoneWhenDown /\ Uninstalled

-----------------------------------------------------------------------------
LEMMA InitIInv == Init => IInv
BY DEF Init, IInv, InStep, Backed, Uninstalled, RulesGoneWhenDown, Down, InstallSteps, OtherSteps

(* The server's own steps, and the network's, change neither what is on disk nor the rules. *)
LEMMA ServerStep ==
    ASSUME IInv,
           \/ ProxyBinds \/ ServerFails \/ DnsBinds \/ DnsDies \/ DnsExitEndsServer
           \/ RelayBinds \/ RelayFails \/ NetworkChanges
    PROVE  IInv'
<1>1. UNCHANGED <<files, manager, rules, cli, adrift>>
  BY DEF ProxyBinds, ServerFails, DnsBinds, DnsDies, DnsExitEndsServer, RelayBinds, RelayFails,
     NetworkChanges, history
<1> QED
  BY <1>1 DEF IInv, InStep, Backed, Uninstalled, RulesGoneWhenDown, Down, Executable, InstallSteps,
     OtherSteps, files, manager, cli

(* systemd runs the unit's commands: the service comes up or goes down, and
   the teardown that must go with it finds its binary. *)
LEMMA ManagerStep ==
    ASSUME IInv, SetupSucceeds \/ SetupFails \/ MainExits \/ Teardown \/ RestartTimer
    PROVE  IInv'
<1> USE DEF IInv, InStep, Backed, Uninstalled, RulesGoneWhenDown, Down, Executable, InstallSteps,
    OtherSteps, files, Systemd
<1>1. CASE SetupSucceeds
  BY <1>1 DEF SetupSucceeds, history
<1>2. CASE SetupFails
  BY <1>2 DEF SetupFails, history
<1>3. CASE MainExits
  BY <1>3 DEF MainExits, history
<1>4. CASE Teardown
  BY <1>4 DEF Teardown
<1>5. CASE RestartTimer
  BY <1>5 DEF RestartTimer
<1> QED
  BY <1>1, <1>2, <1>3, <1>4, <1>5

(* A reboot takes the rules along and starts only what is still on disk. *)
LEMMA RebootStep ==
    ASSUME IInv, Reboot
    PROVE  IInv'
BY DEF Reboot, IInv, InStep, Backed, Uninstalled, RulesGoneWhenDown, Down, Executable,
   InstallSteps, OtherSteps, files

(* A command begins, or one of its steps fails. *)
LEMMA BeginStep ==
    ASSUME IInv,
           \/ \E line \in CommandLines : Begin("install", line)
           \/ \E name \in {"start", "stop", "uninstall"} : Begin(name, {})
           \/ StepFails
    PROVE  IInv'
<1> USE DEF IInv, InStep, Backed, Uninstalled, RulesGoneWhenDown, Down, Executable, InstallSteps,
    OtherSteps, files, manager, history
<1>1. ASSUME NEW line \in CommandLines, Begin("install", line)
      PROVE  IInv'
  BY <1>1 DEF Begin
<1>2. ASSUME NEW name \in {"start", "stop", "uninstall"}, Begin(name, {})
      PROVE  IInv'
  <2>1. CASE name = "start"
    BY <1>2, <2>1 DEF Begin
  <2>2. CASE name = "stop"
    BY <1>2, <2>2 DEF Begin
  <2>3. CASE name = "uninstall"
    BY <1>2, <2>3 DEF Begin, BeginUninstall
  <2> QED
    BY <2>1, <2>2, <2>3
<1>3. CASE StepFails
  BY <1>3 DEF StepFails
<1> QED
  BY <1>1, <1>2, <1>3

(* install, from the copy of the binary to the start job. *)
LEMMA InstallStep ==
    ASSUME IInv, Copy \/ Chmod \/ WriteUnit \/ Reload \/ Enable \/ StartJob
    PROVE  IInv'
<1> USE DEF IInv, InStep, Backed, Uninstalled, RulesGoneWhenDown, Down, Executable, InstallSteps,
    OtherSteps, Step
<1>1. CASE Copy
  BY <1>1 DEF Copy, Busy, manager, history
<1>2. CASE Chmod
  BY <1>2 DEF Chmod, files, manager, history
<1>3. CASE WriteUnit
  BY <1>3, UnitAssumption DEF WriteUnit, manager, history
<1>4. CASE Reload
  BY <1>4 DEF Reload, DaemonReload, files
<1>5. CASE Enable
  BY <1>5 DEF Enable, manager, history
<1>6. CASE StartJob
  BY <1>6 DEF StartJob, files
<1> QED
  BY <1>1, <1>2, <1>3, <1>4, <1>5, <1>6

(* stop and uninstall: unit and binary go last. *)
LEMMA UninstallStep ==
    ASSUME IInv,
           \/ Stop \/ Stopped \/ Disable \/ DisableFails
           \/ RemoveUnit \/ RemoveBinary \/ Forget
    PROVE  IInv'
<1> USE DEF IInv, InStep, Backed, Uninstalled, RulesGoneWhenDown, Down, Executable, InstallSteps,
    OtherSteps, Step
<1>1. CASE Stop
  BY <1>1 DEF Stop, StopJob, history
<1>2. CASE Stopped
  BY <1>2 DEF Stopped, files, manager, history
<1>3. CASE Disable
  BY <1>3 DEF Disable, StopJob, manager, history
<1>4. CASE DisableFails
  BY <1>4 DEF DisableFails, files, manager
<1>5. CASE RemoveUnit
  BY <1>5 DEF RemoveUnit, manager, history
<1>6. CASE RemoveBinary
  BY <1>6 DEF RemoveBinary, manager, history
<1>7. CASE Forget
  BY <1>7 DEF Forget, DaemonReload, files, manager, history
<1> QED
  BY <1>1, <1>2, <1>3, <1>4, <1>5, <1>6, <1>7

LEMMA NextIInv == IInv /\ [Next]_vars => IInv'
<1> SUFFICES ASSUME IInv, [Next]_vars PROVE IInv'
  OBVIOUS
<1>1. CASE UNCHANGED vars
  BY <1>1 DEF vars, files, manager, cli, history, IInv, InStep, Backed, Uninstalled,
     RulesGoneWhenDown, Down, Executable, InstallSteps, OtherSteps
<1>2. CASE Next
  BY <1>2, ServerStep, ManagerStep, RebootStep, BeginStep, InstallStep, UninstallStep DEF Next
<1> QED
  BY <1>1, <1>2

LEMMA IInvAlways == Spec => []IInv
BY InitIInv, NextIInv, PTL DEF Spec

-----------------------------------------------------------------------------
(* No rules without a service: however often it is installed, killed, stopped
   in mid-start, uninstalled or rebooted, a service that is down has left no
   redirect behind, unless a stop or the teardown itself has failed
   (generate_unit's ExecStopPost, uninstall). *)
THEOREM RulesGoneWhenDownAlways == Spec => []RulesGoneWhenDown
<1>1. IInv => RulesGoneWhenDown
  BY DEF IInv
<1> QED
  BY <1>1, IInvAlways, PTL

(* An uninstall that reports success has removed binary and unit, and nothing
   runs or is in force, whatever unfinished command it came after
   (service/linux.rs, uninstall). *)
THEOREM UninstallIsCompleteAlways == Spec => []UninstallIsComplete
<1>1. IInv => UninstallIsComplete
  BY DEF IInv, InStep, Uninstalled, RulesGoneWhenDown, Down, UninstallIsComplete
<1> QED
  BY <1>1, IInvAlways, PTL

-----------------------------------------------------------------------------
(* The two command lines of a unit.  First, what the filter leaves of a line that
   clap accepts. *)
WellFormed(line) ==
    \A a \in line :
        /\ a \in [at : Nat, head : STRING, tail : STRING \cup {None}]
        /\ a.tail \notin Flags
        /\ \A b \in line : a.at = b.at => a = b

(* A kept flag keeps its value, and a kept value its flag. *)
LEMMA KeptTogether ==
    ASSUME NEW line, WellFormed(line), Accepts(line),
           NEW a \in line, NEW b \in line,
           a.head \in ValueFlags, a.tail = None, b \in Following(line, a), b.head \notin Flags
    PROVE  /\ a \in filter_service_args(line) <=> b \in filter_service_args(line)
           /\ a \in filter_service_args(line) => b \in Following(filter_service_args(line), a)
<1>1. a.at \in Nat /\ b.at \in Nat /\ b.at > a.at /\ \A c \in line : c.at > a.at => b.at <= c.at
  BY DEF WellFormed, Following
<1>2. ASSUME NEW c \in line, b \in Following(line, c)
      PROVE  c = a
  <2>1. c.at \in Nat /\ b.at > c.at /\ \A d \in line : d.at > c.at => b.at <= d.at
    BY <1>2 DEF WellFormed, Following
  <2>2. ~(c.at > a.at) /\ ~(a.at > c.at)
    BY <1>1, <2>1
  <2>3. c.at = a.at
    BY <1>1, <2>1, <2>2
  <2> QED
    BY <2>3 DEF WellFormed
<1>3. ~\E c \in line : c.head \in SkipWithValue /\ c.tail = None /\ a \in Following(line, c)
  <2> SUFFICES ASSUME NEW c \in line, c.head \in SkipWithValue, c.tail = None,
                      a \in Following(line, c)
               PROVE  FALSE
    OBVIOUS
  <2>1. c.head \in ValueFlags
    BY DEF SkipWithValue, ValueFlags
  <2>2. PICK d \in Following(line, c) : d.head \notin Flags
    BY <2>1 DEF Accepts, BareFlags, ValueFlags, Flags
  <2>3. d \in line /\ d.at \in Nat /\ a.at <= d.at /\ d.at <= a.at
    BY <2>2 DEF Following, WellFormed
  <2>4. d = a
    BY <1>1, <2>3 DEF WellFormed
  <2> QED
    BY <2>2, <2>4 DEF Flags
<1>4. a \notin filter_service_args(line) <=> a.head \in SkipWithValue
  BY <1>3 DEF filter_service_args, Skipped, ValueFlags, SkipFlags, SkipWithValue
<1>5. b.head \notin SkipFlags /\ b.head \notin SkipWithValue
  BY DEF Flags, ValueFlags, BareFlags, SkipFlags, SkipWithValue
<1>6. b \notin filter_service_args(line) <=> a.head \in SkipWithValue
  BY <1>2, <1>5 DEF filter_service_args, Skipped
<1>7. filter_service_args(line) \subseteq line
  BY DEF filter_service_args
<1> QED
  BY <1>1, <1>4, <1>6, <1>7 DEF Following

(* So clap still accepts it, if it still names an upstream. *)
LEMMA KeptAccepted ==
    ASSUME NEW line, WellFormed(line), Accepts(line),
           IsSet(filter_service_args(line), "--upstream-proxy")
    PROVE  Accepts(filter_service_args(line))
<1> DEFINE K == filter_service_args(line)
<1>1. K \subseteq line
  BY DEF filter_service_args
<1>2. \A a, b \in K : a.head \in Flags /\ Option(a.head) = Option(b.head) => a = b
  BY <1>1 DEF Accepts
<1>3. ASSUME NEW a \in K
      PROVE  \/ a.head \in BareFlags /\ a.tail = None
             \/ /\ a.head \in ValueFlags
                /\ a.tail = None => \E b \in Following(K, a) : b.head \notin Flags
             \/ /\ a.head \notin Flags /\ a.tail = None
                /\ \E b \in K : b.head \in ValueFlags /\ b.tail = None /\ a \in Following(K, b)
  <2>1. CASE a.head \in BareFlags /\ a.tail = None
    BY <2>1
  <2>2. CASE a.head \in ValueFlags /\ (a.tail = None => \E b \in Following(line, a) : b.head \notin Flags)
    <3>1. CASE a.tail # None
      BY <2>2, <3>1
    <3>2. CASE a.tail = None
      <4>1. PICK b \in Following(line, a) : b.head \notin Flags
        BY <2>2, <3>2
      <4>2. b \in line
        BY DEF Following
      <4>3. b \in Following(K, a)
        BY <1>1, <1>3, <2>2, <3>2, <4>1, <4>2, KeptTogether
      <4> QED
        BY <2>2, <4>1, <4>3
    <3> QED
      BY <3>1, <3>2
  <2>3. CASE /\ a.head \notin Flags /\ a.tail = None
             /\ \E b \in line : b.head \in ValueFlags /\ b.tail = None /\ a \in Following(line, b)
    <3>1. PICK b \in line : b.head \in ValueFlags /\ b.tail = None /\ a \in Following(line, b)
      BY <2>3
    <3>2. b \in K /\ a \in Following(K, b)
      BY <1>1, <1>3, <2>3, <3>1, KeptTogether
    <3> QED
      BY <2>3, <3>1, <3>2
  <2> QED
    BY <1>1, <1>3, <2>1, <2>2, <2>3 DEF Accepts
<1>4. \E a \in K : a.head = "--upstream-proxy"
  BY DEF IsSet
<1> HIDE DEF K
<1>5. Accepts(K)
  BY <1>2, <1>3, <1>4 DEF Accepts
<1> QED
  BY <1>5 DEF K

(* The installer finds on it what clap finds, and no value it finds is a flag. *)
LEMMA ExtractedAsParsed ==
    ASSUME NEW line, WellFormed(line), Accepts(line)
    PROVE  /\ \A f \in ValueFlags :
                /\ extract_arg(filter_service_args(line), f) = Parsed(filter_service_args(line), f)
                /\ extract_arg(filter_service_args(line), f) \cap Flags = {}
           /\ \A f \in BareFlags :
                has_flag(filter_service_args(line), f) = IsSet(filter_service_args(line), f)
<1> DEFINE K == filter_service_args(line)
<1>1. K \subseteq line
  BY DEF filter_service_args
<1>2. ASSUME NEW f \in ValueFlags
      PROVE  extract_arg(K, f) = Parsed(K, f)
  <2>1. \A a, b \in K : a.head = f /\ b.head = f => a = b
    BY <1>1 DEF Accepts, Flags
  <2>2. \A a \in K : a.at <= a.at
    BY <1>1 DEF WellFormed
  <2> HIDE DEF K
  <2>3. {a \in {c \in K : c.head = f} : \A b \in {c \in K : c.head = f} : a.at <= b.at}
            = {c \in K : c.head = f}
    BY <2>1, <2>2
  <2> QED
    BY <2>3 DEF extract_arg, Parsed
<1>3. ASSUME NEW f \in ValueFlags, NEW v \in Parsed(K, f)
      PROVE  v \notin Flags
  <2>1. PICK a \in K : a.head = f /\ v \in Given(K, a)
    BY <1>3 DEF Parsed
  <2>2. CASE a.tail # None
    BY <1>1, <2>1, <2>2 DEF Given, WellFormed
  <2>3. CASE a.tail = None
    <3>1. PICK c \in Following(K, a) : v = c.head
      BY <2>1, <2>3 DEF Given
    <3>2. PICK b \in Following(line, a) : b.head \notin Flags
      BY <1>1, <2>1, <2>3 DEF Accepts, Flags, BareFlags, ValueFlags
    <3>3. b \in line /\ b \in Following(K, a)
      BY <1>1, <2>1, <2>3, <3>2, KeptTogether DEF Following
    <3>4. b.at \in Nat /\ c.at \in Nat /\ b.at <= c.at /\ c.at <= b.at /\ c \in line
      BY <1>1, <3>1, <3>3 DEF Following, WellFormed
    <3>5. b = c
      BY <3>3, <3>4 DEF WellFormed
    <3> QED
      BY <3>1, <3>2, <3>5
  <2> QED
    BY <2>2, <2>3
<1>4. ASSUME NEW f \in BareFlags
      PROVE  has_flag(K, f) = IsSet(K, f)
  <2>1. f \in Flags /\ f \notin ValueFlags
    BY DEF Flags, BareFlags, ValueFlags
  <2>2. \A a \in K : a.head = f => a.tail = None
    BY <1>1, <2>1 DEF Accepts
  <2> QED
    BY <2>2 DEF has_flag, IsSet
<1> QED
  BY <1>2, <1>3, <1>4

(* The arguments of the set-up's line. *)
Switch(K, a) == \E m \in 1..6 : /\ extract_arg(K, ForwardedValues[m]) # {}
                              /\ a = Arg(2 * m, ForwardedValues[m], None)
Value(K, a) == \E m \in 1..6 : \E v \in extract_arg(K, ForwardedValues[m]) :
                 a = Arg(2 * m + 1, v, None)
BareFlag(K, a) == \E m \in 1..2 : /\ has_flag(K, ForwardedFlags[m])
                                  /\ a = Arg(13 + m, ForwardedFlags[m], None)

LEMMA SetupArgs ==
    ASSUME NEW K, NEW a
    PROVE  a \in SetupLine(K) <=>
             a = Arg(0, "--setup-firewall", None) \/ Switch(K, a) \/ Value(K, a) \/ BareFlag(K, a)
<1>1. ASSUME NEW k \in 1..6
      PROVE  a \in ValuedArg(K, k) <=>
               \/ extract_arg(K, ForwardedValues[k]) # {} /\ a = Arg(2 * k, ForwardedValues[k], None)
               \/ \E v \in extract_arg(K, ForwardedValues[k]) : a = Arg(2 * k + 1, v, None)
  BY DEF ValuedArg
<1>2. ASSUME NEW k \in 1..2
      PROVE  a \in BareArg(K, k) <=>
               has_flag(K, ForwardedFlags[k]) /\ a = Arg(13 + k, ForwardedFlags[k], None)
  BY DEF BareArg
<1>3. a \in SetupLine(K) <=> \/ a = Arg(0, "--setup-firewall", None)
                             \/ \E k \in 1..6 : a \in ValuedArg(K, k)
                             \/ \E k \in 1..2 : a \in BareArg(K, k)
  <2> DEFINE first == Arg(0, "--setup-firewall", None)
             U == UNION {ValuedArg(K, k) : k \in 1..6}
             V == UNION {BareArg(K, k) : k \in 1..2}
  <2>1. SetupLine(K) = {first} \cup U \cup V
    BY DEF SetupLine
  <2>2. a \in U <=> \E k \in 1..6 : a \in ValuedArg(K, k)
    BY Zenon
  <2>3. a \in V <=> \E k \in 1..2 : a \in BareArg(K, k)
    BY Zenon
  <2> HIDE DEF first, U, V
  <2>4. a \in SetupLine(K) <=> a = first \/ a \in U \/ a \in V
    BY <2>1
  <2> QED
    BY <2>2, <2>3, <2>4 DEF first
<1>4. (\E k \in 1..6 : a \in ValuedArg(K, k)) <=> Switch(K, a) \/ Value(K, a)
  BY <1>1 DEF Switch, Value
<1>5. (\E k \in 1..2 : a \in BareArg(K, k)) <=> BareFlag(K, a)
  BY <1>2 DEF BareFlag
<1> QED
  BY <1>3, <1>4, <1>5

(* clap finds on the set-up's line what the installer has put there. *)
LEMMA ForwardedAsExtracted ==
    ASSUME NEW K, NEW k \in 1..6,
           \A m \in 1..6 : extract_arg(K, ForwardedValues[m]) \cap Flags = {}
    PROVE  Parsed(SetupLine(K), ForwardedValues[k]) = extract_arg(K, ForwardedValues[k])
<1> DEFINE S == SetupLine(K)
           f == ForwardedValues[k]
           h == Arg(2 * k, f, None)
<1>1. \A m \in 1..6 : ForwardedValues[m] \in Flags /\ (ForwardedValues[m] = f => m = k)
  BY DEF ForwardedValues, Flags, ValueFlags
<1>2. ASSUME NEW a \in S
      PROVE  /\ a.at \in Nat /\ a.tail = None
             /\ a.head = f => a = h /\ extract_arg(K, f) # {}
             /\ a.at = 2 * k + 1 => a.head \in extract_arg(K, f)
  <2>1. CASE a = Arg(0, "--setup-firewall", None)
    <3>1. a.at = 0 /\ a.tail = None /\ a.head = "--setup-firewall"
      BY <2>1 DEF Arg
    <3>2. f # "--setup-firewall"
      BY DEF ForwardedValues
    <3> QED
      BY <3>1, <3>2
  <2>2. CASE Switch(K, a)
    <3>1. PICK m \in 1..6 : /\ extract_arg(K, ForwardedValues[m]) # {}
                            /\ a = Arg(2 * m, ForwardedValues[m], None)
      BY <2>2 DEF Switch
    <3>2. a.at = 2 * m /\ a.tail = None /\ a.head = ForwardedValues[m]
      BY <3>1 DEF Arg
    <3> QED
      BY <1>1, <3>1, <3>2
  <2>3. CASE Value(K, a)
    <3>1. PICK m \in 1..6 : \E v \in extract_arg(K, ForwardedValues[m]) : a = Arg(2 * m + 1, v, None)
      BY <2>3 DEF Value
    <3>2. a.head \in extract_arg(K, ForwardedValues[m]) /\ a.at = 2 * m + 1 /\ a.tail = None
      BY <3>1 DEF Arg
    <3>3. a.head # f
      BY <1>1, <3>2
    <3>4. a.at = 2 * k + 1 => m = k
      BY <3>2
    <3> QED
      BY <3>2, <3>3, <3>4
  <2>4. CASE BareFlag(K, a)
    <3>1. PICK m \in 1..2 : a = Arg(13 + m, ForwardedFlags[m], None)
      BY <2>4 DEF BareFlag
    <3>2. a.at = 13 + m /\ a.tail = None /\ a.head = ForwardedFlags[m]
      BY <3>1 DEF Arg
    <3>3. ForwardedFlags[m] # f
      BY DEF ForwardedFlags, ForwardedValues
    <3> QED
      BY <3>2, <3>3
  <2> QED
    BY <2>1, <2>2, <2>3, <2>4, SetupArgs
<1>3. Parsed(S, f) \subseteq extract_arg(K, f)
  <2> SUFFICES ASSUME NEW v \in Parsed(S, f)
               PROVE  v \in extract_arg(K, f)
    OBVIOUS
  <2>1. PICK a \in S : a.head = f /\ v \in Given(S, a)
    BY DEF Parsed
  <2>2. a = h /\ a.tail = None
    BY <1>2, <2>1
  <2>3. PICK w \in extract_arg(K, f) : TRUE
    BY <1>2, <2>1
  <2>4. a.at = 2 * k
    BY <2>2 DEF Arg
  <2>7. Arg(2 * k + 1, w, None) \in S
    BY <2>3, SetupArgs DEF Value
  <2>8. PICK b \in Following(S, a) : v = b.head
    BY <2>1, <2>2 DEF Given
  <2>9. b \in S /\ b.at > 2 * k /\ b.at <= 2 * k + 1
    BY <2>4, <2>7, <2>8 DEF Following, Arg
  <2>10. b.at = 2 * k + 1
    BY <1>2, <2>9
  <2> QED
    BY <1>2, <2>8, <2>9, <2>10
<1>4. ASSUME NEW v \in extract_arg(K, f)
      PROVE  v \in Parsed(S, f)
  <2> DEFINE b == Arg(2 * k + 1, v, None)
  <2>1. h \in S /\ b \in S
    BY <1>4, SetupArgs DEF Switch, Value
  <2>2. h.head = f /\ h.tail = None /\ h.at = 2 * k /\ b.at = 2 * k + 1 /\ b.head = v
    BY DEF Arg
  <2> HIDE DEF h, b, S
  <2>3. b \in Following(S, h)
    BY <1>2, <2>1, <2>2 DEF Following
  <2>4. v \in Given(S, h)
    BY <2>2, <2>3 DEF Given
  <2> QED
    BY <2>1, <2>2, <2>4 DEF Parsed
<1> QED
  BY <1>3, <1>4

LEMMA FlagsForwarded ==
    ASSUME NEW K, NEW k \in 1..2,
           \A m \in 1..6 : extract_arg(K, ForwardedValues[m]) \cap Flags = {}
    PROVE  IsSet(SetupLine(K), ForwardedFlags[k]) = has_flag(K, ForwardedFlags[k])
<1> DEFINE f == ForwardedFlags[k]
<1>1. f \in Flags /\ f # "--setup-firewall" /\ \A m \in 1..2 : ForwardedFlags[m] = f => m = k
  BY DEF ForwardedFlags, Flags, BareFlags
<1>2. \A m \in 1..6 : ForwardedValues[m] # f
  BY DEF ForwardedFlags, ForwardedValues
<1> HIDE DEF f
<1>3. ASSUME has_flag(K, f)
      PROVE  IsSet(SetupLine(K), f)
  <2> DEFINE a == Arg(13 + k, f, None)
  <2>1. a.head = f
    BY DEF Arg
  <2>2. a \in SetupLine(K)
    BY <1>3, SetupArgs DEF BareFlag, f
  <2> QED
    BY <2>1, <2>2 DEF IsSet
<1>4. ASSUME NEW a \in SetupLine(K), a.head = f
      PROVE  has_flag(K, f)
  <2>1. CASE a = Arg(0, "--setup-firewall", None)
    BY <1>1, <1>4, <2>1 DEF Arg
  <2>2. CASE Switch(K, a)
    BY <1>2, <1>4, <2>2 DEF Arg, Switch
  <2>3. CASE Value(K, a)
    BY <1>1, <1>4, <2>3 DEF Arg, Value
  <2>4. CASE BareFlag(K, a)
    BY <1>1, <1>4, <2>4 DEF Arg, BareFlag
  <2> QED
    BY <2>1, <2>2, <2>3, <2>4, SetupArgs
<1> QED
  BY <1>3, <1>4 DEF IsSet, has_flag, f

(* The set-up and the server of a unit that an installation writes make the same
   of their lines, wherever they find the same network; and if the set-up accepts
   its line, so does the server. *)
LEMMA UnitAgrees ==
    ASSUME NEW line \in CommandLines, Accepts(line), NEW net, NEW other
    PROVE  LET s == Config(generate_unit(line).setup)
               c == Config(generate_unit(line).start)
           IN  /\ \A f \in Written : from_config(s, net)[f] = from_config(c, other)[f]
               /\ \A f \in LookedUp : from_config(s, net)[f] = from_config(c, net)[f]
               /\ ~c.allow_quic =>
                      \A f \in Quic : from_config(s, net)[f] = from_config(c, other)[f]
               /\ Accepts(generate_unit(line).setup) => Accepts(generate_unit(line).start)
<1> DEFINE K == filter_service_args(line)
           S == SetupLine(K)
<1>0. WellFormed(line)
  BY LineAssumption DEF WellFormed
<1>1. generate_unit(line).setup = S /\ generate_unit(line).start = K
  BY DEF generate_unit
<1>2. \A k \in 1..6 : ForwardedValues[k] \in ValueFlags
  BY DEF ForwardedValues, ValueFlags
<1>3. \A k \in 1..6 : Parsed(S, ForwardedValues[k]) = Parsed(K, ForwardedValues[k])
  BY <1>0, <1>2, ExtractedAsParsed, ForwardedAsExtracted
<1>4. \A k \in 1..2 : ForwardedFlags[k] \in BareFlags
  BY DEF ForwardedFlags, BareFlags
<1>5. \A k \in 1..2 : IsSet(S, ForwardedFlags[k]) = IsSet(K, ForwardedFlags[k])
  BY <1>0, <1>2, <1>4, ExtractedAsParsed, FlagsForwarded
<1> HIDE DEF K, S
<1>6. \A f \in {"--interface", "--listen-addr", "--upstream-proxy", "--dns-listen", "--ports",
                "--fwmark"} : Parsed(S, f) = Parsed(K, f)
  <2>1. \A f \in {"--interface", "--listen-addr", "--upstream-proxy", "--dns-listen", "--ports",
                  "--fwmark"} : \E k \in 1..6 : f = ForwardedValues[k]
    BY DEF ForwardedValues
  <2> QED
    BY <1>3, <2>1
<1>7. \A f \in {"--local-traffic", "--dns"} : IsSet(S, f) = IsSet(K, f)
  <2>1. \A f \in {"--local-traffic", "--dns"} : \E k \in 1..2 : f = ForwardedFlags[k]
    BY DEF ForwardedFlags
  <2> QED
    BY <1>5, <2>1
<1>8. \A x \in {"listen_addr", "upstream_proxy", "interface", "ports", "fwmark", "dns_listen",
                "dns", "local_traffic"} : Config(S)[x] = Config(K)[x]
  BY <1>6, <1>7 DEF Config
<1>9. ASSUME Accepts(S)
      PROVE  Accepts(K)
  <2>1. PICK a \in S : a.head \in {"--upstream-proxy", "--uninstall", "--start", "--stop",
                                   "--teardown-firewall"}
    BY <1>9 DEF Accepts
  <2>2. \A k \in 1..6 : extract_arg(K, ForwardedValues[k]) \cap Flags = {}
    BY <1>0, <1>2, ExtractedAsParsed DEF K
  <2>3. CASE a = Arg(0, "--setup-firewall", None)
    BY <2>1, <2>3 DEF Arg
  <2>4. CASE Switch(K, a)
    <3>1. PICK k \in 1..6 : extract_arg(K, ForwardedValues[k]) # {} /\ a.head = ForwardedValues[k]
      BY <2>4 DEF Switch, Arg
    <3>2. ForwardedValues[k] = "--upstream-proxy"
      BY <2>1, <3>1 DEF ForwardedValues
    <3>3. IsSet(K, "--upstream-proxy")
      BY <3>1, <3>2 DEF extract_arg, IsSet
    <3> QED
      BY <1>0, <3>3, KeptAccepted DEF K
  <2>5. CASE Value(K, a)
    BY <2>1, <2>2, <2>5 DEF Value, Arg, Flags, ValueFlags, BareFlags
  <2>6. CASE BareFlag(K, a)
    BY <2>1, <2>6 DEF BareFlag, Arg, ForwardedFlags
  <2> QED
    BY <2>3, <2>4, <2>5, <2>6, SetupArgs DEF S
<1>10. \A f \in Written : from_config(Config(S), net)[f] = from_config(Config(K), other)[f]
  BY <1>8 DEF from_config, Written
<1>11. \A f \in LookedUp : from_config(Config(S), net)[f] = from_config(Config(K), net)[f]
  BY <1>8 DEF from_config, LookedUp, resolve_dns_listen
<1>12. ~IsSet(S, "--allow-quic")
  <2> SUFFICES ASSUME NEW a \in S, a.head = "--allow-quic" PROVE FALSE
    BY DEF IsSet
  <2>1. a # Arg(0, "--setup-firewall", None) /\ ~Switch(K, a) /\ ~BareFlag(K, a)
    BY DEF Arg, Switch, BareFlag, ForwardedValues, ForwardedFlags
  <2>2. \A k \in 1..6 : extract_arg(K, ForwardedValues[k]) \cap Flags = {}
    BY <1>0, <1>2, ExtractedAsParsed DEF K
  <2>3. ~Value(K, a)
    BY <2>2 DEF Value, Arg, Flags, BareFlags
  <2> QED
    BY <2>1, <2>3, SetupArgs DEF S
<1>13. ASSUME ~Config(K).allow_quic
       PROVE  \A f \in Quic : from_config(Config(S), net)[f] = from_config(Config(K), other)[f]
  <2>1. Config(S).allow_quic = FALSE /\ Config(K).allow_quic = FALSE
    BY <1>12, <1>13 DEF Config, IsSet
  <2> QED
    BY <1>8, <2>1 DEF from_config, Quic, proxy_udp_enabled
<1> QED
  BY <1>1, <1>9, <1>10, <1>11, <1>13

-----------------------------------------------------------------------------
(* The rules in force and the server that runs come from one unit: a start
   takes both command lines from what is loaded, and nothing else is loaded
   until the server runs, unless mixed says so. *)
OfOneUnit(u, a) == \E line \in CommandLines :
    Accepts(line) /\ u = generate_unit(line).setup /\ a = generate_unit(line).start

OneUnit ==
    /\ unit # None => OfOneUnit(unit.setup, unit.start)
    /\ loaded # None => OfOneUnit(loaded.setup, loaded.start)
    /\ svc = "pre" /\ ~mixed => loaded # None /\ setup = loaded.setup
    /\ svc = "running" /\ ~mixed => /\ rules = from_config(Config(setup), looked_up)
                                    /\ Accepts(setup) /\ OfOneUnit(setup, args)

LEMMA OneUnitStep == IInv /\ OneUnit /\ [Next]_vars => OneUnit'
<1> SUFFICES ASSUME IInv, OneUnit, [Next]_vars PROVE OneUnit'
  OBVIOUS
<1>1. CASE UNCHANGED <<unit, manager, args, rules, mixed>>
  BY <1>1 DEF OneUnit, manager
<1>2. CASE SetupSucceeds
  BY <1>2 DEF OneUnit, SetupSucceeds, Systemd, files, history
<1>3. CASE SetupFails \/ MainExits \/ Teardown
  BY <1>3 DEF OneUnit, SetupFails, MainExits, Teardown, Systemd, files, server, history, IInv, Backed
<1>4. CASE RestartTimer \/ Reboot
  BY <1>4 DEF OneUnit, RestartTimer, Reboot, BeginSetup, Systemd, files, server
<1>5. CASE WriteUnit
  <2>1. /\ command.args \in CommandLines /\ Accepts(command.args)
        /\ unit' = generate_unit(command.args)
        /\ UNCHANGED <<manager, args, rules, mixed>>
    BY <1>5 DEF WriteUnit, Step, IInv, InStep, InstallSteps, server, history
  <2>2. OfOneUnit(unit'.setup, unit'.start)
    BY <2>1 DEF OfOneUnit
  <2> QED
    BY <2>1, <2>2 DEF OneUnit, manager
<1>6. CASE Reload \/ Forget
  BY <1>6 DEF OneUnit, Reload, Forget, DaemonReload, Step, files, manager, server, history
<1>7. CASE StartJob
  BY <1>7 DEF OneUnit, StartJob, BeginSetup, Step, IInv, InStep, files, server
<1>8. CASE Stop \/ Disable
  BY <1>8 DEF OneUnit, Stop, Disable, StopJob, Step, manager, server, history
<1>9. CASE RemoveUnit
  BY <1>9 DEF OneUnit, RemoveUnit, Step, manager, server, history
<1> QED
  BY <1>1, <1>2, <1>3, <1>4, <1>5, <1>6, <1>7, <1>8, <1>9
  DEF Next, ProxyBinds, ServerFails, DnsBinds, DnsDies, DnsExitEndsServer, RelayBinds, RelayFails,
      NetworkChanges, Begin, StepFails, Copy, Chmod, Enable, Stopped, DisableFails, RemoveBinary,
      Step, vars, files, manager, server, history

(* The rules in force and the server that runs agree, on whatever lines clap
   accepts, in whatever form and order their flags are given, and however
   installs, starts, stops, restarts, reboots and changes of the network
   interleave, unless a new unit was read in mid-start: what the installer's own
   parser makes of the line, and what clap makes of the two lines that it wrote,
   is the same (filter_service_args, extract_arg, has_flag, generate_unit,
   install). *)
THEOREM RulesMeetServerAlways == Spec => []RulesMeetServer
<1>1. Init => OneUnit
  BY DEF Init, OneUnit
<1>2. IInv /\ OneUnit /\ [Next]_vars => OneUnit'
  BY OneUnitStep
<1>3. OneUnit => RulesMeetServer
  <2> SUFFICES ASSUME OneUnit, svc = "running", ~mixed
               PROVE  LET served == from_config(Config(args), found)
                      IN  /\ Accepts(args)
                          /\ \A f \in Written : rules[f] = served[f]
                          /\ found = looked_up => \A f \in LookedUp : rules[f] = served[f]
                          /\ ~Config(args).allow_quic => \A f \in Quic : rules[f] = served[f]
    BY DEF RulesMeetServer
  <2>1. PICK line \in CommandLines :
           Accepts(line) /\ setup = generate_unit(line).setup /\ args = generate_unit(line).start
    BY DEF OneUnit, OfOneUnit
  <2>2. rules = from_config(Config(setup), looked_up) /\ Accepts(setup)
    BY DEF OneUnit
  <2> QED
    BY <2>1, <2>2, UnitAgrees
<1> QED
  BY <1>1, <1>2, <1>3, IInvAlways, PTL DEF Spec
=============================================================================
