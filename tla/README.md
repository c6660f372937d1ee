# A verification project for trans_proxy

trans_proxy is a transparent proxy for a gateway: the firewall diverts the LAN's
TCP connections, QUIC and DNS to it, and it passes them on through an upstream
HTTP CONNECT or SOCKS5 proxy. It learns host names from the DNS answers it
forwards (and from TLS ClientHellos), so that the upstream proxy is asked for a
name rather than an address.

This directory holds TLA+ modules of its concurrent parts, its handshakes, its
firewall commands and its installed service, TLC configurations that check them
on small instances, and TLAPS proofs for instances of any size. Source lines are
those of `src/`; `PROJECT.json` maps every definition to the lines it models.

## 1. The system

| Component | State | Operations | Interacts with |
|---|---|---|---|
| IP -> name table (`dns.rs`, `DnsTable`) | map from address to name and expiry, bounded | `insert`, `lookup` | filled by every DNS forwarder task, read by the connection handler |
| UDP DNS forwarder (`dns.rs`, `run_udp`) | map of pending queries, next id, two sockets | main loop: receive, strip AAAA, register, forward; reader task: match, record, reply | clients, upstream server, table |
| DoH forwarder (`dns.rs`, `run_doh`) | response cache, map of requests in flight with a broadcast channel each | main loop, one task per query: leader fetches, follower waits | clients, HTTPS client, table |
| DNS TCP listener (`dns.rs`, `run_tcp`) | one task per client connection | accept; read length and query, strip, forward, record, answer, each read with a time-out | clients, upstream server, table |
| Accept loop and handler (`proxy.rs`) | one task per connection | accept with retry, find destination, peek SNI, look the name up, open tunnel, relay | table, tunnel, kernel |
| TCP relay (`proxy.rs`, `relay_with_shutdown`) | two buffers, EOF flags, grace timer | copy, half-close, time out | client, upstream |
| Tunnel handshakes (`tunnel.rs`) | none between calls | HTTP CONNECT, SOCKS5 CONNECT, UDP ASSOCIATE | upstream proxy |
| UDP relay (`udp.rs`) | map from flow to session channel, session tasks | dispatch, associate, forward, relay back, idle out, clean up | TPROXY socket, SOCKS5 upstream |
| Firewall, Linux (`firewall/nftables.rs`) | the kernel's tables, policy routing, forwarding | `setup`, `teardown` | `nft`, `ip`, `sysctl` |
| Firewall, macOS (`firewall/pf.rs`) | the anchor, the main ruleset, forwarding | `setup`, `teardown` | `pfctl`, `sysctl` |
| Supervision (`main.rs`) | the running tasks | start in order, end at the first failure or signal | everything |
| Service installation (`service/`) | binary, unit file or plist, service manager | install, uninstall, start, stop | systemd, launchd |
| Daemon (`daemon.rs`) | PID file, readiness pipe | fork, report readiness, write and remove PID file | shell |
| Gateway mode (`gateway.rs`) | timers | gratuitous ARP, router advertisements | LAN |
| Original destination (`orig_dest/`), SNI (`sni.rs`), options (`config.rs`) | none | system calls, peeking and parsing | handler |

What is hard: several tasks share the pending map, the cache, the coalescer, the
session map and the name table, each under a lock that is released between two
steps of one operation; UDP repeats, reorders, loses and invents packets; TCP
delivers a handshake or a ClientHello in pieces, together with what follows it,
or not at all; entries are evicted at capacity and expire by the clock; sessions
end while datagrams are on their way to them; the relay multiplexes two
directions and a timer in one task that blocks while it writes; the firewall
commands are a sequence of forty external commands without rollback; an installed
service goes through installs, failures, restarts and reboots in any order, with
its firewall rules in the kernel and its configuration twice on disk, where two
processes read it and look addresses up, each for itself.
`PROJECT.json` lists these as hazards with their lines and the properties that
would catch them.

What makes each part correct: the forwarders give every client the answer to its
own question, once, never anybody else's, and eventually; the table never gets a
name nobody asked for, is filled before the client knows the address, and stays
bounded; a question has one request in flight and no follower is forgotten; no
datagram is sent twice or by a dead session and idle sessions end; no payload
byte is lost between handshake and relay, and no tunnel is used without consent;
the TCP relay passes all bytes before an EOF and ends in time; no rule set,
complete or not, loops the proxy's traffic or locks the administrator out; rules
and server belong together and go together.

## 2. Modules

| Module | Models | State and actions |
|---|---|---|
| `QueryService` | what a DNS listener promises its clients (abstract) | `asked`, `answers`, `lost`; `Ask`, `Answer`, `GiveUp` |
| `DnsMaps` | insertion into the bounded maps, TTL clamping, lookup | operators only; shared by the DNS modules |
| `DnsTable` | `DnsTable` | `table`, `now`; `Insert`, `Tick`; a component of `DnsTcp` |
| `DnsUdp` | `run_udp` and the pending map, on a table that the TCP listener fills too (`OtherInserts`) | `main` and `reader` are the two tasks' local states; one action per stretch between two awaits or locks: `ReceiveQuery`, `StripQuery`, `PendingInsert`(`Fails`), `Forward`, `ReaderDrops`, `ReaderTakes`, `ReaderRecords`, `ReaderReplies` |
| `DnsDoh` | `run_doh`, `DnsCache`, `QueryCoalescer` | `tasks[q]` is the task of query q; `CacheHit/Miss`, `HitRecords`, `HitReplies`, `Join`, `JoinMisses`, `Register`, `FetchOk/Err`, `CachePut`, `Complete`, `Broadcast`, `RecvOk/Err`, `Record`, `SendReply` |
| `DnsTcp` | `run_tcp`, `handle_tcp_dns_client`, `forward_tcp_dns_query`, on a table that the UDP listener fills too | `pc[c]` is where the task of connection c is; `Accept(Fails)`, `ReadLength(Ends)`, `ReadBody(Fails)`, `StripQuery`, `ForwardAnswered/Fails`, `Record`, `Respond`, `WriteFails`, and the clients' `ClientSends...`, `ClientReads` |
| `UdpRelay` | `udp.rs`: session map, dispatch, `run_session` | `map`, sessions with phase, queue and idle timer; `Dispatch...`, `Associated`, `AssociateFails`, `ForwardDatagram`, `RelayDatagram`, `IdleTimeout`, `ChannelClosed`, `Cleanup` |
| `Tunnel` | `tunnel.rs`: HTTP CONNECT, SOCKS5 negotiation, CONNECT and UDP ASSOCIATE | `arrived` and `read` in the upstream proxy's script; one action per read or write of the handshake |
| `Connection` | accept loop, `handle_connection`, `get_original_dest` (Linux), `extract_sni`; extends `Tunnel` | `sent` of the client's hello, `attempts`; `Accept(Fails)`, `Retry`, `GetOriginalDest`, `PeekEnds`, `PeekAgain`, `SniTimeout`, `Lookup`, `DeliverLeftover` |
| `Relay` | `relay_with_shutdown`; begins where `Connection` ends | per direction: bytes sent, buffered, written, taken; `ReadData`, `WriteSome`, `ReadEof`, `GraceExpires`, `Fails` |
| `Firewall` | `nftables.rs` and what it uses of `firewall/mod.rs` and `config.rs` | the kernel's tables and routing, the program's remaining commands; `StartSetup`, `StartTeardown`, `StepOk`, `StepFails`, `Killed` |
| `Pf` | `pf.rs`; extends `Firewall`, whose program and packets it uses | `anchor`, `main`, `pf_conf`, `enabled`; `PfStepOk` |
| `Firewalls` | `firewall/mod.rs`: one of the two, by platform | the properties of both |
| `Service` | `service/linux.rs`, `service/mod.rs`, `main.rs` as the server of the unit, `config.rs` as far as the unit depends on it | files, systemd's state of the unit, server tasks, rules, the addresses the network has now and those that set-up and server found; one action per step of a command, of systemd and of the server |
| `DnsUdpProofs`, `DnsDohProofs`, `DnsTcpProofs`, `UdpRelayProofs`, `ConnectionProofs`, `RelayProofs`, `FirewallProofs`, `ServiceProofs` | theorems about `DnsUdp`, `DnsDoh`, `DnsTcp`, `UdpRelay`, `Connection`, `Relay`, `Firewalls`, `Service` | |
| `MC...` | instances for TLC | |

Where the abstraction lies:

* Names, addresses, ids and clients are values of small sets. A DNS packet is
  what the parsers return for it: id, name, type, addresses, least TTL, whether
  the question section can be walked. Case folding is a function `Lower`.
* A hash map is a function on a finite set; "evict an arbitrary half" is a
  nondeterministic choice of half of the live keys.
* Time is an integer clock that ticks; instants are compared as the code does. An
  insertion reads it once, for the expiry and for the sweep (the code reads it again
  under the lock). A time-out of a single read is an action that may happen at any
  time.
* An error of the forwarders' own `recv_from` (`dns.rs:864`, `980`) is not an action of
  `DnsUdp` and `DnsDoh`, since it ends the forwarder; what follows is `DnsDies` of
  `Service`.
* In `DnsUdp` the upstream server may send any response to any packet it
  received, any number of times and at any time (`AnswerTo`), and anybody may send
  the packets of `Forged`. `DnsDoh`'s HTTPS exchange is one step that succeeds
  with any of `Answers` or fails, and so is the upstream exchange of `DnsTcp`.
* In `Tunnel` the upstream proxy's stream is a fixed script of bytes, delivered
  in pieces of any size; SOCKS5 bytes are the real ones, of an HTTP response only
  the status, other bytes and the line ends are told apart. A ClientHello is its
  record header, its body's type and the position where the SNI is complete. A
  host name is its length, the set of its labels' lengths and whether all its
  characters are allowed. `Consents` says, as a grammar over the whole script and
  apart from the actions that read it, which prefixes of a stream consent to a
  request; a plan's `grants` states whether its script has one
  (`PlanAssumption`).
* In `Relay` only the number of bytes counts. The inner loop of `write_all` is an
  action per partial write, during which the task does nothing else, as in the
  code.
* In `Firewall` a command does its work completely or not at all. The set-up of
  IPv4 and IPv6 is the same sequence in the code, written twice; the model has it
  once, with the family as a parameter, and the map points to one copy or the
  other. `Decision` and `PfDecision` (external: netfilter, pf) evaluate the rules
  on a packet.
* In `Service` a set-up or a teardown is one step that succeeds, or fails with or
  without effect. systemd (external) is what the unit's directives make it do. A
  command line is a set of arguments, each at a place of its own, with a head and,
  in the form `--flag=value`, a tail. It is read by two parsers, which are modelled
  apart: the installer's helpers (`filter_service_args`, `extract_arg`, `has_flag`),
  which take the first occurrence of a flag they look for and know nothing of the
  others, and clap (`Accepts`, `Parsed`, `IsSet`; external), by which the firewall
  set-up and the server make a `Config` of their lines, or reject them. Each of the
  two processes then looks up the address of the interface (which there may not be)
  and that of the upstream in `network`, which may have changed (`NetworkChanges`);
  `looked_up` and `found` are what they saw.
* Variables named auxiliary (`lost`, `query`, `granted`, `age`, `old`,
  `resolved`, `adrift`, `mixed`...) record history for the properties; no guard
  that models code reads them. Where a task of `DnsTcp` is in its stream is
  `done[c]`, the number of times round its loop.

Refinement. `QueryService` says what any DNS listener promises, without ids,
maps, connections or servers: queries arrive; each is answered at most once, by
an answer to itself, or given up; what is settled stays so; over TCP answers
leave in the order of the queries. `DnsUdp`, `DnsDoh` and each connection of
`DnsTcp` are shown to implement it (`ImplementsService` in each, an
`INSTANCE QueryService WITH` the queries received, the replies sent and those
given up). All three are also proved.

## 3. Runs

| Run | Instance | Shows |
|---|---|---|
| `dns_udp` | 3 queries of 2 clients with equal ids and names that differ in case, 3 upstream ids, pending cap 2, lifetime 2, forged packets, AAAA stripping; an address from the TCP listener | every query is in exactly one place (`Accounted`), answered at most once by an answer to itself (`Solicited`, `ImplementsService`), given up only for cause, eventually settled; no packet plants a name in the table; when a reply leaves, its addresses are there |
| `dns_udp_root` | a query for the root name | expected violation, see section 6 |
| `dns_doh` | 3 queries, same question under different ids, one that cannot be echoed, AAAA stripping; TTLs 0 and 2, lifetime 2, clock to 2: entries age, expire and are fetched anew | the query service; nobody is told to believe an answer for longer than granted, or than `MIN_TTL` where less was granted; the cache never goes back, every client is answered, be it with SERVFAIL |
| `dns_tcp` | 2 connections, one with two pipelined queries; a third address from the UDP listener; table of 2 | the query service in order, per connection; table within its capacity, lookups give the latest mapping, true to some upstream answer; live entries go only when the table is full of them; every query, pipelined ones included, is settled unless a write waits for ever for a client that never reads again |
| `udp_relay` | 4 datagrams on 2 flows, one reply, every way a session can end, delayed cleanup | datagrams accounted for, no dead entry stays; with no more traffic all sessions end |
| `udp_relay_race` | the same | expected violation, see section 6 |
| `relay` | 4 bytes each way, a leftover of up to 2, buffers of two bytes | all bytes before EOF, half-close is no close, grace period is absolute; all is passed on and a half-closed tunnel ends, unless a write is blocked for good; nothing is assumed of the peers |
| `relay_forced` | the same, buffers of one byte towards the peers | expected violation, see section 6 |
| `connection` | 37 plans: HTTP and SOCKS5 upstreams that accept, refuse, break off, stay silent or send too much; hellos whole, cut, too long, not TLS or absent; both jobs, with and without a redirect | payload intact whatever the pieces, no tunnel without consent, only names that fit are sent, a split hello keeps its name, every connection is relayed or closed |
| `firewall` | both platforms; five configurations that use every option, two programs one after the other, one failing command, a stop at any point | in no intermediate state loops, lock-outs or DNS sent to the proxy; success means the policy is in force for every packet; teardown removes everything |
| `service` | four command lines, with flags in both forms, values that must go with their flag, one that clap rejects and one whose unit's server it rejects; 3 commands, 2 failures, a reboot, a change of the network | rules never outlive the service, agree with the server, uninstall leaves nothing, a dead DNS forwarder is replaced or its redirect goes |
| `service_quic` | an install with `--allow-quic` | expected violation, see section 6 |

Bounds. Each is a constant that only guards an input (`MaxQueries`, `MaxTime`,
`MaxDatagrams`, `MaxBytes`, `MaxRuns`, `MaxFailures`, `MaxCommands`,
`MaxReboots`, `MaxChanges`). Three UDP queries suffice for the known races: one that holds an
id, one that reuses it or evicts it, and one that triggers the sweep; capacities
are below the number of queries so that eviction happens. Two clients under the
same transaction id make a mix-up visible. The clock goes just past the
lifetimes. In `dns_tcp` three addresses meet a table of two, an answer has two
addresses, so that two tasks' insertions interleave, and one response fills a
client's window. In `connection`, `MAX_RESPONSE_SIZE` is 8, `MAX_CLIENT_HELLO` 6
and `MAX_PEEK_ATTEMPTS` 3: headers of exactly that size and too large, a hello
that is longer, and pieces that outlast the peeks. Two firewall programs suffice for "a set-up over what another
left"; every prefix of the commands is reached by `Killed`. Three service commands
are two installs, with different options, and what comes between or after
them; two failures let a restart fail too. Deadlock is not checked where the
model may stop because its inputs are used up.

Fairness. Tasks run on a tokio runtime that polls every ready task: weak fairness
of each task's steps. A read of the relay competes with other branches of one
`select!`, whose order is random: strong fairness for each ready branch. Timers
fire: weak fairness of `Tick` and of the time-outs. The DoH request has a client
time-out, so that it ends. In `dns_udp` the server answers every registered query
it is asked (`HonestAnswer`, strong fairness since the entry may come and go);
without that nothing needs to be settled. In `dns_tcp` and `connection` nothing
is assumed of clients and upstream: all waits but the writes of `dns_tcp` have a
time-out. A failing accept of the proxy is retried, and a connection in the
backlog is accepted if accept is tried again and again (strong fairness). In
`relay` nothing is assumed of the peers: the liveness properties name the one
exception, a write that is blocked for good (`Stuck`), as `EventuallySettled` of
`DnsTcp` does (`WriteBlocked`); section 6 says what the code promises instead. In `service` systemd does what the unit says and the server's tasks
run; no command is ever typed and no failure ever happens by fairness.

Every property has a mutant: a plausible bug in a definition the property
depends on (marked "mutated" in the module, and used by no specification), under
which TLC finds the property violated.

## 4. Proofs

The bounds of the runs (`MaxQueries`, `MaxTime`, `MaxDatagrams`, `MaxBytes`,
`MaxCommands`, `MaxFailures`...) are any naturals in the theorems, and so are
capacities, lifetimes and buffer sizes; sets of clients, names, ids, forged
packets, flows and command lines are arbitrary.

**UDP forwarder** (`DnsUdpProofs`):

* `TypeCorrect`: `TypeOK` is inductive by itself. The lemmas before it say that
  removals, insertions and evictions keep a map's type (`RestrictIsMap`,
  `PutIsMap`, `MakeRoomRestricts`, `TableInsertIsMap`).
* `AccountedAlways`: each query is held by the main loop, pending, held by the
  reader, answered or lost, exactly one of these, and answered at most once.
  `Accounted` is inductive relative to `TypeOK`: it includes that no two pending
  entries are of the same query, without which a removal could leave a copy.
* `FaithfulAlways`: what main loop, pending map and reader hold are copies of the
  datagram they were made from, and the reader's packet repeats its question.
  No run checks `Faithful`: it is the strengthening that the next ones need, since
  at the moment of the reply only the entry is at hand, not the datagram.
* `SolicitedAlways`: every reply goes to the client that asked, under its id, with
  its question.
* `TableSolicitedAlways`: every name in the table was asked for by a client.
* `ImplementsServiceAlways`: `Spec => ImplementsService`. Initial states map to initial states;
  with `TypeOK`, `Accounted` (now and after the step) and `Faithful`, each step
  is one of `QueryService` or a stutter (`ServiceStep`). Receiving is `Ask`;
  stripping is a query that arrives and is answered or given up at once;
  registering may give up expired and evicted queries (`LosingIsAStep`, because
  what is pending is open); the reader's reply is `Answer` (`ReplyIsAnAnswer`);
  all others stutter.
* `GivenUpForCauseAlways`, an action property: besides `Accounted` (a lost query
  belongs to one entry only) it needs `Aged`: the map is finite, so that the sizes
  it compares exist, and the entry that the main loop is about to insert is no
  older than any pending one, although its time was taken before the lock.
* `MappedBeforeReplyAlways`, an action property, for a finite set of addresses, as
  all addresses of a fixed length are: the step that sends a reply finds its
  addresses in the table. `Mapped` says of every address of the response that it is
  still to be recorded or is in the table, under the response's name or one that the
  TCP listener has for it; insertions take nothing away, because the table is never
  full. The proof is about what a step does to `replies`, whichever step that is.

**DoH forwarder** (`DnsDohProofs`). Nearly every step changes one task, so
`TaskAdvances` first sorts the changes of a task into a few kinds (`Advances`), and
the invariants are shown kind by kind. Their conjunction is inductive:

* `Placed`: a query is with the main loop, with its task or settled, one of these.
* `Keyed`: wherever a response is kept (task, cache, broadcast channel), it answers
  the question it is kept for. With `Placed` it gives `ImplementsServiceAlways`: a
  response that was fetched for one client and is shared with another goes out as
  an answer to the other's own question, under its id.
* `Exclusive`: one leader per key, and what the cache holds for a key is older than
  what its present leader fetches. It gives `CacheMovesForwardAlways`, an action
  property.
* `HonestTtl`: wherever a response is kept, age and TTL together never exceed what it
  may be believed for: what the server granted, or `MIN_TTL` if that is more. For a
  cached one this rests on its lifetime, which ends before the floor of 1 could
  prolong it. Hence `TruthfulTtlAlways`, for answers of every TTL.

**TCP listener** (`DnsTcpProofs`). `InOrder` relates, for each connection, where
its task is to what is settled: everything before the current query and nothing
after. `ImplementsServiceAlways` follows, for any number of connections at once:
a step of one is a stutter for the others. `Capped` says that the table is finite,
within its capacity and holds what was inserted last; it is inductive through
`DnsTable`'s insertion and gives `WithinCapacityAlways`, `LookupIsLatestAlways`
and the action property `EvictionIsLastResortAlways`. `Truthful` adds to
`TableTruthful` that what a task still has to record is borne out by its answer.

**UDP relay** (`UdpRelayProofs`): `NoDeadEntriesAlways` and `AccountedAlways`.
`NoDeadEntries` is inductive with the types. `Accounted` counts in how many places
a datagram is, which says nothing about a datagram that is in one queue twice;
`Placed` says instead that the queues, what was forwarded and what is lost are
disjoint, that none holds anything twice, and that nothing is missing. With it the
datagram that is forwarded leaves its queue (`ForwardStep`), a session that ends
loses its own queue only (`ExitStep`), and what arrives was nowhere before
(`ArrivalStep`); `PlacedCounts` turns places into numbers.

**Connection and tunnel** (`ConnectionProofs`), for any script of the upstream
proxy, any ClientHello, any name and any cut into pieces. `Place` says for every
stage of the handshake how much has been read and what these bytes say
(`MethodConsent`, `ReplyConsent`), or that no end of an HTTP header is among them;
`Granted` that nothing is delivered before consent, and that afterwards what was
delivered, what is left over and what is unread make up the payload.

* `OnlyWithConsentAlways` and `StreamIntactAlways`: a handshake that succeeds has
  read a prefix that consents (`HttpConsent`, `SocksConsent`); such a prefix is
  unique (`ConsentIsUnique`), therefore it is the plan's handshake
  (`ConsentIsGranted`), no byte less, which would pass handshake on as payload, and
  none more, which would swallow payload. For HTTP the end of the header must be
  found in the first piece that contains it (`HeaderEndsOfPrefix`).
* `NameFitsAlways`: whatever a hello or the table brings up.
* `SplitHelloKeepsNameAlways`, with `Named`: a name that was parsed from a whole
  record is the name of the whole hello, and it is not looked for again.

**TCP relay** (`RelayProofs`): `CleanEndAlways`, `HalfCloseIsNotCloseAlways`,
`GraceIsAbsoluteAlways`. `InOrder` has per direction the chain taken <= written <=
read <= sent, with written = read whenever the relay is not inside that direction's
`write_all`, and that an EOF not forced by the timer was seen after the last byte
sent. `Timed` relates the timer to the time since the first EOF: re-entering the
select never re-arms it.

**Firewalls** (`FirewallProofs`), for any configurations, port lists of any length,
any number of programs and failures: all five properties. The invariant,
`FirewallInv`, is about the commands that remain and the rules that are there:

* `Lines`: of the rules `Full` that a chain is to have, the first m are in the
  kernel, the remaining commands add those from m + 1 to n (`Emits`), and nothing
  else. Commands come in the order of `Phase`, so that a chain is empty as long as
  something before it is missing: a failure may skip what follows but never makes a
  gap (`StepFailsBuilding`). Hence every chain of a new table is a prefix of the
  complete one at all times, and n is its full length unless set-up has failed or
  says that it skips IPv6, but for TPROXY rules whose drop rules then come instead
  (`Whole`). A table that could not be deleted is in `old`, and its chains may hold
  anything, but an output chain begins with the return for marked packets even
  there (`MarkedFirst`).
* `Hit` and `Miss` say what a chain decides, by its first rule that matches. Their
  lemmas on concatenation and prefixes give the meaning of each complete chain
  (`OutputHits`, `PreroutingHits`, `QuicHits`), of a prefix, which decides alike or
  not at all (`AtMost`), and of a chain that is complete (`AtLeast`). `NoLoop`,
  `DnsNotProxied` and `GatewayReachable` follow from the former, in any state;
  `PolicyInForce` (`LinuxPolicy`) from both.
* On macOS an anchor is loaded as a whole. A set-up that has not failed has loaded
  it, and made the main ruleset refer to it, or is still to do so (`Loading`);
  `TranslationHits` says what its rules do with a packet (`MacosPolicy`).
* `Demolishing`: whatever there is, be it left by whichever program, a teardown of
  which nothing has failed still has the command that removes it to come.
  `Renewing` says the same of a set-up and old tables.

**Installed service** (`ServiceProofs`): `RulesGoneWhenDownAlways`,
`UninstallIsCompleteAlways` and `RulesMeetServerAlways`. Rules are removed by a command of the unit, so the
theorem rests on unit and binary being on disk whenever the service is not down
(`Backed`). `InStep` says what each step of a command may rely on: unit and
binary are removed only once the service is down, and a unit is written only
where there is a binary. `RulesMeetServerAlways` has two halves. `UnitAgrees` is about
the two lines that are made of one, for any line that clap accepts: what it finds on the
set-up's is what it finds on the server's, and if it accepts the former it accepts the
latter. The argument goes from
the line typed to what the filter keeps of it (`KeptTogether`: a flag and its value go
or stay together), from there to what `extract_arg` returns (`ExtractedAsParsed`: on a
line that clap accepts the first occurrence is the only one, and the value is clap's),
and on to the line that is written of it, argument by argument (`SetupArgs`,
`ForwardedAsExtracted`, `FlagsForwarded`). Since a line is a set of arguments, no
induction is needed. The other half (`OneUnit`) is that files, manager, server and rules
never come apart but by the reload that `mixed` records.

Assumptions, all evaluated by TLC in the runs: those on the DNS modules'
constants (`UdpAssumption`, `TcpAssumption`, `DohAssumption` and those of
`DnsMaps`), `RelayAssumption`, `TunnelAssumption`, `ConnectionAssumption`,
`FirewallAssumption`, `ConfigsAssumption`, `NoConfigAssumption` and `LineAssumption` (sets and naturals
of the right kind; the distinguished values differ from the others; no port is 0; a
capacity of at least 2; the arguments of a line have different places, and no value
that is given as `--flag=value` is itself a flag); `PlanAssumption` (a plan says rightly whether its
handshake consents); `UnitAssumption` (an accepted command line yields a unit).

Only model-checked: all liveness, since the prover does not
handle fairness and ENABLED. No module uses RECURSIVE operators. Every module states a `TypeOK`; only that of `DnsUdp` is among
the properties of a run; those of the other modules with theorems are proved, but
for `Service`'s, which like them says what the variables are.

## 5. Not modelled

* Byte-level parsing (DNS names and compression, TLS extensions, HTTP heads,
  port lists and addresses): the parsers' results are inputs. So is the framing
  of a SOCKS5 UDP datagram, a pure function of one datagram.
* `daemon.rs`: the double fork and its readiness pipe are a straight sequence of
  system calls. `gateway.rs`: timers that send prepared packets; nothing is
  received and no state is shared.
* The launchd service (`service/macos.rs`): see the observation below; the macOS
  ioctl of `orig_dest`.
* That a TPROXY rule diverts packets presumes that the UDP relay's listener is
  bound, and its routing; `Firewall` takes it for granted.
* `Connection` is one connection: connections share nothing but the table (see
  `DnsTcp`) and the accept loop.

## 6. What the checks found

* `dns_udp_root`: a query for the root name has no parsable name; it is forwarded,
  but the reader skips responses without a name, so the client never gets the
  answer (`dns.rs:802`).
* `relay_forced`: `write_all` is awaited inside the `select!` branch (`proxy.rs:246`,
  `262`), so the grace timer is not polled while a peer does not read, and a half-closed
  tunnel whose peer never reads again is not "forcibly closed" (`proxy.rs:42`, `209`).
  `HalfClosedEnds` is what does hold.
* `udp_relay_race`: a session that has ended removes its flow's entry whichever
  session it belongs to (`udp.rs:137`); when dispatch has replaced the entry in
  between, the new session loses its entry and the next datagram opens a second
  session for the flow.
* `service_quic`: the unit passes a list of flags on to the firewall set-up in
  which `--allow-quic` is missing (`service/linux.rs:184`); the installed service
  still blocks or diverts QUIC. `RulesMeetServer` shows that it is the only setting
  for which set-up and server disagree on their lines.

Observations without a run of their own:

* A comment (`dns.rs:191`) says that TTLs are decremented "so clients don't
  over-cache"; an answer granted less than `MIN_TTL` is kept for `MIN_TTL`
  (`dns.rs:201`) and said to be good for at least another second (`dns.rs:311`), however
  old it is. `TruthfulTtl` is what does hold: `MIN_TTL` bounds it, because the entry has
  expired by then.
* Without `--dns-listen`, each process of the unit looks up the address of the interface
  (`config.rs:402`), or takes 0.0.0.0 if there is none yet. When that changes between
  the set-up and the start of the server, the rules send DNS to an address where the
  forwarder does not listen, or nowhere, until the next restart (against `main.rs:216`).
  The upstream's address (`config.rs:172`) may differ likewise; then the exception for it
  among the local-traffic rules is for another host. `RulesMeetServer` states the
  exception (`found = looked_up`), and `NetworkChanges` makes it happen in the run.
* The loop check compares the destination with the listening address as configured
  (`orig_dest/linux.rs:107`, promised in `proxy.rs:5`); with the default wildcard no
  destination equals it, so that a redirected connection to the proxy's own address
  and port goes to the upstream proxy. The run `connection` has a specific address.
* A DNS TCP client that does not read holds its task for ever (`dns.rs:637`).
* A value that begins with a hyphen is accepted by clap only in the form
  `--flag=value`; the unit passes it on to the set-up as two arguments
  (`service/linux.rs:180`), which clap rejects, so that the service does not start.
  The model does not tell such values apart; `LineAssumption` leaves out those that
  are themselves flags.
* An accept error of the DNS TCP listener ends the whole forwarder, and with it
  the process (`dns.rs:526`), where the proxy's accept loop retries.
* A pending query older than `PENDING_QUERY_TTL` is still answered as long as no
  other insertion has swept it (`dns.rs:732`, against the comment at line 46).
* nftables: the drop rules for the gateway's own QUIC match the LAN interface
  (`nftables.rs:857`), its TCP redirects any; with `--ports` the prerouting chain
  has no exception for the gateway's own addresses; set-up without UDP relaying
  leaves an earlier one's policy routing in place (no packet is marked then);
  forwarding is on before the rules are there and until after they are gone.
* pf: the exceptions for this host (`pf.rs:112`) are for the interface's first
  address of each family and for packets from the LAN; with `--local-traffic` the
  redirects on lo0 take connections of the host to itself, and those from the
  LAN to another of its addresses are redirected too. `PfPolicy` and
  `GatewayReachable` leave these cases open. A failure to enable pf is ignored.
* The launchd wrapper script sets a trap for its teardown and then replaces
  itself by `exec` (`macos.rs:245`), after which the trap is gone.
* Installing over a running service fails, because the program that runs cannot
  be overwritten; a failing `disable` is ignored by uninstall; if systemd reloads
  a new unit between set-up and start, rules and server may differ (`mixed`).
* The daemon reports readiness before any listener is bound; a second `--daemon`
  instance overwrites, and at its end removes, the PID file of the first.
* The repository's README says that there is no SOCKS5 UDP path, which `udp.rs`
  implements.

## 7. Plan

Done: the table, three DNS listeners and their abstract service, UDP relay, TCP
relay, tunnel and connection, both firewalls, the Linux service.

Proofs, too, of every safety and action property that a passing run checks.

Left: the launchd service, whose life cycle could share `Service`'s properties; values
of options that begin with a hyphen.
