------------------------------- MODULE Tunnel -------------------------------
(***************************************************************************)
(* src/tunnel.rs: opening a tunnel through the upstream proxy.  One task   *)
(* connects, performs an HTTP CONNECT or a SOCKS5 handshake (CONNECT for   *)
(* the TCP proxy, UDP ASSOCIATE for the UDP relay) and hands the stream    *)
(* on, together with the payload bytes it has read past the handshake.     *)
(*                                                                         *)
(* The upstream proxy's side of the stream is a script of bytes, fixed at  *)
(* the start of a behaviour: a handshake, right or wrong, followed by the  *)
(* payload of the tunnel.  TCP delivers it in pieces of any size, or stops *)
(* delivering.  SOCKS5 bytes are the real ones.  Of an HTTP response only  *)
(* the status code, other header bytes and the CRLFs are told apart.       *)
(***************************************************************************)
EXTENDS Integers, Sequences, SequencesExt, FiniteSetsExt

CONSTANTS
    Plans,               \* what may be configured and what the peers may do, see Plan
    MAX_RESPONSE_SIZE,   \* of an HTTP CONNECT response
    None

VARIABLES
    plan,       \* the element of Plans this behaviour is about; never changes
    pc,         \* where the task is
    arrived,    \* how much of the script has arrived
    read,       \* how much of it the task has read
    hostname,   \* Option<String> handed to connect_via_proxy
    req,        \* the request as sent to the upstream proxy, or None
    leftover,   \* payload read together with the handshake
    relay_addr  \* UDP ASSOCIATE: where to send datagrams, or None

tunnel == <<plan, pc, arrived, read, hostname, req, leftover, relay_addr>>

-----------------------------------------------------------------------------
(***************************************************************************)
(* A host name: its length with all its dots, the lengths that occur among *)
(* its labels (without the empty one after a final dot), and whether the   *)
(* labels consist of letters, digits, hyphens and underscores only.  The   *)
(* empty name has one empty label.                                         *)
(***************************************************************************)
Host == [len : Nat, labels : SUBSET Nat, clean : BOOLEAN]

IsSafeAnyLength(h) ==                       \* mutated: the whole name may be of any length
    h.labels # {0} /\ h.labels \subseteq 1..63 /\ h.clean

is_safe_proxy_hostname(h) ==
    /\ h.labels # {0}
    /\ h.len <= 253
    /\ h.labels \subseteq 1..63 /\ h.clean

(* usable_proxy_hostname and the choice of an address type: the safe name, or
   else the address of the destination. *)
Target(dest) ==
    IF hostname # None /\ is_safe_proxy_hostname(hostname)
    THEN [by |-> "name", host |-> hostname, port |-> dest.port]
    ELSE [by |-> "address", ip |-> dest.ip, port |-> dest.port]

(* The one-byte length field in front of a name in a SOCKS5 request, as u8. *)
LengthField(r) == r.host.len % 256

(* What may be asked of the upstream proxy. *)
Request == [by : {"name"}, host : Host, port : Nat]
           \cup [by : {"address"}, ip : STRING, port : Nat]
           \cup [by : {"associate"}]

-----------------------------------------------------------------------------
ScriptOf(p) == p.handshake \o p.payload
script == ScriptOf(plan)

(* The bytes that have arrived and not been read. *)
Unread == arrived - read

(* More bytes arrive. *)
UpstreamSends ==
    /\ pc \notin {"relay", "control", "closed"}
    /\ arrived < Len(script)
    /\ arrived' = arrived + 1
    /\ UNCHANGED <<plan, pc, read, hostname, req, leftover, relay_addr>>

(* An error or a time-out at any await, end of file included: the task gives
   up and drops its sockets. *)
Fail ==
    /\ pc' = "closed"
    /\ UNCHANGED <<plan, arrived, read, hostname, req, leftover, relay_addr>>

GoTo(l) ==
    /\ pc' = l
    /\ UNCHANGED <<plan, arrived, hostname, req, leftover, relay_addr>>

(* connect_proxy_stream, with the mark set before the SYN leaves when local
   traffic is intercepted as well.  UDP ASSOCIATE needs a SOCKS5 proxy. *)
Connect ==
    /\ pc = "connect"
    /\ \/ /\ plan.job = "udp" /\ plan.protocol = "http"
          /\ Fail
       \/ /\ ~(plan.job = "udp" /\ plan.protocol = "http")
          /\ GoTo(IF plan.protocol = "http" THEN "request" ELSE "greeting")
          /\ UNCHANGED read

(* The stages in which an error, a time-out or the end of the stream may end
   the attempt. *)
Waiting == pc \in {"connect", "request", "response", "greeting", "method", "auth",
                   "reply", "bound", "domain", "name"}

ConnectOrHandshakeFails == Waiting /\ Fail

-----------------------------------------------------------------------------
(***************************************************************************)
(* HTTP CONNECT.                                                           *)
(***************************************************************************)
CRLF2 == <<13, 10, 13, 10>>

(* find_header_end: the offsets just past a terminator; the first one counts. *)
HeaderEnds(data) == {p \in 4..Len(data) : SubSeq(data, p - 3, p) = CRLF2}

SendConnectRequest ==
    /\ pc = "request" /\ plan.protocol = "http"
    /\ req' = Target(plan.dest)
    /\ pc' = "response"
    /\ UNCHANGED <<plan, arrived, read, hostname, leftover, relay_addr>>

(* Mutated: the terminator is only looked for in the bytes of this read. *)
ReadResponseChunkwise ==
    /\ pc = "response" /\ Unread > 0 /\ read < MAX_RESPONSE_SIZE
    /\ read' = Min({arrived, MAX_RESPONSE_SIZE})
    /\ LET ends == {p \in HeaderEnds(SubSeq(script, 1, read')) : p - 3 > read}
       IN  \/ ends = {} /\ UNCHANGED <<pc, leftover>>
           \/ /\ ends # {}
              /\ IF script[1] = 200
                 THEN /\ leftover' = SubSeq(script, Min(ends) + 1, read')
                      /\ pc' = "leftover"
                 ELSE pc' = "closed" /\ UNCHANGED leftover
    /\ UNCHANGED <<plan, arrived, hostname, req, relay_addr>>

(* One pass of the loop in handshake_http_connect: whatever has arrived is
   read as far as the buffer has room; the whole buffer is searched, and what
   follows the header is kept. *)
ReadResponse ==
    /\ pc = "response" /\ Unread > 0 /\ read < MAX_RESPONSE_SIZE
    /\ read' = Min({arrived, MAX_RESPONSE_SIZE})
    /\ LET ends == HeaderEnds(SubSeq(script, 1, read'))
       IN  \/ ends = {} /\ UNCHANGED <<pc, leftover>>
           \/ /\ ends # {}
              /\ IF script[1] = 200
                 THEN /\ leftover' = SubSeq(script, Min(ends) + 1, read')
                      /\ pc' = "leftover"
                 ELSE pc' = "closed" /\ UNCHANGED leftover
    /\ UNCHANGED <<plan, arrived, hostname, req, relay_addr>>

-----------------------------------------------------------------------------
(***************************************************************************)
(* SOCKS5.  read_exact(n) succeeds once n bytes are there.                 *)
(***************************************************************************)
ReadExact(n) == Unread >= n /\ read' = read + n
Byte(i) == script[read + i]

SendGreeting == pc = "greeting" /\ GoTo("method") /\ UNCHANGED read

(* The method selection.  The sub-negotiation, for which the configured name
   and password must fit, starts with the request that goes out here. *)
ReadMethod ==
    /\ pc = "method" /\ ReadExact(2)
    /\ GoTo(IF Byte(1) # 5 THEN "closed"
            ELSE IF Byte(2) = 0 THEN "request"
            ELSE IF Byte(2) = 2 /\ plan.auth = "valid" THEN "auth"
            ELSE "closed")

ReadAuthUnchecked ==                        \* mutated: the status is not looked at
    /\ pc = "auth" /\ ReadExact(2)
    /\ GoTo("request")

(* Only the status is looked at, not the version. *)
ReadAuth ==
    /\ pc = "auth" /\ ReadExact(2)
    /\ GoTo(IF Byte(2) = 0 THEN "request" ELSE "closed")

(* socks5_connect, or the ASSOCIATE request for the wildcard source. *)
SendSocksRequest ==
    /\ pc = "request" /\ plan.protocol = "socks5"
    /\ req' = IF plan.job = "tcp" THEN Target(plan.dest) ELSE [by |-> "associate"]
    /\ pc' = "reply"
    /\ UNCHANGED <<plan, arrived, read, hostname, leftover, relay_addr>>

(* The four bytes of the reply header; the last is the type of the address. *)
ReadReply ==
    /\ pc = "reply" /\ ReadExact(4)
    /\ GoTo(IF Byte(1) = 5 /\ Byte(2) = 0 /\ Byte(4) \in {1, 3, 4}
            THEN IF Byte(4) = 3 THEN "domain" ELSE "bound"
            ELSE "closed")

(* The byte that was read last: the type of the address, or its length. *)
LastByte == script[read]

(* Ready for the payload: the TCP proxy goes on to relay, the UDP relay has
   its address, the upstream proxy's own one in place of a wildcard. *)
BoundIs(ip, port) ==
    /\ pc' = IF plan.job = "tcp" THEN "leftover" ELSE "control"
    /\ relay_addr' = IF plan.job = "tcp" THEN None
                     ELSE [ip |-> IF ip = "unspecified" THEN "proxy" ELSE ip, port |-> port]
    /\ UNCHANGED <<plan, arrived, hostname, req, leftover>>

AddressOf(bytes) == IF \A i \in DOMAIN bytes : bytes[i] = 0 THEN "unspecified" ELSE "bound"

BoundSize == IF LastByte = 1 THEN 4 ELSE 16

(* read_socks5_bound_addr: an IPv4 or IPv6 address and its port. *)
ReadBound ==
    /\ pc = "bound" /\ ReadExact(BoundSize + 2)
    /\ BoundIs(AddressOf(SubSeq(script, read + 1, read + BoundSize)), Byte(BoundSize + 2))

(* A domain: its length, then the name and the port; reported as a wildcard. *)
ReadDomainLength == pc = "domain" /\ ReadExact(1) /\ GoTo("name")

ReadDomain ==
    /\ pc = "name" /\ ReadExact(LastByte + 2)
    /\ BoundIs("unspecified", Byte(LastByte + 2))

(***************************************************************************)
(* A plan: who opens the tunnel and for which destination, the upstream    *)
(* proxy's protocol, the credentials configured for it ("none", "valid" or *)
(* "invalid", too long or empty), and the upstream proxy's script, with    *)
(* `grants` telling whether its handshake is one that opens a tunnel.  The *)
(* last four are the client's side, see module Connection.                 *)
(***************************************************************************)
Plan == [job : {"tcp", "udp"}, dest : [ip : STRING, port : Nat],
         protocol : {"http", "socks5"}, auth : {"none", "valid", "invalid"},
         handshake : Seq(Nat), payload : Seq(Nat), grants : BOOLEAN,
         hello : [bytes : Seq(Nat), host : Host \cup {None}],
         nat : BOOLEAN, sni : BOOLEAN]

(***************************************************************************)
(* What the protocols call consent, whoever reads it: the first n bytes of *)
(* the script are a successful HTTP header (that fits the buffer), or the  *)
(* choice of a method, of RFC 1929 with the credentials accepted, and a    *)
(* successful reply of RFC 1928 with an IPv4, domain or IPv6 address.      *)
(***************************************************************************)
HttpConsent(s, n) ==
    /\ n \in HeaderEnds(s) /\ \A e \in HeaderEnds(s) : n <= e
    /\ n <= MAX_RESPONSE_SIZE
    /\ s[1] = 200

MethodConsent(p, s, m) ==
    /\ s[1] = 5
    /\ \/ m = 2 /\ s[2] = 0
       \/ m = 4 /\ s[2] = 2 /\ p.auth = "valid" /\ s[4] = 0

AddressSize(s, m) ==
    CASE s[m + 4] = 1 -> 4 [] s[m + 4] = 3 -> 1 + s[m + 5] [] s[m + 4] = 4 -> 16

SocksConsent(p, s, n) ==
    \E m \in {2, 4} :
        /\ m + 5 <= n /\ MethodConsent(p, s, m)
        /\ s[m + 1] = 5 /\ s[m + 2] = 0 /\ s[m + 4] \in {1, 3, 4}
        /\ n = m + 4 + AddressSize(s, m) + 2

Consents(p, n) ==
    IF p.protocol = "http" THEN HttpConsent(ScriptOf(p), n) ELSE SocksConsent(p, ScriptOf(p), n)

ASSUME PlanAssumption ==
    /\ Plans \subseteq Plan
    /\ \A p \in Plans : IF p.grants THEN Consents(p, Len(p.handshake))
                        ELSE \A n \in 0..Len(ScriptOf(p)) : ~Consents(p, n)

ASSUME TunnelAssumption ==
    /\ MAX_RESPONSE_SIZE \in Nat
    /\ None \notin Host /\ None \notin Request

-----------------------------------------------------------------------------
(* What the task does by itself once it can. *)
Handshake ==
    \/ Connect
    \/ SendConnectRequest \/ ReadResponse
    \/ SendGreeting \/ ReadMethod \/ ReadAuth
    \/ SendSocksRequest \/ ReadReply \/ ReadBound
    \/ ReadDomainLength \/ ReadDomain
=============================================================================
