----------------------------- MODULE Connection -----------------------------
(***************************************************************************)
(* A redirected TCP connection from the accept loop to the start of the    *)
(* relay: run and handle_connection of src/proxy.rs, get_original_dest of  *)
(* src/orig_dest/linux.rs and extract_sni of src/sni.rs, on top of the     *)
(* upstream handshake of module Tunnel.  What follows is module Relay.     *)
(*                                                                         *)
(* The client's side is a script too: the record header and the body of a  *)
(* TLS ClientHello, or something else, followed by whatever it sends next. *)
(* It arrives in pieces of any size or stops arriving.  A plan whose job   *)
(* is "udp" has no client connection: the UDP relay opens a tunnel.        *)
(***************************************************************************)
EXTENDS Tunnel

CONSTANTS
    ListenAddr,          \* --listen-addr
    MAX_CLIENT_HELLO, MAX_PEEK_ATTEMPTS,
    TableHosts           \* names that the IP -> name table may return

ASSUME ConnectionAssumption ==
    /\ MAX_CLIENT_HELLO \in Nat /\ MAX_PEEK_ATTEMPTS \in Nat
    /\ TableHosts \subseteq Host

VARIABLES
    listener,   \* "accepting", or "backoff" after a failed accept
    sent,       \* how much of the client's script has arrived
    ended,      \* the client has closed its side
    attempts,   \* peeks that came too early
    sni,        \* how the SNI stage ended, see SniEnds
    client_got  \* what was written to the client

client == <<sent, ended, attempts, sni, client_got>>
vars == <<tunnel, listener, client>>

-----------------------------------------------------------------------------
(***************************************************************************)
(* The client's bytes.  A record header is the type (22 for a handshake)   *)
(* and the length of the record's body; the body of a ClientHello starts   *)
(* with 1, and the SNI extension, naming plan.hello.host, is the byte 99.  *)
(***************************************************************************)
HEADER == 2

(* parse_sni_from_client_hello on the first n bytes: Some(name) or None.
   Nothing past the record's end is looked at. *)
parse_sni_from_client_hello(n) ==
    LET bytes == plan.hello.bytes
        end == Min({n, HEADER + bytes[2]})
    IN  IF n > HEADER /\ bytes[1] = 22 /\ bytes[3] = 1 /\ \E i \in 4..end : bytes[i] = 99
        THEN plan.hello.host
        ELSE None

-----------------------------------------------------------------------------
Init ==
    /\ plan \in Plans
    /\ pc = IF plan.job = "tcp" THEN "backlog" ELSE "connect"
    /\ arrived = 0 /\ read = 0
    /\ hostname = None /\ req = None /\ leftover = << >> /\ relay_addr = None
    /\ listener = "accepting"
    /\ sent = 0 /\ ended = FALSE /\ attempts = 0
    /\ sni = "none" /\ client_got = << >>

ClientSends ==
    /\ plan.job = "tcp" /\ pc \notin {"relay", "closed"}
    /\ ~ended /\ sent < Len(plan.hello.bytes)
    /\ sent' = sent + 1
    /\ UNCHANGED <<tunnel, listener, ended, attempts, sni, client_got>>

ClientCloses ==
    /\ plan.job = "tcp" /\ pc \notin {"relay", "closed"} /\ ~ended
    /\ ended' = TRUE
    /\ UNCHANGED <<tunnel, listener, sent, attempts, sni, client_got>>

(***************************************************************************)
(* The accept loop.                                                        *)
(***************************************************************************)
AcceptFails ==
    /\ listener = "accepting"
    /\ listener' = "backoff"
    /\ UNCHANGED <<tunnel, client>>

NoRetry ==                                  \* mutated: the loop ends on an error
    /\ listener = "backoff" /\ pc = "closed"
    /\ listener' = "accepting"
    /\ UNCHANGED <<tunnel, client>>

(* ACCEPT_RETRY_DELAY has passed. *)
Retry ==
    /\ listener = "backoff"
    /\ listener' = "accepting"
    /\ UNCHANGED <<tunnel, client>>

Accept ==
    /\ listener = "accepting" /\ pc = "backlog"
    /\ pc' = "dest"
    /\ UNCHANGED <<plan, arrived, read, hostname, req, leftover, relay_addr, listener, client>>

(***************************************************************************)
(* The original destination.  The socket option is chosen by the family of *)
(* the local address, an IPv4-mapped one counting as IPv4, which is that   *)
(* of the packets; the kernel then knows the destination if it has         *)
(* redirected them (external).                                             *)
(***************************************************************************)
original_dest == IF plan.nat THEN plan.dest ELSE None

GetOriginalDest ==
    /\ pc = "dest"
    /\ pc' = IF original_dest = None \/ original_dest = ListenAddr THEN "closed"
             ELSE IF plan.sni /\ original_dest.port = 443 THEN "sni" ELSE "lookup"
    /\ UNCHANGED <<plan, arrived, read, hostname, req, leftover, relay_addr, listener, client>>

(***************************************************************************)
(* SNI.  Peeking reads nothing.                                            *)
(***************************************************************************)
SniEnds(how, name) ==
    /\ sni' = how
    /\ hostname' = name
    /\ pc' = IF name = None THEN "lookup" ELSE "connect"
    /\ UNCHANGED <<plan, arrived, read, req, leftover, relay_addr, listener,
                   sent, ended, attempts, client_got>>

Needed == Min({HEADER + plan.hello.bytes[2], MAX_CLIENT_HELLO})

(* Mutated: what one peek shows is taken for the whole record. *)
PeekOnce ==
    /\ pc = "sni" /\ sent > 0
    /\ SniEnds("parsed", parse_sni_from_client_hello(Min({sent, MAX_CLIENT_HELLO})))

(* Nothing to wait for: the client has gone, this is not TLS, the record is
   complete or as long as will be looked at, or enough peeks were made. *)
PeekEnds ==
    /\ pc = "sni"
    /\ \/ /\ sent = 0 /\ ended
          /\ SniEnds("eof", None)
       \/ /\ sent > 0 /\ plan.hello.bytes[1] # 22
          /\ SniEnds("not TLS", None)
       \/ /\ sent > 0 /\ plan.hello.bytes[1] = 22
          /\ sent >= HEADER /\ sent >= Needed
          /\ SniEnds("parsed", parse_sni_from_client_hello(Min({sent, MAX_CLIENT_HELLO})))
       \/ /\ sent > 0 /\ plan.hello.bytes[1] = 22
          /\ (sent < HEADER \/ sent < Needed) /\ attempts + 1 >= MAX_PEEK_ATTEMPTS
          /\ SniEnds("budget", parse_sni_from_client_hello(sent))

(* Part of a record: sleep PEEK_RETRY_INTERVAL and peek again. *)
PeekAgain ==
    /\ pc = "sni" /\ sent > 0 /\ plan.hello.bytes[1] = 22
    /\ sent < HEADER \/ sent < Needed
    /\ attempts + 1 < MAX_PEEK_ATTEMPTS
    /\ attempts' = attempts + 1
    /\ UNCHANGED <<tunnel, listener, sent, ended, sni, client_got>>

(* SNI_TIMEOUT, or an error of peek. *)
SniTimeout == pc = "sni" /\ SniEnds("timeout", None)

(***************************************************************************)
(* The IP -> name table as fallback; see DnsTable for what it returns.     *)
(***************************************************************************)
Lookup ==
    /\ pc = "lookup"
    /\ \E h \in TableHosts \cup {None} : hostname' = h
    /\ pc' = "connect"
    /\ UNCHANGED <<plan, arrived, read, req, leftover, relay_addr, listener, client>>

(***************************************************************************)
(* The tunnel is open: what came with the handshake goes to the client     *)
(* first.                                                                  *)
(***************************************************************************)
DeliverLeftover ==
    /\ pc = "leftover"
    /\ client_got' = leftover
    /\ leftover' = << >>
    /\ pc' = "relay"
    /\ UNCHANGED <<plan, arrived, read, hostname, req, relay_addr,
                   listener, sent, ended, attempts, sni>>

(* The client has reset the connection. *)
DeliverFails == pc = "leftover" /\ leftover # << >> /\ Fail /\ UNCHANGED <<listener, client>>

-----------------------------------------------------------------------------
Tunnelling == Handshake /\ UNCHANGED <<listener, client>>

HandshakeTimeout == ConnectOrHandshakeFails /\ UNCHANGED <<listener, client>>

Next ==
    \/ ClientSends \/ ClientCloses
    \/ UpstreamSends /\ UNCHANGED <<listener, client>>
    \/ AcceptFails \/ Retry \/ Accept
    \/ GetOriginalDest
    \/ PeekEnds \/ PeekAgain \/ SniTimeout
    \/ Lookup
    \/ Tunnelling \/ HandshakeTimeout
    \/ DeliverLeftover \/ DeliverFails

(***************************************************************************)
(* The tasks keep being polled and every wait on a peer is bounded by a    *)
(* timeout: 3 s for the ClientHello, 10 s for each step of the handshake.  *)
(* A failing accept is retried, and what makes it fail does not last: a    *)
(* connection in the backlog is accepted if accept is tried again and      *)
(* again.  Nothing is assumed about the client or the upstream proxy.      *)
(***************************************************************************)
Fairness ==
    /\ WF_vars(Retry) /\ SF_vars(Accept)
    /\ WF_vars(GetOriginalDest) /\ WF_vars(Lookup)
    /\ WF_vars(SniTimeout)
    /\ WF_vars(HandshakeTimeout)
    /\ WF_vars(DeliverLeftover)

Spec == Init /\ [][Next]_vars /\ Fairness

-----------------------------------------------------------------------------
Stages == {"backlog", "dest", "sni", "lookup", "connect", "request", "response", "greeting",
           "method", "auth", "reply", "bound", "domain", "name", "leftover", "relay",
           "control", "closed"}

TypeOK ==
    /\ plan \in Plans
    /\ pc \in Stages
    /\ arrived \in 0..Len(script) /\ read \in 0..arrived
    /\ hostname \in TableHosts \cup {plan.hello.host, None}
    /\ req \in Request \cup {None}
    /\ relay_addr \in [ip : {"bound", "proxy"}, port : Nat] \cup {None}
    /\ leftover \in Seq(Nat) /\ client_got \in Seq(Nat)
    /\ listener \in {"accepting", "backoff"}
    /\ sent \in 0..Len(plan.hello.bytes) /\ ended \in BOOLEAN
    /\ attempts \in 0..MAX_PEEK_ATTEMPTS
    /\ sni \in {"none", "eof", "not TLS", "parsed", "budget", "timeout"}

Established == pc \in {"leftover", "relay", "control"}

(* "bytes the upstream sends immediately after the header terminator [...] are
   returned to the caller so none of the payload is lost; the SOCKS5 handshake
   uses exact-size reads and never over-reads" (tunnel.rs): however TCP cuts
   the upstream proxy's stream into pieces, the payload is whole and in order
   when the relay takes over, part of it already written to the client and
   the rest still in the socket; and the end of an HTTP header is seen as soon
   as it is in the buffer, also when it straddles two reads. *)
StreamIntact ==
    /\ Established =>
          client_got \o leftover \o SubSeq(script, read + 1, Len(script)) = plan.payload
    /\ pc = "response" => HeaderEnds(SubSeq(script, 1, read)) = {}

(* A tunnel is used only after a request was sent and the upstream proxy
   accepted it and the credentials; an association comes with an address that
   datagrams can be sent to (handshake_http_connect, socks5_negotiate_auth,
   socks5_connect, udp_associate). *)
OnlyWithConsent ==
    Established => /\ plan.grants /\ req # None
                   /\ plan.job = "udp" => pc = "control" /\ relay_addr.ip # "unspecified"

(* A request names the host only by a name that fits the request: the one-byte
   length of a SOCKS5 name is its length, and nothing in it can end the line
   of an HTTP request; whatever the ClientHello or the DNS table brought up
   otherwise, the address is used (usable_proxy_hostname). *)
NameFits ==
    req # None /\ req.by = "name" => LengthField(req) = req.host.len /\ req.host.clean

(* A ClientHello that arrives in pieces names the same host as one that
   arrives at once, as long as it is complete before the peeks run out: the
   length of the record is waited for, not just its first segment
   (extract_sni). *)
SplitHelloKeepsName ==
    LET whole == parse_sni_from_client_hello(Min({Len(plan.hello.bytes), MAX_CLIENT_HELLO}))
    IN  sni = "parsed" /\ whole # None => hostname = whole

(* Every connection is eventually relayed or closed, and every UDP ASSOCIATE
   ends, with a client that never speaks, an upstream proxy that never
   answers and accepts that fail (run, handle_connection, connect_via_proxy). *)
EventuallySettled == <>(pc \in {"relay", "control", "closed"})
=============================================================================
