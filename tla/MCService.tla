----------------------------- MODULE MCService -----------------------------
EXTENDS Service

(* A line as it is typed: each argument a sequence of its one or two parts. *)
Typed(words) ==
    {Arg(i, words[i][1], IF Len(words[i]) = 2 THEN words[i][2] ELSE None) : i \in DOMAIN words}

(* A DNS forwarder, its own mark, a PID file that must go with its value; an
   HTTP upstream with both forms of flags and a DNS listener of its own; a line
   without an upstream, which clap takes for its --start; and one it rejects. *)
MCCommandLines ==
    { Typed(<< <<"--install">>, <<"--upstream-proxy", "socks5">>, <<"--pid-file">>, <<"p">>,
               <<"--dns">>, <<"--local-traffic">>, <<"--fwmark">>, <<"7">> >>),
      Typed(<< <<"--listen-addr", "9443">>, <<"-d">>, <<"--dns-listen">>, <<"5353">>,
               <<"--upstream-proxy">>, <<"http">>, <<"--log-file", "l">>, <<"--ports", "443">>,
               <<"--allow-quic">>, <<"--install">> >>),
      Typed(<< <<"--start">>, <<"--install">>, <<"--dns">> >>),
      Typed(<< <<"--install">>, <<"--upstream-proxy", "http">>, <<"--fwmark", "2">>,
               <<"--fwmark">>, <<"3">> >>) }

MCQuicCommandLines ==
    { Typed(<< <<"--install">>, <<"--upstream-proxy">>, <<"socks5">>, <<"--allow-quic">> >>) }

(* Before a lease, and after it. *)
MCNetworks == {[address |-> None, upstream |-> "u1"], [address |-> "a1", upstream |-> "u2"]}
=============================================================================
