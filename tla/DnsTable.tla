------------------------------ MODULE DnsTable ------------------------------
(***************************************************************************)
(* The IP -> host name table of src/dns.rs as a component of its own: any  *)
(* DNS listener task may insert at any time, the proxy may look an address *)
(* up at any time, and time passes.  `latest` is an auxiliary variable:    *)
(* the last mapping anybody recorded for an address, never forgotten.      *)
(***************************************************************************)
EXTENDS DnsMaps

CONSTANTS Ips, Names,
          MaxTime   \* bound: last instant of the model's clock

VARIABLES table,    \* the HashMap<IpAddr, (String, Instant)>
          now,      \* Instant::now(), in seconds
          latest

vars == <<table, now, latest>>

Entry == [name : Names, expires : Nat]

TypeOK ==
    /\ IsMap(table, Ips, Entry)
    /\ now \in Nat
    /\ IsMap(latest, Ips, Entry)

Init == table = << >> /\ now = 0 /\ latest = << >>

Insert(ip, name, ttl) ==
    /\ table' \in TableInsert(table, ip, name, ttl, now)
    /\ latest' = Put(latest, ip, [name |-> name, expires |-> now + table_ttl(ttl)])
    /\ UNCHANGED now

Tick ==
    /\ now < MaxTime
    /\ now' = now + 1
    /\ UNCHANGED <<table, latest>>

-----------------------------------------------------------------------------
(* The table never outgrows its capacity, whatever is inserted and however
   little has expired when it is full (DnsTable::insert, dns.rs). *)
WithinCapacity == Cardinality(DOMAIN table) <= MAX_CACHE_ENTRIES

(* A lookup never answers with anything but the most recently recorded name
   of the address, and never after that recording has expired: neither the
   eviction nor the overwriting of entries brings an older mapping back. *)
LookupIsLatest ==
    \A ip \in Ips : \A name \in lookup(table, ip, now) :
        ip \in DOMAIN latest /\ latest[ip].name = name /\ latest[ip].expires > now

(* A mapping that has not expired is forgotten only to make room in a table
   that is full of unexpired mappings, and then at most half of them go. *)
EvictionIsLastResort ==
    [][LET lost == Live(table, now) \ DOMAIN table'
       IN  lost # {} => /\ Cardinality(Live(table, now)) = MAX_CACHE_ENTRIES
                        /\ 2 * Cardinality(lost) <= MAX_CACHE_ENTRIES]_vars
=============================================================================
