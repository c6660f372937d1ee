------------------------------ MODULE DnsMaps ------------------------------
(***************************************************************************)
(* The two bounded, expiring maps of src/dns.rs and the lifetimes of their *)
(* entries: DnsTable (IP address -> host name, read by the proxy) and      *)
(* DnsCache (query -> DoH response).  Both are HashMaps behind a RwLock,   *)
(* so one insertion is atomic; both make room in the same way when they    *)
(* hold MAX_CACHE_ENTRIES entries.                                         *)
(*                                                                         *)
(* A map is a function whose domain is the set of its keys; an entry is a  *)
(* record with a field `expires`.  The keys that a full map drops are the  *)
(* first ones in HashMap iteration order, which is arbitrary: insertion is *)
(* therefore a set of possible results.                                    *)
(***************************************************************************)
EXTENDS Integers, FiniteSets, FiniteSetsExt, Functions

CONSTANTS MAX_CACHE_ENTRIES,  \* capacity of either map
          MIN_TTL, MAX_TTL,   \* bounds of a cached response's lifetime
          TABLE_TTL_FLOOR,
          TABLE_TTL_CEIL,     \* bounds of a table entry's lifetime
          NoTtl               \* extract_min_ttl returned None

(***************************************************************************)
(* With a capacity below 2, half the capacity is nothing and a full map    *)
(* would grow; the constants of dns.rs are far above.                      *)
(***************************************************************************)
ASSUME CapacityAssumption == MAX_CACHE_ENTRIES \in Nat /\ MAX_CACHE_ENTRIES >= 2

ASSUME TtlAssumption ==
    /\ MIN_TTL \in Nat \ {0} /\ MAX_TTL \in Nat /\ MIN_TTL <= MAX_TTL
    /\ TABLE_TTL_FLOOR \in Nat \ {0} /\ TABLE_TTL_CEIL \in Nat
    /\ TABLE_TTL_FLOOR <= TABLE_TTL_CEIL
    /\ NoTtl \notin Nat

-----------------------------------------------------------------------------
Clamp(x, lo, hi) == IF x < lo THEN lo ELSE IF x > hi THEN hi ELSE x

(* Lifetime of the table entries a response gives rise to. *)
table_ttl(ttl) ==
    IF ttl = NoTtl THEN TABLE_TTL_FLOOR
                   ELSE Clamp(ttl, TABLE_TTL_FLOOR, TABLE_TTL_CEIL)

(* Lifetime of a response in the DoH cache. *)
cache_ttl(ttl) ==
    IF ttl = NoTtl THEN MIN_TTL ELSE Clamp(ttl, MIN_TTL, MAX_TTL)

-----------------------------------------------------------------------------
(* A finite map from some of the keys K to values in V. *)
IsMap(map, K, V) == DOMAIN map \subseteq K /\ map \in [DOMAIN map -> V]

Live(map, now) == {k \in DOMAIN map : map[k].expires > now}

(* Mutated: a map full of live entries is left alone. *)
MakeRoomOnlyExpired(map, now) ==
    IF Cardinality(DOMAIN map) < MAX_CACHE_ENTRIES THEN {map}
    ELSE {Restrict(map, Live(map, now))}

(* Mutated: half the entries go without a look at what has expired. *)
MakeRoomAtOnce(map, now) ==
    IF Cardinality(DOMAIN map) < MAX_CACHE_ENTRIES THEN {map}
    ELSE {Restrict(map, DOMAIN map \ drop) :
            drop \in kSubset(MAX_CACHE_ENTRIES \div 2, DOMAIN map)}

(***************************************************************************)
(* What a map may look like once room has been made in it: untouched below *)
(* the capacity; without its expired entries if that frees a place;        *)
(* otherwise without half the capacity's worth of arbitrary live entries.  *)
(***************************************************************************)
MakeRoom(map, now) ==
    IF Cardinality(DOMAIN map) < MAX_CACHE_ENTRIES THEN {map}
    ELSE IF Cardinality(Live(map, now)) < MAX_CACHE_ENTRIES
         THEN {Restrict(map, Live(map, now))}
         ELSE {Restrict(map, Live(map, now) \ drop) :
                 drop \in kSubset(MAX_CACHE_ENTRIES \div 2, Live(map, now))}

(* HashMap::insert: add the key or overwrite its entry. *)
Put(map, k, v) == [x \in DOMAIN map \cup {k} |-> IF x = k THEN v ELSE map[x]]

(* The possible results of inserting entry v under key k.  The clock is read before
   the lock is taken, for the expiry, and again under it, for the sweep; the model
   takes both readings at once. *)
BoundedInsert(map, k, v, now) == {Put(m, k, v) : m \in MakeRoom(map, now)}

(* Mutated: a lookup that does not check the expiry. *)
LookupExpired(map, ip, now) ==
    IF ip \in DOMAIN map THEN {map[ip].name} ELSE {}

(***************************************************************************)
(* DnsTable::insert and DnsTable::lookup (None is the empty set, Some(n)   *)
(* the singleton {n}).                                                     *)
(***************************************************************************)
TableInsert(map, ip, name, ttl, now) ==
    BoundedInsert(map, ip, [name |-> name, expires |-> now + table_ttl(ttl)], now)

lookup(map, ip, now) ==
    IF ip \in DOMAIN map /\ map[ip].expires > now THEN {map[ip].name} ELSE {}
=============================================================================
