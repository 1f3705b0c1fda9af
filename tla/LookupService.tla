--------------------------- MODULE LookupService ---------------------------
(***************************************************************************)
(* The lookup service: a registry of banks behind a mutex and, in front of *)
(* it, a Redis cache that all replicas share. A miss reads the registry    *)
(* and fills the cache in two steps. What is known of one bank is its      *)
(* version: registry[v] is the moment at which version v was registered.   *)
(***************************************************************************)
EXTENDS Integers, Sequences

CONSTANTS CacheTTL   \* 5 min

VARIABLES registry, cache

NoEntry == [ver |-> 0, exp |-> 0]
Current == Len(registry)

LookupInit == registry = <<0>> /\ cache = NoEntry

\* Redis forgets a key when its TTL is over.
Cached(now) == cache # NoEntry /\ now < cache.exp

Register(now) == registry' = Append(registry, now) /\ UNCHANGED cache

Set(v, now) == cache' = [ver |-> v, exp |-> now + CacheTTL] /\ UNCHANGED registry

===========================================================================
