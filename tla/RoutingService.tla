--------------------------- MODULE RoutingService ---------------------------
(***************************************************************************)
(* The routing service: a list of routes behind a mutex. The first route   *)
(* for a source, a destination and a currency counts, and AddRoute         *)
(* replaces it or appends a new one.                                       *)
(***************************************************************************)
EXTENDS Integers, Sequences

CONSTANTS SeedRoutes

VARIABLES routes

RoutingInit == routes = SeedRoutes

Restart == routes' = SeedRoutes

Matches(key) == { i \in 1..Len(routes) : routes[i].key = key }
First(key)   == CHOOSE i \in Matches(key) : \A j \in Matches(key) : i <= j

HasRoute(key)    == Matches(key) # {}
LookupRoute(key) == routes[First(key)].fee

\* Mutant: a route is always appended, and the old one goes on counting.
AddRoute_Appends(key, fee) == routes' = Append(routes, [key |-> key, fee |-> fee])

AddRoute(key, fee) ==
  routes' = IF HasRoute(key) THEN [routes EXCEPT ![First(key)].fee = fee]
            ELSE Append(routes, [key |-> key, fee |-> fee])

===========================================================================
