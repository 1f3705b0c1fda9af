-------------------------- MODULE PortalSessions ---------------------------
(***************************************************************************)
(* Who may talk to the portal: the auth service keeps sessions and the     *)
(* portal API keeps CSRF tokens, each in the memory of its process. The    *)
(* reverse proxy asks the auth service about every request; the portal     *)
(* asks its token store about every request that is not a read.            *)
(*                                                                         *)
(* A session that no browser has the cookie of, and a token that no page   *)
(* holds any more, are never presented again: the model forgets them. (The *)
(* auth service does not: a session leaves its map by a logout only.)      *)
(***************************************************************************)
EXTENDS Integers

CONSTANTS
  Users,
  Replicas,     \* the processes of the portal API
  TokenTTL,     \* ticks a CSRF token lives (24 h)
  MaxFaults,    \* bound: restarts and failed statements
  MaxTime       \* bound: the clock stops here

ASSUME SessionAssumption ==
  TokenTTL \in Nat \ {0} /\ MaxFaults \in Nat /\ MaxTime \in Nat \ {0}

VARIABLES
  now,
  sessions,  \* the users with a cookie of a session in the auth service's map
  tokens,    \* the token a user's page holds, as CSRFStore.tokens has it
  boots,     \* restarts of a replica
  faults

sessionVars == <<now, sessions, tokens, boots>>

Token   == [rep : Replicas, exp : Nat]
NoToken == [exp |-> 0]

SessionTypeOK ==
  /\ now \in 1..MaxTime /\ sessions \subseteq Users
  /\ tokens \in [Users -> Token \cup {NoToken}]
  /\ boots \in [Replicas -> 0..MaxFaults] /\ faults \in 0..MaxFaults

SessionInit ==
  /\ now = 1 /\ sessions = {}
  /\ tokens = [u \in Users |-> NoToken]
  /\ boots = [n \in Replicas |-> 0] /\ faults = 0

NoFault == UNCHANGED faults
Fault   == faults < MaxFaults /\ faults' = faults + 1

---------------------------------------------------------------------------
(***************************************************************************)
(* The auth service.                                                       *)
(***************************************************************************)
\* A login that succeeds, under a new session id.
handleLogin(u) ==
  /\ u \notin sessions /\ sessions' = sessions \cup {u}
  /\ NoFault /\ UNCHANGED <<now, tokens, boots>>

\* A logout, or the end of the cookie's day, of which the service is not told.
handleLogout(u) ==
  /\ u \in sessions /\ sessions' = sessions \ {u}
  /\ NoFault /\ UNCHANGED <<now, tokens, boots>>

handleAuth(u) == u \in sessions

RestartAuth == Fault /\ sessions' = {} /\ UNCHANGED <<now, tokens, boots>>

---------------------------------------------------------------------------
(***************************************************************************)
(* The token store of a replica of the portal API.                         *)
(***************************************************************************)
Generate(n, u) ==
  /\ handleAuth(u) /\ now + TokenTTL <= MaxTime
  /\ tokens' = [tokens EXCEPT ![u] = [rep |-> n, exp |-> now + TokenTTL]]
  /\ NoFault /\ UNCHANGED <<now, sessions, boots>>

Valid(n, u) == tokens[u] # NoToken /\ tokens[u].rep = n /\ now < tokens[u].exp

HeldBy(n)   == { u \in Users : tokens[u] # NoToken /\ tokens[u].rep = n }
Drop(users) == [u \in Users |-> IF u \in users THEN NoToken ELSE tokens[u]]

\* Mutant: Cleanup drops what expires at the next instant.
Cleanup_Early(n) ==
  /\ tokens' = Drop({ u \in HeldBy(n) : now + 1 >= tokens[u].exp })
  /\ NoFault /\ UNCHANGED <<now, sessions, boots>>

\* The hourly ticker.
Cleanup(n) ==
  /\ tokens' = Drop({ u \in HeldBy(n) : now > tokens[u].exp })
  /\ NoFault /\ UNCHANGED <<now, sessions, boots>>

\* A replica of the portal API starts again, with an empty store whatever
\* CSRF_SECRET says.
RestartStore(n) ==
  /\ Fault
  /\ boots' = [boots EXCEPT ![n] = @ + 1]
  /\ tokens' = Drop(HeldBy(n))
  /\ UNCHANGED <<now, sessions>>

Tick == now < MaxTime /\ now' = now + 1 /\ NoFault /\ UNCHANGED <<sessions, tokens, boots>>

SessionNext ==
  \/ \E u \in Users : \/ handleLogin(u) \/ handleLogout(u)
                      \/ \E n \in Replicas : Generate(n, u)
  \/ \E n \in Replicas : Cleanup(n)
  \/ RestartAuth \/ Tick

---------------------------------------------------------------------------
\* The token a page holds stays good at the replica that issued it until it
\* expires or that replica restarts: neither the hourly Cleanup, whose bound
\* is one instant off the bound of Valid, nor a logout and a new login, nor
\* the tokens and restarts of others take it away.
TokenLivesUntilExpiry ==
  [][\A u \in Users : LET t == tokens[u] IN
       t # NoToken /\ now' < t.exp => tokens'[u] # NoToken \/ boots'[t.rep] # boots[t.rep]
    ]_sessionVars

===========================================================================
