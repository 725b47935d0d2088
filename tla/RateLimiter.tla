----------------------------- MODULE RateLimiter -----------------------------
(***************************************************************************)
(* rate_limit_check of backend/storage/redis_client.py: a counter in Redis *)
(* for each identifier, incremented and given a new time to live in one    *)
(* transaction by every call, the refused ones included.                   *)
(***************************************************************************)
EXTENDS Integers

CONSTANTS
  Users,      \* the identifiers that are limited
  Limit,      \* how many calls are allowed
  Window,     \* the time to live of a counter, 60 s
  MaxTime     \* where a behaviour ends

ASSUME LimiterAssumption ==
  Limit \in Nat \ {0} /\ Window \in Nat \ {0} /\ MaxTime \in Nat

VARIABLES
  now,        \* the time
  hits,       \* the counter of each user, as last written
  expires     \* when Redis drops it

limiterVars == <<now, hits, expires>>

LimiterInit ==
  /\ now = 0
  /\ hits = [u \in Users |-> 0]
  /\ expires = [u \in Users |-> 0]

Tick ==
  /\ now < MaxTime
  /\ now' = now + 1
  /\ UNCHANGED <<hits, expires>>

\* INCR: a counter that is gone starts again.
Gone(u) == now >= expires[u]
Incremented(u) == IF Gone(u) THEN 1 ELSE hits[u] + 1

\* EXPIRE
OnlyWhenCreated(u) == IF Gone(u) THEN now + Window ELSE expires[u] \* faulty variants
NotSet(u) == MaxTime + Window
Expiry(u) == now + Window

Count(u) ==
  /\ hits' = [hits EXCEPT ![u] = Incremented(u)]
  /\ expires' = [expires EXCEPT ![u] = Expiry(u)]
  /\ UNCHANGED now

Allowed(u) == Incremented(u) <= Limit
=============================================================================
