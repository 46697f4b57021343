------------------------------- MODULE RateLimiter -------------------------------
(***************************************************************************)
(* The fixed-window limiter of http/rate-limiter.ts, which the auth and    *)
(* the admin routes ask before anything else: InMemoryRateLimiter.check as *)
(* functions of the table, the caller's key and the time.                  *)
(*                                                                         *)
(* The table is a Map: its entries by key, each with its place nr in the   *)
(* order of insertion, which is the order a Map is walked in.  Time counts *)
(* in ticks, Second of them to a second, since Retry-After is rounded up.  *)
(***************************************************************************)
EXTENDS Naturals, FiniteSets

CONSTANTS
  Attempts,    \* attemptsPerWindow
  Window,      \* windowMs
  MaxEntries,
  Second

ASSUME LimiterAssumption == {Attempts, Window, MaxEntries, Second} \subseteq Nat \ {0}

(* evictExpired.                                                           *)
Live(table, now) == [key \in {k \in DOMAIN table : now < table[k].resetAt} |-> table[key]]

(* evictOldest takes the first of the entries that expire first.           *)
Oldest(table) ==
  CHOOSE key \in DOMAIN table :
    \A other \in DOMAIN table :
      \/ table[key].resetAt < table[other].resetAt
      \/ table[key].resetAt = table[other].resetAt /\ table[key].nr <= table[other].nr

(* The keys whose counts have to give way to a new one.                    *)
GivingWay(table) == IF Cardinality(DOMAIN table) >= MaxEntries THEN {Oldest(table)} ELSE {}

Displaced(table, key, now) ==
  LET live == Live(table, now) IN IF key \in DOMAIN live THEN {} ELSE GivingWay(live)

(* Faulty variant of Insert: it makes no room.                             *)
InsertUnbounded(table, key, entry) ==
  [k \in DOMAIN table \cup {key} |-> IF k = key THEN entry ELSE table[k]]

Insert(table, key, entry) ==
  [k \in (DOMAIN table \ GivingWay(table)) \cup {key} |-> IF k = key THEN entry ELSE table[k]]

(* Faulty variant of UsedUp: one attempt too many.                         *)
UsedUpLate(entry) == entry.attempts > Attempts

UsedUp(entry) == entry.attempts >= Attempts

Refuses(table, key, now) ==
  LET live == Live(table, now) IN key \in DOMAIN live /\ UsedUp(live[key])

(* The table after one attempt, the nr-th to be made.                      *)
Counted(table, key, now, nr) ==
  LET live == Live(table, now) IN
  IF key \notin DOMAIN live
    THEN Insert(live, key, [attempts |-> 1, resetAt |-> now + Window, nr |-> nr])
  ELSE IF UsedUp(live[key]) THEN live ELSE [live EXCEPT ![key].attempts = @ + 1]

(* Faulty variant of RetryAfter: rounded down.                             *)
RetryAfterFloor(entry, now) == (entry.resetAt - now) \div Second

RetryAfter(entry, now) == (entry.resetAt - now + Second - 1) \div Second
=================================================================================
