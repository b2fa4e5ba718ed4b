------------------------------ MODULE Throttle ------------------------------
(***************************************************************************)
(* The counters of sign-in and registration attempts: login-throttle.ts    *)
(* over the sliding-window logs of rate-limit.ts.                          *)
(*                                                                         *)
(* They are in Redis, and in the process while Redis does not answer; a    *)
(* command whose answer is lost may have been carried out.  An attempt     *)
(* takes its counters one by one, before the password is looked at, and a  *)
(* sign-in with the right password clears its account's.                   *)
(***************************************************************************)
EXTENDS Integers, FiniteSets

CONSTANTS
  Calls,      \* calls of the login and register routes, about one account
  From,       \* addresses of callers
  Nowhere,    \* an address that is unknown
  Mixes,      \* what the calls are
  Period,     \* time an attempt counts
  Limit,      \* attempts per account and address
  AddressLimit,  \* sign-ins per address
  RegisterLimit, \* registrations per address
  LastTick, MaxOutages  \* bounds of the clock and of Redis' outages

Ticks == 0 .. LastTick
Stores == {"redis", "memory"}
Layers == {"address", "account", "register"}
Addresses == From \cup {Nowhere}
Counters == Layers \X Addresses
Asked == [kind : {"login", "register"}, from : Addresses, right : BOOLEAN]

ASSUME ThrottleAssumption ==
  /\ Mixes \subseteq [Calls -> Asked]
  /\ {Period, Limit, AddressLimit, RegisterLimit} \subseteq Nat \ {0}
  /\ LastTick \in Nat /\ MaxOutages \in Nat
  /\ Nowhere \notin From /\ IsFiniteSet(Calls)

VARIABLES
  at, call,    \* where each call is, what it is
  clock,       \* the time
  hits,        \* attempts each store's counters remember, with their times
  up, outages, \* whether Redis answers, and how often it has stopped
  tried        \* attempts admitted at each counter since it was last cleared

throttleVars == <<at, call, clock, hits, up, outages, tried>>

ThrottleInit ==
  /\ at = [r \in Calls |-> "idle"]
  /\ call \in Mixes
  /\ clock = 0
  /\ hits = [s \in Stores |-> [c \in Counters |-> {}]]
  /\ up = TRUE /\ outages = 0
  /\ tried = [c \in Counters |-> {}]

----------------------------------------------------------------------------
MoveTo(r, label) == at' = [at EXCEPT ![r] = label]
InPeriod(attempts) == {a \in attempts : a[2] > clock - Period}

Bound(layer) == CASE layer = "account" -> Limit
                  [] layer = "address" -> AddressLimit
                  [] layer = "register" -> RegisterLimit
NeverExpires(layer, attempts) == Cardinality(attempts) < Bound(layer)  \* mutant
OffByOne(layer, attempts) == Cardinality(InPeriod(attempts)) <= Bound(layer)  \* mutant: one too many
Admits(layer, attempts) == Cardinality(InPeriod(attempts)) < Bound(layer)

\* A refused attempt is not recorded.
Consumed(r, layer, attempts) ==
  InPeriod(attempts) \cup (IF Admits(layer, attempts) THEN {<<r, clock>>} ELSE {})

\* The store whose answer counts, and those that may carry out a command.
Answers == IF up THEN "redis" ELSE "memory"
Reached == IF up THEN {{"redis"}} ELSE {{"memory"}, Stores}

\* Layers per address are skipped when the address is unknown.
Layer(r) ==
  CASE call[r].kind = "register" -> "register"
    [] call[r].kind = "login" /\ at[r] = "idle" /\ call[r].from # Nowhere -> "address"
    [] OTHER -> "account"
Counter(r, layer) == <<layer, call[r].from>>

Consume(r) ==
  LET layer == Layer(r)
      c == Counter(r, layer)
      admitted == Admits(layer, hits[Answers][c]) IN
  /\ at[r] \in {"idle", "counted"}
  /\ call[r].kind = "register" => call[r].from # Nowhere
  /\ \E stores \in Reached : hits' =
       [s \in Stores |-> IF s \in stores THEN [hits[s] EXCEPT ![c] = Consumed(r, layer, @)]
                         ELSE hits[s]]
  /\ tried' = IF admitted THEN [tried EXCEPT ![c] = @ \cup {<<r, clock>>}] ELSE tried
  /\ MoveTo(r, CASE ~admitted -> "refused"
               [] admitted /\ layer = "address" -> "counted"
               [] admitted /\ layer # "address" -> "admitted")
  /\ UNCHANGED <<call, clock, up, outages>>

Skip(r) ==
  /\ at[r] = "idle" /\ call[r].kind = "register" /\ call[r].from = Nowhere
  /\ MoveTo(r, "admitted")
  /\ UNCHANGED <<call, clock, hits, up, outages, tried>>

\* The password is verified, or the workspace registered.
Verify(r) ==
  /\ at[r] = "admitted"
  /\ MoveTo(r, IF call[r].kind = "login" /\ call[r].right THEN "right" ELSE "done")
  /\ UNCHANGED <<call, clock, hits, up, outages, tried>>

Account(r) == Counter(r, "account")
Cleared(r, stores) ==
  [s \in Stores |-> IF s \in stores THEN [hits[s] EXCEPT ![Account(r)] = {}] ELSE hits[s]]

\* attempt.succeeded(): the process's counter is cleared, then Redis'.
ClearMemory(r) ==
  /\ at[r] = "right" /\ MoveTo(r, "clearing")
  /\ hits' = Cleared(r, {"memory"})
  /\ tried' = [tried EXCEPT ![Account(r)] = {}]
  /\ UNCHANGED <<call, clock, up, outages>>
ClearRedis(r) ==
  /\ at[r] = "clearing" /\ MoveTo(r, "done")
  /\ \E stores \in {{"redis"}} \cup (IF up THEN {} ELSE {{}}) : hits' = Cleared(r, stores)
  /\ tried' = [tried EXCEPT ![Account(r)] = {}]
  /\ UNCHANGED <<call, clock, up, outages>>

----------------------------------------------------------------------------
ClockTick ==
  /\ clock < LastTick /\ clock' = clock + 1
  /\ UNCHANGED <<at, call, hits, up, outages, tried>>
Outage ==
  /\ up /\ outages < MaxOutages /\ up' = FALSE /\ outages' = outages + 1
  /\ UNCHANGED <<at, call, clock, hits, tried>>
Recovery ==
  /\ ~up /\ up' = TRUE
  /\ UNCHANGED <<at, call, clock, hits, outages, tried>>

Act(r) == Consume(r) \/ Skip(r) \/ Verify(r) \/ ClearMemory(r) \/ ClearRedis(r)
ThrottleNext == (\E r \in Calls : Act(r)) \/ ClockTick \/ Outage \/ Recovery
ThrottleSpec == ThrottleInit /\ [][ThrottleNext]_throttleVars

----------------------------------------------------------------------------
Attempts == SUBSET (Calls \X Ticks)
ThrottleTypeOK ==
  /\ at \in [Calls -> {"idle", "counted", "admitted", "right", "clearing", "done", "refused"}]
  /\ call \in Mixes
  /\ clock \in Ticks /\ up \in BOOLEAN /\ outages \in 0 .. MaxOutages
  /\ hits \in [Stores -> [Counters -> Attempts]]
  /\ tried \in [Counters -> Attempts]
  \* No counter remembers more attempts than it admits.
  /\ \A s \in Stores, c \in Counters : Cardinality(hits[s][c]) <= Bound(c[1])

\* Decision SEC-009: however attempts run in parallel, no more than its bound pass a
\* counter within a window, or twice as many if Redis fails and the process goes on
\* counting.  Sign-ins clear the counter of their account, and no other.
AttemptsBounded == \A c \in Counters :
  Cardinality(InPeriod(tried[c])) <= Bound(c[1]) * (IF outages = 0 THEN 1 ELSE 2)

\* A refusal is earned: while Redis has answered every time, the counter that refuses
\* has admitted as many attempts as it may in the window that ends now, none of them
\* before a sign-in that cleared it.  Hammering a locked counter does not prolong the lock.
Clearing(c) == \E q \in Calls : at[q] = "clearing" /\ Account(q) = c
RefusedOnlyAtTheLimit ==
  [][\A r \in Calls : at'[r] = "refused" /\ at[r] # "refused" /\ outages = 0 =>
       LET c == Counter(r, Layer(r)) IN
       Clearing(c) \/ Cardinality(InPeriod(tried[c])) >= Bound(c[1])]_throttleVars
=============================================================================
