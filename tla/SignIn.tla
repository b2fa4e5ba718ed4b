------------------------------- MODULE SignIn -------------------------------
(***************************************************************************)
(* One account's password and sessions: the login, logout and password     *)
(* routes, session.ts, guard.ts, use-cases/password.ts and                 *)
(* resetOperatorPassword.                                                  *)
(*                                                                         *)
(* A password and a session are known by the request that made them.  A    *)
(* request runs statement by statement, each on a connection of the pool   *)
(* unless it is inside a transaction, and may be delayed between any two.  *)
(* A login has been let through by the counters of Throttle.  Active       *)
(* tenants and the audit trail are left out, except for the failed         *)
(* password changes, which are counted there.                              *)
(***************************************************************************)
EXTENDS Integers, FiniteSets

CONSTANTS
  Requests,    \* API calls and operator commands
  Old,         \* the password at the start, and a session that is signed in with it
  None,        \* no request
  Plans,       \* what the requests ask for
  Idle, Absolute,               \* life of a session unused, and in all
  Window, MaxFailures,          \* failed password changes that lock, in a window
  PoolSize,    \* connections
  MaxTime      \* bound of the clock

Passwords == Requests \cup {Old}
Sessions == Requests \cup {Old}
Times == 0 .. MaxTime
Kinds == {"login", "change", "reset", "call", "logout"}
Jobs == [kind : Kinds, session : Sessions, typed : Passwords]

ASSUME SignInAssumption ==
  /\ Plans \subseteq [Requests -> Jobs]
  /\ Old \notin Requests /\ None \notin Requests /\ IsFiniteSet(Requests)
  /\ {Idle, Absolute, Window, MaxFailures, PoolSize} \subseteq Nat \ {0}
  /\ MaxTime \in Nat

VARIABLES
  pc, job,     \* where each request is, what it asks for
  now,         \* the clock
  password,    \* control.users.password_hash
  oneTime,     \* control.users.must_change_password
  userLock,    \* holder of the account's row
  signedIn,    \* sessions that have a row
  born, seen,  \* its created_at and last_seen_at
  readAt,      \* when each request read its session
  failures,    \* audited failures to change the password
  used,        \* when each session was last accepted
  present      \* sessions each change or reset saw when it revoked them

session == <<signedIn, born, seen, readAt, used>>
account == <<password, oneTime, userLock, failures, present>>
vars == <<pc, job, now, session, account>>

Init ==
  /\ pc = [r \in Requests |-> "idle"]
  /\ job \in Plans
  /\ now = 0
  /\ password = Old /\ oneTime = FALSE /\ userLock = None
  /\ signedIn = {Old}
  /\ born = [s \in Sessions |-> 0] /\ seen = born /\ used = born
  /\ readAt = [r \in Requests |-> 0]
  /\ failures = {}
  /\ present = [r \in Passwords |-> {}]

----------------------------------------------------------------------------
Kind(r) == job[r].kind
Live(attempts) == {a \in attempts : a[2] > now - Window}
Goto(r, label) == pc' = [pc EXCEPT ![r] = label]

\* Changes of the password hold a connection; resets are on one of their own.
Connected == {r \in Requests : Kind(r) = "change" /\ pc[r] \in {"waiting", "updated", "revoked"}}
Connection == Cardinality(Connected) < PoolSize

----------------------------------------------------------------------------
(* The login route *)

\* The user is read and the password verified against what was read.
VerifyLogin(r) ==
  /\ Kind(r) = "login" /\ pc[r] = "idle" /\ Connection
  /\ Goto(r, IF job[r].typed = password THEN "verified" ELSE "refused")
  /\ UNCHANGED <<job, now, session, account>>

CreateSession(r) ==
  /\ pc[r] = "verified" /\ Connection /\ Goto(r, "done")
  /\ signedIn' = signedIn \cup {r}
  /\ born' = [born EXCEPT ![r] = now]
  /\ seen' = [seen EXCEPT ![r] = now]
  /\ used' = [used EXCEPT ![r] = now]
  /\ UNCHANGED <<job, now, readAt, account>>

----------------------------------------------------------------------------
(* loadSessionById: the read, and the idle window that slides with it.  Nothing  *)
(* deactivates an account.                                                        *)

Valid(s) == s \in signedIn /\ born[s] + Absolute >= now /\ now - seen[s] <= Idle

LoadRead(r) ==
  /\ Kind(r) \in {"call", "change"} /\ pc[r] = "idle" /\ Connection
  /\ IF Valid(job[r].session)
     THEN /\ Goto(r, IF oneTime /\ Kind(r) = "call" THEN "barred" ELSE "loaded")
          /\ readAt' = [readAt EXCEPT ![r] = now]
          /\ used' = [used EXCEPT ![job[r].session] = now]
     ELSE Goto(r, "refused") /\ UNCHANGED <<readAt, used>>
  /\ UNCHANGED <<job, now, signedIn, born, seen, account>>

TimeOfWrite(r) == now  \* mutant: the database's clock when it writes
TimeOfRead(r) == readAt[r]

\* UPDATE of a row that may be gone; a one-time password permits nothing but its change.
LoadSlide(r) ==
  /\ pc[r] \in {"loaded", "barred"} /\ Connection
  /\ seen' = IF job[r].session \in signedIn
             THEN [seen EXCEPT ![job[r].session] = TimeOfRead(r)] ELSE seen
  /\ Goto(r, CASE pc[r] = "barred" -> "refused"
               [] pc[r] = "loaded" /\ Kind(r) = "call" -> "done"
               [] pc[r] = "loaded" /\ Kind(r) = "change" -> "signed")
  /\ UNCHANGED <<job, now, signedIn, born, readAt, used, account>>

Logout(r) ==
  /\ Kind(r) = "logout" /\ pc[r] = "idle" /\ Connection /\ Goto(r, "done")
  /\ signedIn' = signedIn \ {job[r].session}
  /\ UNCHANGED <<job, now, born, seen, readAt, used, account>>

----------------------------------------------------------------------------
(* changePassword and resetOperatorPassword *)

CountFailures(r) ==
  /\ pc[r] = "signed" /\ Connection
  /\ Goto(r, IF Cardinality(Live(failures)) >= MaxFailures THEN "refused" ELSE "unlocked")
  /\ UNCHANGED <<job, now, session, account>>

\* The current password is read and verified, and a failure audited.
VerifyCurrent(r) ==
  /\ pc[r] = "unlocked" /\ Connection
  /\ IF job[r].typed = password
     THEN Goto(r, "proved") /\ UNCHANGED failures
     ELSE Goto(r, "refused") /\ failures' = failures \cup {<<r, now>>}
  /\ UNCHANGED <<job, now, session, password, oneTime, userLock, present>>

BeginChange(r) ==
  /\ pc[r] = "proved" /\ Connection /\ Goto(r, "waiting")
  /\ UNCHANGED <<job, now, session, account>>

UpdateUser(r) ==
  /\ pc[r] = "waiting" \/ (Kind(r) = "reset" /\ pc[r] = "idle")
  /\ userLock = None /\ userLock' = r
  /\ Goto(r, "updated")
  /\ UNCHANGED <<job, now, session, password, oneTime, failures, present>>

NobodyRevoked(r) == {}  \* mutant: a change leaves the other sessions alone
Others(r) == signedIn \ (IF Kind(r) = "change" THEN {job[r].session} ELSE {})

\* A change deletes on another connection, and it shows at once; a reset deletes in
\* its transaction what it sees.
Revoke(r) ==
  /\ pc[r] = "updated" /\ Goto(r, "revoked")
  /\ Kind(r) = "change" => Connection
  /\ present' = [present EXCEPT ![r] = signedIn]
  /\ signedIn' = IF Kind(r) = "change" THEN signedIn \ Others(r) ELSE signedIn
  /\ UNCHANGED <<job, now, born, seen, readAt, used, password, oneTime, userLock, failures>>

LockKept(r) == r  \* mutant: the row stays locked
Unlocked(r) == None
CommitPassword(r) ==
  /\ pc[r] = "revoked" /\ Goto(r, "done")
  /\ userLock' = Unlocked(r)
  /\ password' = r /\ oneTime' = (Kind(r) = "reset")
  /\ signedIn' = IF Kind(r) = "reset" THEN signedIn \ present[r] ELSE signedIn
  /\ UNCHANGED <<job, now, born, seen, readAt, used, failures, present>>

\* The transaction may fail before it commits; what was revoked stays revoked.
RollBack(r) ==
  /\ pc[r] = "revoked" /\ Goto(r, "refused")
  /\ userLock' = None
  /\ UNCHANGED <<job, now, session, password, oneTime, failures, present>>

----------------------------------------------------------------------------
Tick ==
  /\ now < MaxTime /\ now' = now + 1
  /\ UNCHANGED <<pc, job, session, account>>

Work(r) ==
  \/ VerifyLogin(r) \/ CreateSession(r)
  \/ LoadRead(r) \/ LoadSlide(r) \/ Logout(r)
  \/ CountFailures(r) \/ VerifyCurrent(r) \/ BeginChange(r) \/ UpdateUser(r) \/ Revoke(r)
  \/ CommitPassword(r)
Next == (\E r \in Requests : Work(r) \/ RollBack(r)) \/ Tick
\* A request that has begun goes on: every statement is awaited, and the database wakes
\* who waits for the row.
Fairness == \A r \in Requests : WF_vars(pc[r] # "idle" /\ Work(r))
Spec == Init /\ [][Next]_vars /\ Fairness

----------------------------------------------------------------------------
TypeOK ==
  /\ pc \in [Requests -> {"idle", "verified", "loaded", "barred", "signed", "unlocked",
                          "proved", "waiting", "updated", "revoked", "done", "refused"}]
  /\ job \in Plans
  /\ now \in Times
  /\ password \in Passwords /\ oneTime \in BOOLEAN /\ userLock \in Requests \cup {None}
  /\ signedIn \subseteq Sessions
  /\ born \in [Sessions -> Times] /\ seen \in [Sessions -> Times] /\ used \in [Sessions -> Times]
  /\ readAt \in [Requests -> Times]
  /\ failures \subseteq Requests \X Times
  /\ present \in [Passwords -> SUBSET Sessions]
  \* The row is locked by the transaction that has written it.
  /\ \A r \in Requests : pc[r] \in {"updated", "revoked"} <=> userLock = r

\* session.ts: a late or missed slide shortens the life of a session and never extends
\* it.  No call is accepted that comes more than Idle after the last one that was.
NeverExtended ==
  [][\A r \in Requests : pc[r] = "idle" /\ pc'[r] \in {"loaded", "barred"} =>
       now - used[job[r].session] <= Idle]_vars

\* Decision SEC-008, 13 section 2.5: whoever is signed in with another password than
\* the one in force changed the password in this session, or verified the password
\* before it changed and got the session only after the others had been revoked.
SignedInWith(s) == IF s = Old THEN Old ELSE job[s].typed
SessionsFollowPassword ==
  \A s \in signedIn : password # Old /\ SignedInWith(s) # password =>
    \/ Kind(password) = "change" /\ job[password].session = s
    \/ s \notin present[password]

\* Every request ends, unless changes of the password hold all connections, and the one
\* that has locked the row the others wait for needs one more to revoke the sessions.
PoolExhausted ==
  /\ ~Connection
  /\ \E r \in Connected : userLock = r /\ pc[r] = "updated"
EveryRequestEnds ==
  \A r \in Requests : pc[r] \notin {"idle", "done", "refused"} ~>
    (pc[r] \in {"done", "refused"} \/ PoolExhausted)
=============================================================================
