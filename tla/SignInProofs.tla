---------------------------- MODULE SignInProofs ----------------------------
(***************************************************************************)
(* That a changed password ends the sessions it should, that no late write *)
(* extends a session, and that attempts to sign in stay within their       *)
(* bounds, for any number of requests, passwords, delays, addresses and    *)
(* outages.                                                                *)
(*                                                                         *)
(* SignInInv is inductive.  A session is signed in or was seen by a change *)
(* only if the login that made it has ended (PresentOK), so that one that  *)
(* is still on its way is in no such set; of what a change has seen only   *)
(* its own session stays (RevokedOK); and who changed the password last    *)
(* has committed (CurrentOK).  A session was last seen no later than it    *)
(* was last accepted (ClockOK).                                            *)
(*                                                                         *)
(* ThrottleInv is inductive.  What counters admitted in the period is      *)
(* remembered by one of the two stores, and as long as Redis has answered  *)
(* every time, by Redis alone (RedisKnows); and no store remembers more    *)
(* than the bound (ThrottleTypeOK).                                        *)
(***************************************************************************)
EXTENDS SignIn, Throttle, FiniteSetTheorems, TLAPS

\* Which kinds of request reach which places.
KindOK == \A r \in Requests :
  /\ pc[r] = "verified" => Kind(r) = "login"
  /\ pc[r] \in {"loaded", "barred"} => Kind(r) \in {"call", "change"}
  /\ pc[r] \in {"signed", "unlocked", "proved", "waiting"} => Kind(r) = "change"
  /\ pc[r] \in {"updated", "revoked"} => Kind(r) \in {"change", "reset"}

\* What is written of a session is not later than its last use.
ClockOK ==
  /\ \A s \in Sessions : seen[s] <= used[s] /\ used[s] <= now
  /\ \A r \in Requests : pc[r] \in {"loaded", "barred"} => readAt[r] <= used[job[r].session]

\* The request that made a session that exists, or was seen, has ended.
Made(s) == s = Old \/ pc[s] = "done"
PresentOK ==
  /\ \A s \in signedIn : Made(s)
  /\ \A q \in Passwords : \A s \in present[q] : Made(s)

\* Of the sessions a change has seen, only the one it was asked in is left.
RevokedOK == \A r \in Requests : Kind(r) = "change" /\ pc[r] \in {"revoked", "done"} =>
  \A s \in signedIn \cap present[r] : s = job[r].session

\* The password in force is the first one, or was committed by a change or a reset;
\* of the sessions a reset has seen none is left.
CurrentOK == password # Old =>
  /\ pc[password] = "done" /\ Kind(password) \in {"change", "reset"}
  /\ Kind(password) = "reset" => signedIn \cap present[password] = {}

SignInInv == TypeOK /\ KindOK /\ ClockOK /\ PresentOK /\ RevokedOK /\ CurrentOK

----------------------------------------------------------------------------
\* A job is a record of its type.
LEMMA JobFacts ==
  ASSUME TypeOK, NEW r \in Requests
  PROVE  /\ job \in [Requests -> Jobs] /\ Kind(r) \in Kinds
         /\ job[r].session \in Sessions /\ job[r].typed \in Passwords
  BY SignInAssumption DEF TypeOK, Kind, Jobs

LEMMA InitHolds == Init => SignInInv
<1> SUFFICES ASSUME Init PROVE SignInInv
  OBVIOUS
<1>1. 0 \in Times /\ None \notin Requests /\ Old \in Sessions
  BY SignInAssumption DEF Times, Sessions
<1>2. TypeOK
  BY <1>1 DEF Init, TypeOK, Passwords, Sessions
<1>3. KindOK /\ ClockOK
  BY <1>1 DEF Init, KindOK, ClockOK
<1>4. PresentOK /\ RevokedOK /\ CurrentOK
  BY DEF Init, PresentOK, RevokedOK, CurrentOK, Made
<1> QED BY <1>2, <1>3, <1>4 DEF SignInInv

----------------------------------------------------------------------------
\* A request that goes on to label, and no other.
Moves(r, label) == pc[r] \notin {"done", "refused"} /\ Goto(r, label)

\* What is done stays done, and what has been made stays made.
LEMMA MadeStays ==
  ASSUME TypeOK, NEW r \in Requests, NEW label, Moves(r, label)
  PROVE  /\ pc'[r] = label
         /\ \A q \in Requests \ {r} : pc'[q] = pc[q]
         /\ \A s \in Sessions : Made(s) => Made(s)'
  BY DEF TypeOK, Moves, Goto, Made, Sessions

\* A step of a request that neither makes nor ends a session, and does not lock.
Outside == {"idle", "verified", "loaded", "barred", "signed", "unlocked", "proved",
            "waiting", "refused"}
LEMMA QuietStep ==
  ASSUME SignInInv, NEW r \in Requests, NEW label, Moves(r, label),
         label \in Outside \/ (label = "done" /\ Kind(r) \in {"call", "logout", "login"}),
         pc[r] \in Outside,
         UNCHANGED <<job, password, userLock, present>>, signedIn' \subseteq signedIn
  PROVE  /\ pc' \in [Requests -> Outside \cup {"updated", "revoked", "done"}]
         /\ \A q \in Requests : pc'[q] \in {"updated", "revoked"} <=> userLock' = q
         /\ PresentOK' /\ RevokedOK' /\ CurrentOK'
<1> USE DEF SignInInv
<1>1. /\ pc'[r] = label
      /\ \A q \in Requests \ {r} : pc'[q] = pc[q]
      /\ \A s \in Sessions : Made(s) => Made(s)'
  BY MadeStays
<1>2. pc' \in [Requests -> Outside \cup {"updated", "revoked", "done"}]
  BY DEF Moves, Goto, TypeOK, Outside
<1>3. \A q \in Requests : pc'[q] \in {"updated", "revoked"} <=> userLock' = q
  BY <1>1 DEF TypeOK, Outside
<1>4. PresentOK'
  <2>1. signedIn \subseteq Sessions /\ \A q \in Passwords : present[q] \subseteq Sessions
    BY DEF TypeOK
  <2> QED BY <1>1, <2>1 DEF PresentOK
<1>5. RevokedOK'
  <2> SUFFICES ASSUME NEW q \in Requests, Kind(q) = "change", pc'[q] \in {"revoked", "done"}
               PROVE  \A s \in signedIn \cap present[q] : s = job[q].session
    BY DEF RevokedOK, Kind
  <2>1. q # r
    BY <1>1 DEF TypeOK, Outside
  <2> QED BY <1>1, <2>1 DEF RevokedOK
<1>6. CurrentOK'
  <2> SUFFICES ASSUME password # Old
               PROVE  /\ pc'[password] = "done" /\ Kind(password) \in {"change", "reset"}
                      /\ Kind(password) = "reset" => signedIn \cap present[password] = {}
    BY DEF CurrentOK, Kind
  <2>1. password \in Requests /\ password # r
    BY DEF TypeOK, CurrentOK, Passwords, Moves
  <2> QED BY <1>1, <2>1 DEF CurrentOK
<1> QED BY <1>2, <1>3, <1>4, <1>5, <1>6

\* A quiet step that leaves the clock and the times of the sessions alone.
LEMMA PlainStep ==
  ASSUME SignInInv, NEW r \in Requests, NEW label \in Outside \ {"loaded", "barred"},
         Moves(r, label), pc[r] \in Outside,
         label = "verified" => Kind(r) = "login",
         label \in {"signed", "unlocked", "proved", "waiting"} => Kind(r) = "change",
         UNCHANGED <<job, now, born, seen, readAt, used, signedIn, password, oneTime, userLock,
                     present>>,
         failures' \subseteq Requests \X Times
  PROVE  SignInInv'
<1>1. /\ pc' \in [Requests -> Outside \cup {"updated", "revoked", "done"}]
      /\ \A q \in Requests : pc'[q] \in {"updated", "revoked"} <=> userLock' = q
      /\ PresentOK' /\ RevokedOK' /\ CurrentOK'
  BY QuietStep
<1>2. /\ pc'[r] = label
      /\ \A q \in Requests \ {r} : pc'[q] = pc[q]
  BY MadeStays DEF SignInInv
<1>3. TypeOK'
  BY <1>1 DEF SignInInv, TypeOK, Outside
<1>4. KindOK'
  BY <1>2 DEF SignInInv, KindOK, Kind, Outside
<1>5. ClockOK'
  BY <1>2 DEF SignInInv, ClockOK
<1> QED BY <1>1, <1>3, <1>4, <1>5 DEF SignInInv

LEMMA VerifyLoginStep ==
  ASSUME SignInInv, NEW r \in Requests, VerifyLogin(r) PROVE SignInInv'
<1> DEFINE label == IF job[r].typed = password THEN "verified" ELSE "refused"
<1>1. Moves(r, label) /\ pc[r] \in Outside /\ label \in {"verified", "refused"}
      /\ Kind(r) = "login"
  BY DEF VerifyLogin, Moves, Outside
<1>2. failures' \subseteq Requests \X Times
  BY DEF VerifyLogin, account, SignInInv, TypeOK
<1> HIDE DEF label
<1> QED BY <1>1, <1>2, PlainStep DEF VerifyLogin, session, account, Outside

LEMMA CountFailuresStep ==
  ASSUME SignInInv, NEW r \in Requests, CountFailures(r) PROVE SignInInv'
<1> DEFINE label == IF Cardinality(Live(failures)) >= MaxFailures THEN "refused" ELSE "unlocked"
<1>1. Moves(r, label) /\ pc[r] \in Outside /\ Kind(r) = "change"
  BY DEF CountFailures, Moves, Outside, SignInInv, KindOK
<1>2. failures' \subseteq Requests \X Times /\ label \in {"refused", "unlocked"}
  BY DEF CountFailures, account, SignInInv, TypeOK
<1> HIDE DEF label
<1> QED BY <1>1, <1>2, PlainStep DEF CountFailures, session, account, Outside

LEMMA VerifyCurrentStep ==
  ASSUME SignInInv, NEW r \in Requests, VerifyCurrent(r) PROVE SignInInv'
<1>1. PICK label \in {"proved", "refused"} : Goto(r, label)
  BY DEF VerifyCurrent
<1>2. Moves(r, label) /\ pc[r] \in Outside /\ Kind(r) = "change"
  BY <1>1 DEF VerifyCurrent, Moves, Outside, SignInInv, KindOK
<1>3. failures' \subseteq Requests \X Times
  BY DEF VerifyCurrent, SignInInv, TypeOK
<1> QED BY <1>2, <1>3, PlainStep DEF VerifyCurrent, session, Outside

LEMMA BeginChangeStep ==
  ASSUME SignInInv, NEW r \in Requests, BeginChange(r) PROVE SignInInv'
<1>1. Moves(r, "waiting") /\ pc[r] \in Outside /\ Kind(r) = "change"
  BY DEF BeginChange, Moves, Outside, SignInInv, KindOK
<1>2. failures' \subseteq Requests \X Times
  BY DEF BeginChange, account, SignInInv, TypeOK
<1> QED BY <1>1, <1>2, PlainStep DEF BeginChange, session, account, Outside

\* The session that is made was seen by no change: its login had not ended.
LEMMA CreateSessionStep ==
  ASSUME SignInInv, NEW r \in Requests, CreateSession(r) PROVE SignInInv'
<1> USE DEF SignInInv
<1>1. /\ pc[r] = "verified" /\ Goto(r, "done") /\ Moves(r, "done")
      /\ UNCHANGED <<job, now, readAt, password, oneTime, userLock, failures, present>>
      /\ signedIn' = signedIn \cup {r}
      /\ born' = [born EXCEPT ![r] = now] /\ seen' = [seen EXCEPT ![r] = now]
      /\ used' = [used EXCEPT ![r] = now]
  BY DEF CreateSession, Moves, account
<1>2. /\ pc'[r] = "done"
      /\ \A q \in Requests \ {r} : pc'[q] = pc[q]
      /\ \A s \in Sessions : Made(s) => Made(s)'
  BY <1>1, MadeStays
<1>3. r \in Sessions /\ r # Old /\ ~Made(r)
  BY <1>1, SignInAssumption DEF Sessions, Made
<1>4. r \notin signedIn /\ \A q \in Passwords : r \notin present[q]
  BY <1>3 DEF PresentOK
<1>5. signedIn \subseteq Sessions /\ \A q \in Passwords : present[q] \subseteq Sessions
  BY DEF TypeOK
<1>6. TypeOK'
  BY <1>1, <1>2, <1>3 DEF TypeOK, Goto
<1>7. KindOK'
  BY <1>1, <1>2 DEF KindOK, Kind
<1>8. ClockOK'
  <2>1. \A q \in Requests : job[q].session \in Sessions
    BY JobFacts
  <2>2. \A s \in Sessions : used[s] <= used'[s]
    BY <1>1 DEF TypeOK, Times, ClockOK
  <2>3. \A s \in Sessions : seen'[s] <= used'[s] /\ used'[s] <= now'
    BY <1>1 DEF TypeOK, Times, ClockOK
  <2>4. ASSUME NEW q \in Requests, pc'[q] \in {"loaded", "barred"}
        PROVE  readAt'[q] <= used'[job'[q].session]
    <3>1. readAt[q] <= used[job[q].session] /\ job[q].session \in Sessions
      BY <2>1, <2>4, <1>2 DEF ClockOK
    <3>2. /\ readAt[q] \in Int /\ used[job[q].session] \in Int
          /\ used'[job[q].session] \in Int
      BY <3>1, <1>6 DEF TypeOK, Times
    <3> QED BY <3>1, <3>2, <2>2, <1>1
  <2> QED BY <2>3, <2>4 DEF ClockOK
<1>9. PresentOK'
  BY <1>1, <1>2, <1>3, <1>5 DEF PresentOK, Made
<1>10. RevokedOK'
  <2> SUFFICES ASSUME NEW q \in Requests, Kind(q) = "change", pc'[q] \in {"revoked", "done"}
               PROVE  \A s \in signedIn' \cap present[q] : s = job[q].session
    BY <1>1 DEF RevokedOK, Kind
  <2>1. CASE q = r
    <3>1. Kind(r) # "change"
      BY DEF CreateSession, KindOK
    <3> QED BY <2>1, <3>1
  <2>2. CASE q # r
    BY <2>2, <1>1, <1>2, <1>4 DEF RevokedOK, Passwords
  <2> QED BY <2>1, <2>2
<1>11. CurrentOK'
  <2> SUFFICES ASSUME password # Old
               PROVE  /\ pc'[password] = "done" /\ Kind(password) \in {"change", "reset"}
                      /\ Kind(password) = "reset" => signedIn' \cap present[password] = {}
    BY <1>1 DEF CurrentOK, Kind
  <2>1. password \in Requests /\ password \in Passwords /\ password # r
    BY <1>1 DEF TypeOK, CurrentOK, Passwords
  <2> QED BY <1>1, <1>2, <1>4, <2>1 DEF CurrentOK
<1> QED BY <1>6, <1>7, <1>8, <1>9, <1>10, <1>11

\* A call is accepted: its session was last used now.
LEMMA LoadReadStep ==
  ASSUME SignInInv, NEW r \in Requests, LoadRead(r) PROVE SignInInv'
<1> USE DEF SignInInv
<1> DEFINE s == job[r].session
<1>1. /\ pc[r] = "idle" /\ Kind(r) \in {"call", "change"}
      /\ UNCHANGED <<job, now, signedIn, born, seen, password, oneTime, userLock, failures,
                     present>>
  BY DEF LoadRead, account
<1>2. s \in Sessions
  BY JobFacts
<1>3. CASE ~Valid(s)
  <2>1. Moves(r, "refused") /\ pc[r] \in Outside
    BY <1>1, <1>3 DEF LoadRead, Moves, Outside
  <2>2. failures' \subseteq Requests \X Times /\ UNCHANGED <<readAt, used>>
    BY <1>1, <1>3 DEF LoadRead, TypeOK
  <2> QED BY <2>1, <2>2, <1>1, PlainStep DEF Outside
<1>4. CASE Valid(s)
  <2>1. PICK label \in {"loaded", "barred"} :
          /\ Moves(r, label) /\ readAt' = [readAt EXCEPT ![r] = now]
          /\ used' = [used EXCEPT ![s] = now]
    BY <1>1, <1>4 DEF LoadRead, Moves
  <2>2. /\ pc' \in [Requests -> Outside \cup {"updated", "revoked", "done"}]
        /\ \A q \in Requests : pc'[q] \in {"updated", "revoked"} <=> userLock' = q
        /\ PresentOK' /\ RevokedOK' /\ CurrentOK'
    BY <1>1, <2>1, QuietStep DEF Outside
  <2>3. /\ pc'[r] = label
        /\ \A q \in Requests \ {r} : pc'[q] = pc[q]
    BY <2>1, MadeStays
  <2>4. TypeOK'
    BY <1>1, <1>2, <2>1, <2>2 DEF TypeOK, Outside
  <2>5. KindOK'
    BY <1>1, <2>1, <2>3 DEF KindOK, Kind
  <2>6. ClockOK'
    <3>1. \A z \in Sessions : used[z] <= used'[z] /\ seen'[z] <= used'[z] /\ used'[z] <= now'
      BY <1>1, <2>1 DEF TypeOK, Times, ClockOK
    <3>2. ASSUME NEW q \in Requests, pc'[q] \in {"loaded", "barred"}
          PROVE  readAt'[q] <= used'[job'[q].session]
      <4>1. job[q].session \in Sessions
        BY JobFacts
      <4>2. /\ readAt[q] \in Int /\ used[job[q].session] \in Int
            /\ used'[job[q].session] \in Int /\ now \in Int
        BY <4>1, <2>4 DEF TypeOK, Times
      <4>3. CASE q = r
        BY <4>2, <4>3, <1>1, <1>2, <2>1 DEF TypeOK
      <4>4. CASE q # r
        BY <4>1, <4>2, <4>4, <3>1, <3>2, <1>1, <2>1, <2>3 DEF ClockOK
      <4> QED BY <4>3, <4>4
    <3> QED BY <3>1, <3>2 DEF ClockOK
  <2> QED BY <2>2, <2>4, <2>5, <2>6
<1> QED BY <1>3, <1>4

\* The renewal writes the time at which the call read its session.
LEMMA LoadSlideStep ==
  ASSUME SignInInv, NEW r \in Requests, LoadSlide(r) PROVE SignInInv'
<1> USE DEF SignInInv
<1> DEFINE s == job[r].session
<1>1. /\ pc[r] \in {"loaded", "barred"} /\ Kind(r) \in {"call", "change"}
      /\ UNCHANGED <<job, now, signedIn, born, readAt, used, password, oneTime, userLock,
                     failures, present>>
  BY DEF LoadSlide, account, KindOK
<1>2. s \in Sessions /\ readAt[r] <= used[s]
  BY <1>1, JobFacts DEF ClockOK
<1>3. seen' = seen \/ seen' = [seen EXCEPT ![s] = readAt[r]]
  BY DEF LoadSlide, TimeOfRead
<1>4. PICK label \in {"refused", "done", "signed"} :
        /\ Moves(r, label)
        /\ label = "done" => Kind(r) = "call"
        /\ label = "signed" => Kind(r) = "change"
  <2>1. CASE pc[r] = "barred"
    BY <2>1, <1>1 DEF LoadSlide, Moves
  <2>2. CASE pc[r] = "loaded" /\ Kind(r) = "call"
    BY <2>2, <1>1 DEF LoadSlide, Moves
  <2>3. CASE pc[r] = "loaded" /\ Kind(r) = "change"
    BY <2>3, <1>1 DEF LoadSlide, Moves
  <2> QED BY <2>1, <2>2, <2>3, <1>1
<1>5. /\ pc' \in [Requests -> Outside \cup {"updated", "revoked", "done"}]
      /\ \A q \in Requests : pc'[q] \in {"updated", "revoked"} <=> userLock' = q
      /\ PresentOK' /\ RevokedOK' /\ CurrentOK'
  BY <1>1, <1>4, QuietStep DEF Outside
<1>6. /\ pc'[r] = label
      /\ \A q \in Requests \ {r} : pc'[q] = pc[q]
  BY <1>4, MadeStays
<1>7. TypeOK'
  BY <1>1, <1>2, <1>3, <1>5 DEF TypeOK, Outside
<1>8. KindOK'
  BY <1>1, <1>4, <1>6 DEF KindOK, Kind
<1>9. ClockOK'
  <2>1. \A z \in Sessions : seen'[z] <= used'[z] /\ used'[z] <= now'
    BY <1>1, <1>2, <1>3 DEF TypeOK, Times, ClockOK
  <2>2. \A q \in Requests : pc'[q] \in {"loaded", "barred"} => readAt'[q] <= used'[job'[q].session]
    BY <1>1, <1>4, <1>6 DEF ClockOK
  <2> QED BY <2>1, <2>2 DEF ClockOK
<1> QED BY <1>5, <1>7, <1>8, <1>9

LEMMA LogoutStep ==
  ASSUME SignInInv, NEW r \in Requests, Logout(r) PROVE SignInInv'
<1> USE DEF SignInInv
<1>1. /\ pc[r] = "idle" /\ Kind(r) = "logout" /\ Moves(r, "done") /\ signedIn' \subseteq signedIn
      /\ UNCHANGED <<job, now, born, seen, readAt, used, password, oneTime, userLock,
                     failures, present>>
  BY DEF Logout, account, Moves
<1>2. /\ pc' \in [Requests -> Outside \cup {"updated", "revoked", "done"}]
      /\ \A q \in Requests : pc'[q] \in {"updated", "revoked"} <=> userLock' = q
      /\ PresentOK' /\ RevokedOK' /\ CurrentOK'
  BY <1>1, QuietStep DEF Outside
<1>3. /\ pc'[r] = "done"
      /\ \A q \in Requests \ {r} : pc'[q] = pc[q]
  BY <1>1, MadeStays
<1>4. TypeOK'
  BY <1>1, <1>2 DEF TypeOK, Outside
<1>5. KindOK' /\ ClockOK'
  BY <1>1, <1>3 DEF KindOK, Kind, ClockOK
<1> QED BY <1>2, <1>4, <1>5

\* The row was free: nobody else is between its update and its commit.
LEMMA UpdateUserStep ==
  ASSUME SignInInv, NEW r \in Requests, UpdateUser(r) PROVE SignInInv'
<1> USE DEF SignInInv
<1>1. /\ pc[r] \in {"waiting", "idle"} /\ Kind(r) \in {"change", "reset"}
      /\ Moves(r, "updated") /\ userLock = None /\ userLock' = r
      /\ UNCHANGED <<job, now, born, seen, readAt, used, signedIn, password, oneTime, failures,
                     present>>
  BY DEF UpdateUser, session, Moves, KindOK
<1>2. /\ pc'[r] = "updated"
      /\ \A q \in Requests \ {r} : pc'[q] = pc[q]
      /\ \A s \in Sessions : Made(s) => Made(s)'
  BY <1>1, MadeStays
<1>3. TypeOK'
  <2>1. \A q \in Requests : pc'[q] \in {"updated", "revoked"} <=> userLock' = q
    BY <1>1, <1>2, SignInAssumption DEF TypeOK
  <2>2. pc' \in [Requests -> {"idle", "verified", "loaded", "barred", "signed", "unlocked",
                             "proved", "waiting", "updated", "revoked", "done", "refused"}]
    BY <1>1 DEF TypeOK, Moves, Goto
  <2> QED BY <2>1, <2>2, <1>1 DEF TypeOK
<1>4. KindOK' /\ ClockOK'
  BY <1>1, <1>2 DEF KindOK, Kind, ClockOK
<1>5. PresentOK'
  <2>1. signedIn \subseteq Sessions /\ \A q \in Passwords : present[q] \subseteq Sessions
    BY DEF TypeOK
  <2> QED BY <1>1, <1>2, <2>1 DEF PresentOK
<1>6. RevokedOK'
  BY <1>1, <1>2 DEF RevokedOK, Kind
<1>7. CurrentOK'
  <2>1. password # Old => password \in Requests /\ password # r
    BY <1>1 DEF TypeOK, CurrentOK, Passwords
  <2> QED BY <1>1, <1>2, <2>1 DEF CurrentOK, Kind
<1> QED BY <1>3, <1>4, <1>5, <1>6, <1>7

\* Of what a change sees only its own session stays; a reset notes what it sees.
LEMMA RevokeStep ==
  ASSUME SignInInv, NEW r \in Requests, Revoke(r) PROVE SignInInv'
<1> USE DEF SignInInv
<1>1. /\ pc[r] = "updated" /\ Kind(r) \in {"change", "reset"} /\ Moves(r, "revoked")
      /\ present' = [present EXCEPT ![r] = signedIn]
      /\ signedIn' = IF Kind(r) = "change" THEN signedIn \ Others(r) ELSE signedIn
      /\ UNCHANGED <<job, now, born, seen, readAt, used, password, oneTime, userLock, failures>>
  BY DEF Revoke, Moves, KindOK
<1>2. /\ pc'[r] = "revoked"
      /\ \A q \in Requests \ {r} : pc'[q] = pc[q]
      /\ \A s \in Sessions : Made(s) => Made(s)'
  BY <1>1, MadeStays
<1>3. /\ signedIn' \subseteq signedIn /\ r \in Passwords
      /\ Kind(r) = "change" => signedIn' \subseteq {job[r].session}
  BY <1>1 DEF Others, Passwords
<1>4. TypeOK'
  <2>1. present' \in [Passwords -> SUBSET Sessions]
    BY <1>1, <1>3 DEF TypeOK
  <2>2. \A q \in Requests : pc'[q] \in {"updated", "revoked"} <=> userLock' = q
    BY <1>1, <1>2 DEF TypeOK
  <2>3. pc' \in [Requests -> {"idle", "verified", "loaded", "barred", "signed", "unlocked",
                             "proved", "waiting", "updated", "revoked", "done", "refused"}]
    BY <1>1 DEF TypeOK, Moves, Goto
  <2> QED BY <2>1, <2>2, <2>3, <1>1, <1>3 DEF TypeOK
<1>5. KindOK' /\ ClockOK'
  BY <1>1, <1>2 DEF KindOK, Kind, ClockOK
<1>6. \A q \in Passwords \ {r} : present'[q] = present[q]
  BY <1>1 DEF TypeOK
<1>7. present'[r] = signedIn
  BY <1>1, <1>3 DEF TypeOK
<1>8. PresentOK'
  <2>1. signedIn \subseteq Sessions /\ \A q \in Passwords : present[q] \subseteq Sessions
    BY DEF TypeOK
  <2> QED BY <1>2, <1>3, <1>6, <1>7, <2>1 DEF PresentOK
<1>9. RevokedOK'
  <2> SUFFICES ASSUME NEW q \in Requests, Kind(q) = "change", pc'[q] \in {"revoked", "done"}
               PROVE  \A s \in signedIn' \cap present'[q] : s = job[q].session
    BY <1>1 DEF RevokedOK, Kind
  <2>1. CASE q = r
    BY <2>1, <1>3
  <2>2. CASE q # r
    BY <2>2, <1>2, <1>3, <1>6 DEF RevokedOK, Passwords
  <2> QED BY <2>1, <2>2
<1>10. CurrentOK'
  <2> SUFFICES ASSUME password # Old
               PROVE  /\ pc'[password] = "done" /\ Kind(password) \in {"change", "reset"}
                      /\ Kind(password) = "reset" => signedIn' \cap present'[password] = {}
    BY <1>1 DEF CurrentOK, Kind
  <2>1. password \in Requests /\ password \in Passwords /\ password # r
    BY <1>1 DEF TypeOK, CurrentOK, Passwords
  <2> QED BY <1>2, <1>3, <1>6, <2>1 DEF CurrentOK
<1> QED BY <1>4, <1>5, <1>8, <1>9, <1>10

\* The commit of a new password: what a reset has seen goes with it.
LEMMA CommitPasswordStep ==
  ASSUME SignInInv, NEW r \in Requests, CommitPassword(r) PROVE SignInInv'
<1> USE DEF SignInInv
<1>1. /\ pc[r] = "revoked" /\ Kind(r) \in {"change", "reset"} /\ Moves(r, "done")
      /\ userLock' = None /\ password' = r /\ oneTime' \in BOOLEAN
      /\ signedIn' = IF Kind(r) = "reset" THEN signedIn \ present[r] ELSE signedIn
      /\ UNCHANGED <<job, now, born, seen, readAt, used, failures, present>>
  BY DEF CommitPassword, Moves, KindOK, Unlocked
<1>2. /\ pc'[r] = "done"
      /\ \A q \in Requests \ {r} : pc'[q] = pc[q]
      /\ \A s \in Sessions : Made(s) => Made(s)'
  BY <1>1, MadeStays
<1>3. signedIn' \subseteq signedIn
  BY <1>1
<1>4. TypeOK'
  <2>1. \A q \in Requests : pc'[q] \in {"updated", "revoked"} <=> userLock' = q
    BY <1>1, <1>2, SignInAssumption DEF TypeOK
  <2>2. pc' \in [Requests -> {"idle", "verified", "loaded", "barred", "signed", "unlocked",
                             "proved", "waiting", "updated", "revoked", "done", "refused"}]
    BY <1>1 DEF TypeOK, Moves, Goto
  <2> QED BY <2>1, <2>2, <1>1, <1>3 DEF TypeOK, Passwords
<1>5. KindOK' /\ ClockOK'
  BY <1>1, <1>2 DEF KindOK, Kind, ClockOK
<1>6. PresentOK'
  <2>1. signedIn \subseteq Sessions /\ \A q \in Passwords : present[q] \subseteq Sessions
    BY DEF TypeOK
  <2> QED BY <1>1, <1>2, <1>3, <2>1 DEF PresentOK
<1>7. RevokedOK'
  BY <1>1, <1>2, <1>3 DEF RevokedOK, Kind
<1>8. CurrentOK'
  <2>1. Kind(r) = "reset" => signedIn' \cap present'[r] = {}
    BY <1>1
  <2> QED BY <1>1, <1>2, <2>1 DEF CurrentOK, Kind
<1> QED BY <1>4, <1>5, <1>6, <1>7, <1>8

\* A rollback frees the row; the sessions that were deleted stay deleted.
LEMMA RollBackStep ==
  ASSUME SignInInv, NEW r \in Requests, RollBack(r) PROVE SignInInv'
<1> USE DEF SignInInv
<1>1. /\ pc[r] = "revoked" /\ Moves(r, "refused") /\ userLock' = None
      /\ UNCHANGED <<job, now, born, seen, readAt, used, signedIn, password, oneTime, failures,
                     present>>
  BY DEF RollBack, session, Moves
<1>2. /\ pc'[r] = "refused"
      /\ \A q \in Requests \ {r} : pc'[q] = pc[q]
      /\ \A s \in Sessions : Made(s) => Made(s)'
  BY <1>1, MadeStays
<1>3. TypeOK'
  <2>1. \A q \in Requests : pc'[q] \in {"updated", "revoked"} <=> userLock' = q
    BY <1>1, <1>2, SignInAssumption DEF TypeOK
  <2>2. pc' \in [Requests -> {"idle", "verified", "loaded", "barred", "signed", "unlocked",
                             "proved", "waiting", "updated", "revoked", "done", "refused"}]
    BY <1>1 DEF TypeOK, Moves, Goto
  <2> QED BY <2>1, <2>2, <1>1 DEF TypeOK
<1>4. KindOK' /\ ClockOK' /\ RevokedOK'
  BY <1>1, <1>2 DEF KindOK, Kind, ClockOK, RevokedOK
<1>5. PresentOK'
  <2>1. signedIn \subseteq Sessions /\ \A q \in Passwords : present[q] \subseteq Sessions
    BY DEF TypeOK
  <2> QED BY <1>1, <1>2, <2>1 DEF PresentOK
<1>6. CurrentOK'
  <2>1. password # Old => password \in Requests /\ password # r
    BY <1>1 DEF TypeOK, CurrentOK, Passwords
  <2> QED BY <1>1, <1>2, <2>1 DEF CurrentOK, Kind
<1> QED BY <1>3, <1>4, <1>5, <1>6

LEMMA TickStep ==
  ASSUME SignInInv, Tick PROVE SignInInv'
<1> USE DEF SignInInv
<1>1. /\ now' = now + 1 /\ now < MaxTime
      /\ UNCHANGED <<pc, job, born, seen, readAt, used, signedIn, password, oneTime, userLock,
                     failures, present>>
  BY DEF Tick, session, account
<1>2. now' \in Times
  BY <1>1, SignInAssumption DEF TypeOK, Times
<1>3. TypeOK'
  BY <1>1, <1>2 DEF TypeOK
<1>4. ClockOK'
  BY <1>1 DEF ClockOK, TypeOK, Times
<1>5. KindOK' /\ PresentOK' /\ RevokedOK' /\ CurrentOK'
  BY <1>1 DEF KindOK, Kind, PresentOK, RevokedOK, CurrentOK, Made
<1> QED BY <1>3, <1>4, <1>5

----------------------------------------------------------------------------
LEMMA NextStep == SignInInv /\ [Next]_vars => SignInInv'
<1> SUFFICES ASSUME SignInInv, [Next]_vars PROVE SignInInv'
  OBVIOUS
<1>1. CASE UNCHANGED vars
  BY <1>1 DEF SignInInv, TypeOK, KindOK, Kind, ClockOK, PresentOK, RevokedOK, CurrentOK, Made,
              vars, session, account
<1>2. ASSUME NEW r \in Requests, Work(r) PROVE SignInInv'
  BY <1>2, VerifyLoginStep, CreateSessionStep, LoadReadStep, LoadSlideStep, LogoutStep,
     CountFailuresStep, VerifyCurrentStep, BeginChangeStep, UpdateUserStep, RevokeStep,
     CommitPasswordStep DEF Work
<1>3. ASSUME NEW r \in Requests, RollBack(r) PROVE SignInInv'
  BY <1>3, RollBackStep
<1>4. CASE Tick
  BY <1>4, TickStep
<1> QED BY <1>1, <1>2, <1>3, <1>4 DEF Next

\* The invariant of every behaviour.
THEOREM SignInInvariant == Spec => []SignInInv
  BY InitHolds, NextStep, PTL DEF Spec

\* Every variable keeps its type, and the account's row is locked by exactly the
\* transaction that has written it.
THEOREM TypeCorrect == Spec => []TypeOK
<1>1. SignInInv => TypeOK
  BY DEF SignInInv
<1> QED BY <1>1, SignInInvariant, PTL

\* Whoever is signed in with another password than the one in force changed the
\* password in this session, or came after the others had been revoked.
THEOREM SessionsFollow == Spec => []SessionsFollowPassword
<1>1. ASSUME SignInInv, NEW s \in signedIn, password # Old, SignedInWith(s) # password
      PROVE  \/ Kind(password) = "change" /\ job[password].session = s
             \/ s \notin present[password]
  <2>1. /\ password \in Requests /\ pc[password] = "done"
        /\ Kind(password) \in {"change", "reset"}
        /\ Kind(password) = "reset" => signedIn \cap present[password] = {}
    BY <1>1 DEF SignInInv, TypeOK, CurrentOK, Passwords
  <2> QED BY <1>1, <2>1 DEF SignInInv, RevokedOK
<1>2. SignInInv => SessionsFollowPassword
  BY <1>1 DEF SessionsFollowPassword
<1> QED BY <1>2, SignInInvariant, PTL

\* A late renewal never extends a session: no call is accepted that comes more than
\* the idle time after the last one that was.
THEOREM RenewalsNeverExtend == Spec => NeverExtended
<1>1. ASSUME SignInInv, [Next]_vars, NEW r \in Requests, pc[r] = "idle",
             pc'[r] \in {"loaded", "barred"}
      PROVE  now - used[job[r].session] <= Idle
  <2>1. LoadRead(r)
    <3>1. pc' # pc
      BY <1>1
    <3>2. ~Tick /\ ~UNCHANGED vars
      BY <3>1 DEF Tick, vars
    <3>3. PICK q \in Requests : Work(q) \/ RollBack(q)
      BY <1>1, <3>2 DEF Next
    <3>4. \A label : Goto(q, label) => q = r /\ label \in {"loaded", "barred"}
      BY <1>1 DEF Goto, SignInInv, TypeOK
    <3>5. CASE LoadRead(q)
      BY <3>4, <3>5 DEF LoadRead
    <3>6. CASE LoadSlide(q)
      BY <3>4, <3>6, <1>1 DEF LoadSlide
    <3>7. CASE VerifyLogin(q) \/ CountFailures(q) \/ VerifyCurrent(q)
      BY <3>4, <3>7 DEF VerifyLogin, CountFailures, VerifyCurrent
    <3>8. CASE \/ CreateSession(q) \/ Logout(q) \/ BeginChange(q) \/ UpdateUser(q)
               \/ Revoke(q) \/ CommitPassword(q) \/ RollBack(q)
      BY <3>4, <3>8 DEF CreateSession, Logout, BeginChange, UpdateUser, Revoke, CommitPassword,
                        RollBack
    <3> QED BY <3>3, <3>5, <3>6, <3>7, <3>8 DEF Work
  <2>2. Valid(job[r].session) /\ job[r].session \in Sessions
    BY <1>1, <2>1, JobFacts DEF LoadRead, Goto, SignInInv, TypeOK
  <2> DEFINE z == job[r].session
  <2>3. z \in Sessions /\ now - seen[z] <= Idle
    BY <2>2 DEF Valid
  <2>4. now \in Int /\ seen[z] \in Int /\ used[z] \in Int /\ Idle \in Int
    BY <1>1, <2>3, SignInAssumption DEF SignInInv, TypeOK, Times
  <2>5. seen[z] <= used[z]
    BY <1>1, <2>3 DEF SignInInv, ClockOK
  <2> HIDE DEF z
  <2>6. now - used[z] <= Idle
    BY <2>3, <2>4, <2>5
  <2> QED BY <2>6 DEF z
<1>2. SignInInv /\ [Next]_vars =>
        [\A r \in Requests : pc[r] = "idle" /\ pc'[r] \in {"loaded", "barred"} =>
           now - used[job[r].session] <= Idle]_vars
  BY <1>1
<1> QED BY <1>2, SignInInvariant, PTL DEF Spec, NeverExtended
----------------------------------------------------------------------------
(* The counters of attempts.  While Redis answers, what was admitted in the *)
(* period is what Redis remembers of it; once it has failed, the process    *)
(* remembers what Redis does not, and each of the two admits no more than   *)
(* the bound.                                                               *)

Remembered(c) == hits["redis"][c] \cup hits["memory"][c]
\* Redis remembers neither less nor, but for a sign-in that is clearing it, more.
RedisKnows == outages = 0 =>
  /\ up
  /\ \A c \in Counters : /\ InPeriod(tried[c]) \subseteq hits["redis"][c]
                         /\ Clearing(c) \/ InPeriod(hits["redis"][c]) \subseteq tried[c]
ThrottleInv ==
  /\ ThrottleTypeOK /\ RedisKnows
  /\ \A c \in Counters : InPeriod(tried[c]) \subseteq Remembered(c)

\* Sets of attempts are finite.
LEMMA AttemptsAreFinite ==
  ASSUME NEW attempts \in Attempts
  PROVE  IsFiniteSet(attempts) /\ Cardinality(attempts) \in Nat
<1>1. IsFiniteSet(Ticks)
  BY ThrottleAssumption, FS_Interval DEF Ticks
<1>2. IsFiniteSet(Calls \X Ticks)
  BY <1>1, ThrottleAssumption, FS_Product
<1> QED BY <1>2, FS_Subset, FS_CardinalityType DEF Attempts

\* The counter of a call, its bound and the place of the call.
LEMMA CounterFacts ==
  ASSUME ThrottleTypeOK, NEW r \in Calls
  PROVE  /\ Layer(r) \in Layers /\ Counter(r, Layer(r)) \in Counters
         /\ Counter(r, Layer(r))[1] = Layer(r)
         /\ Account(r) \in Counters /\ Account(r)[1] = "account"
         /\ \A layer \in Layers : Bound(layer) \in Nat \ {0}
<1>1. call[r] \in Asked
  BY ThrottleAssumption DEF ThrottleTypeOK
<1>2. call[r].from \in Addresses /\ Layer(r) \in Layers
  BY <1>1 DEF Asked, Layer, Layers
<1>3. \A layer \in Layers : Bound(layer) \in Nat \ {0}
  BY ThrottleAssumption DEF Layers, Bound
<1> QED BY <1>2, <1>3 DEF Counter, Counters, Account, Layers

\* Consuming keeps a counter within its bound.
LEMMA ConsumedIsBounded ==
  ASSUME ThrottleTypeOK, NEW r \in Calls, NEW layer \in Layers, NEW attempts \in Attempts,
         Cardinality(attempts) <= Bound(layer)
  PROVE  /\ Consumed(r, layer, attempts) \in Attempts
         /\ Cardinality(Consumed(r, layer, attempts)) <= Bound(layer)
<1> DEFINE live == InPeriod(attempts)
           one == <<r, clock>>
<1>1. live \subseteq attempts /\ live \in Attempts
  BY DEF InPeriod, Attempts
<1>2. one \in Calls \X Ticks
  BY DEF ThrottleTypeOK
<1>3. /\ IsFiniteSet(attempts) /\ IsFiniteSet(live)
      /\ Cardinality(attempts) \in Nat /\ Cardinality(live) \in Nat
  BY <1>1, AttemptsAreFinite
<1>4. Cardinality(live) <= Cardinality(attempts)
  BY <1>1, <1>3, FS_Subset
<1>5. Bound(layer) \in Nat
  BY CounterFacts
<1> HIDE DEF live, one
<1>6. CASE Admits(layer, attempts)
  <2>1. Consumed(r, layer, attempts) = live \cup {one}
    BY <1>6 DEF Consumed, live, one
  <2>2. Cardinality(live) < Bound(layer)
    BY <1>6 DEF Admits, live
  <2>3. Cardinality(live \cup {one}) \in {Cardinality(live), Cardinality(live) + 1}
    BY <1>3, FS_AddElement
  <2> QED BY <1>1, <1>2, <1>3, <1>5, <2>1, <2>2, <2>3 DEF Attempts
<1>7. CASE ~Admits(layer, attempts)
  <2>1. Consumed(r, layer, attempts) = live
    BY <1>7 DEF Consumed, live
  <2> QED BY <1>1, <1>3, <1>4, <1>5, <2>1
<1> QED BY <1>6, <1>7

\* Nothing has been tried at first.
LEMMA ThrottleStarts == ThrottleInit => ThrottleInv
<1> SUFFICES ASSUME ThrottleInit PROVE ThrottleInv
  OBVIOUS
<1>1. \A c \in Counters : Bound(c[1]) \in Nat
  BY ThrottleAssumption DEF Counters, Layers, Bound
<1>2. ThrottleTypeOK
  BY <1>1, ThrottleAssumption, FS_EmptySet DEF ThrottleInit, ThrottleTypeOK, Attempts, Ticks
<1>3. \A c \in Counters : tried[c] = {} /\ hits["redis"][c] = {}
  BY DEF ThrottleInit, Stores
<1> QED BY <1>2, <1>3 DEF ThrottleInv, RedisKnows, InPeriod, ThrottleInit

\* One attempt at a counter: what is admitted is remembered by the store that admitted
\* it, and nothing that still counts is forgotten.
LEMMA ConsumeKeeps ==
  ASSUME ThrottleInv, NEW r \in Calls, Consume(r)
  PROVE  ThrottleInv'
<1> DEFINE layer == Layer(r)
           c == Counter(r, layer)
           admitted == Admits(layer, hits[Answers][c])
           one == <<r, clock>>
<1>0. /\ ThrottleTypeOK /\ layer \in Layers /\ c \in Counters /\ c[1] = layer
      /\ \A l \in Layers : Bound(l) \in Nat \ {0}
      /\ hits \in [Stores -> [Counters -> Attempts]] /\ tried \in [Counters -> Attempts]
      /\ at \in [Calls -> {"idle", "counted", "admitted", "right", "clearing", "done", "refused"}]
      /\ Answers \in Stores
  BY CounterFacts DEF ThrottleInv, ThrottleTypeOK, Answers, Stores
<1>1. PICK stores \in Reached : hits' =
       [s \in Stores |-> IF s \in stores THEN [hits[s] EXCEPT ![c] = Consumed(r, layer, @)]
                         ELSE hits[s]]
  BY DEF Consume
<1>2. Answers \in stores /\ (up => stores = {"redis"} /\ Answers = "redis")
  BY DEF Reached, Answers, Stores
<1>3. /\ tried' = IF admitted THEN [tried EXCEPT ![c] = @ \cup {one}] ELSE tried
      /\ UNCHANGED <<call, clock, up, outages>>
      /\ at[r] \in {"idle", "counted"}
      /\ at' = [at EXCEPT ![r] = CASE ~admitted -> "refused"
               [] admitted /\ layer = "address" -> "counted"
               [] admitted /\ layer # "address" -> "admitted"]
  BY DEF Consume, MoveTo
<1>4. one \in Calls \X Ticks /\ clock \in Nat /\ Period \in Nat \ {0}
  BY <1>0, ThrottleAssumption DEF ThrottleTypeOK, Ticks
<1> HIDE DEF layer, c, admitted, one
<1>5. \A s \in Stores, d \in Counters :
        hits'[s][d] = IF s \in stores /\ d = c THEN Consumed(r, layer, hits[s][c]) ELSE hits[s][d]
  BY <1>0, <1>1
<1>6. \A attempts : InPeriod(attempts)' = InPeriod(attempts)
  BY <1>3 DEF InPeriod
<1>7. \A s \in Stores, d \in Counters : InPeriod(hits[s][d]) \subseteq hits'[s][d]
  BY <1>5 DEF Consumed, InPeriod
<1>8. \A s \in Stores, d \in Counters :
        hits[s][d] \in Attempts /\ Cardinality(hits[s][d]) <= Bound(d[1])
  BY <1>0 DEF ThrottleTypeOK
<1>9. ThrottleTypeOK'
  <2>1. at' \in [Calls -> {"idle", "counted", "admitted", "right", "clearing", "done", "refused"}]
    BY <1>0, <1>3
  <2>2. \A s \in Stores, d \in Counters :
          hits'[s][d] \in Attempts /\ Cardinality(hits'[s][d]) <= Bound(d[1])
    BY <1>0, <1>5, <1>8, ConsumedIsBounded
  <2>3. hits' \in [Stores -> [Counters -> Attempts]]
    <3>1. hits' = [s \in Stores |-> hits'[s]]
      BY <1>1
    <3>2. \A s \in Stores : hits'[s] = [d \in Counters |-> hits'[s][d]]
      BY <1>0, <1>1
    <3> QED BY <2>2, <3>1, <3>2
  <2>4. tried' \in [Counters -> Attempts]
    <3>1. tried[c] \cup {one} \in Attempts
      BY <1>0, <1>4 DEF Attempts
    <3> QED BY <1>0, <1>3, <3>1
  <2> QED BY <1>3, <2>1, <2>2, <2>3, <2>4 DEF ThrottleInv, ThrottleTypeOK
<1>10. \A d \in Counters : tried'[d] = IF admitted /\ d = c THEN tried[c] \cup {one} ELSE tried[d]
  BY <1>0, <1>3
<1>11. admitted => one \in hits'[Answers][c]
  <2> SUFFICES ASSUME admitted PROVE one \in hits'[Answers][c]
    OBVIOUS
  <2>1. Admits(layer, hits[Answers][c])
    BY DEF admitted
  <2>2. one \in Consumed(r, layer, hits[Answers][c])
    BY <2>1 DEF Consumed, one
  <2> QED BY <1>0, <1>2, <1>5, <2>2
<1>12. \A d \in Counters : \A a \in InPeriod(tried'[d]) :
         a \in InPeriod(tried[d]) \/ (a = one /\ admitted /\ d = c)
  BY <1>10 DEF InPeriod
<1>13. ASSUME NEW d \in Counters PROVE InPeriod(tried'[d]) \subseteq Remembered(d)'
  <2> SUFFICES ASSUME NEW a \in InPeriod(tried'[d])
               PROVE  \E s \in Stores : a \in hits'[s][d]
    BY DEF Remembered, Stores
  <2>1. CASE a \in InPeriod(tried[d])
    <3>1. PICK s \in Stores : a \in hits[s][d]
      BY <2>1 DEF ThrottleInv, Remembered, Stores
    <3>2. a \in InPeriod(hits[s][d])
      BY <2>1, <3>1 DEF InPeriod
    <3> QED BY <1>7, <3>2
  <2>2. CASE a = one /\ admitted /\ d = c
    BY <1>0, <1>11, <2>2
  <2> QED BY <1>12, <2>1, <2>2
<1>14. RedisKnows'
  <2> SUFFICES ASSUME outages = 0, NEW d \in Counters
               PROVE  /\ up
                      /\ InPeriod(tried'[d]) \subseteq hits'["redis"][d]
                      /\ Clearing(d)' \/ InPeriod(hits'["redis"][d]) \subseteq tried'[d]
    <3>1. outages' = outages /\ up' = up
      BY <1>3
    <3> QED BY <1>6, <3>1, CounterFacts, <1>0 DEF RedisKnows, ThrottleInv
  <2>1. /\ up /\ stores = {"redis"} /\ Answers = "redis"
        /\ InPeriod(tried[d]) \subseteq hits["redis"][d]
        /\ Clearing(d) \/ InPeriod(hits["redis"][d]) \subseteq tried[d]
    BY <1>2 DEF ThrottleInv, RedisKnows
  <2>2. "redis" \in Stores
    BY DEF Stores
  <2>3. InPeriod(tried'[d]) \subseteq hits'["redis"][d]
    <3>1. \A a \in InPeriod(tried[d]) : a \in InPeriod(hits["redis"][d])
      BY <2>1 DEF InPeriod
    <3> QED BY <1>7, <1>11, <1>12, <2>1, <2>2, <3>1
  <2>4. Clearing(d) => Clearing(d)'
    <3>1. \A q \in Calls : Account(q)' = Account(q)
      BY <1>3 DEF Account, Counter
    <3>2. \A q \in Calls : at[q] = "clearing" => at'[q] = "clearing"
      BY <1>0, <1>3
    <3> QED BY <3>1, <3>2 DEF Clearing
  <2>5. ASSUME InPeriod(hits["redis"][d]) \subseteq tried[d]
        PROVE  InPeriod(hits'["redis"][d]) \subseteq tried'[d]
    <3> SUFFICES ASSUME NEW a \in InPeriod(hits'["redis"][d]) PROVE a \in tried'[d]
      OBVIOUS
    <3>1. CASE a \in hits["redis"][d]
      <4>1. a \in InPeriod(hits["redis"][d])
        BY <3>1 DEF InPeriod
      <4> QED BY <1>10, <2>5, <4>1
    <3>2. CASE a \notin hits["redis"][d]
      <4>1. d = c /\ a \in Consumed(r, layer, hits["redis"][c])
        BY <1>5, <2>2, <3>2 DEF InPeriod
      <4>2. a = one /\ Admits(layer, hits["redis"][c])
        BY <3>2, <4>1 DEF Consumed, InPeriod, one
      <4>3. admitted
        BY <2>1, <4>2 DEF admitted
      <4> QED BY <1>10, <4>1, <4>2, <4>3
    <3> QED BY <3>1, <3>2
  <2> QED BY <2>1, <2>3, <2>4, <2>5
<1> QED BY <1>6, <1>9, <1>13, <1>14 DEF ThrottleInv
\* Nothing but the place of a call changes, and the call is not clearing its counter.
LEMMA CallMoves ==
  ASSUME ThrottleInv, NEW r \in Calls, at[r] # "clearing",
         at' \in [Calls -> {"idle", "counted", "admitted", "right", "clearing", "done", "refused"}],
         \A q \in Calls : q # r => at'[q] = at[q],
         UNCHANGED <<call, clock, hits, up, outages, tried>>
  PROVE  ThrottleInv'
<1>1. ThrottleTypeOK'
  BY DEF ThrottleInv, ThrottleTypeOK
<1>2. \A attempts : InPeriod(attempts)' = InPeriod(attempts)
  BY DEF InPeriod
<1>3. \A d \in Counters : Clearing(d) => Clearing(d)'
  BY DEF Clearing, Account, Counter
<1> QED BY <1>1, <1>2, <1>3 DEF ThrottleInv, RedisKnows, Remembered

LEMMA SkipKeeps ==
  ASSUME ThrottleInv, NEW r \in Calls, Skip(r)
  PROVE  ThrottleInv'
<1>1. at \in [Calls -> {"idle", "counted", "admitted", "right", "clearing", "done", "refused"}]
  BY DEF ThrottleInv, ThrottleTypeOK
<1>2. /\ at[r] # "clearing" /\ at' = [at EXCEPT ![r] = "admitted"]
      /\ UNCHANGED <<call, clock, hits, up, outages, tried>>
  BY DEF Skip, MoveTo
<1> QED BY <1>1, <1>2, CallMoves

LEMMA VerifyKeeps ==
  ASSUME ThrottleInv, NEW r \in Calls, Verify(r)
  PROVE  ThrottleInv'
<1>1. at \in [Calls -> {"idle", "counted", "admitted", "right", "clearing", "done", "refused"}]
  BY DEF ThrottleInv, ThrottleTypeOK
<1>2. PICK label \in {"right", "done"} : at' = [at EXCEPT ![r] = label]
  BY DEF Verify, MoveTo
<1>3. at[r] # "clearing" /\ UNCHANGED <<call, clock, hits, up, outages, tried>>
  BY DEF Verify
<1> QED BY <1>1, <1>2, <1>3, CallMoves

\* A sign-in clears the counter of its account: what it admitted is forgotten by all,
\* and Redis, if it has answered every time, forgets it or is yet to be told.
LEMMA ClearingKeeps ==
  ASSUME ThrottleInv, NEW r \in Calls, at[r] \in {"right", "clearing"},
         NEW label \in {"clearing", "done"}, at' = [at EXCEPT ![r] = label],
         NEW stores \in SUBSET Stores, hits' = Cleared(r, stores),
         tried' = [tried EXCEPT ![Account(r)] = {}],
         UNCHANGED <<call, clock, up, outages>>,
         outages = 0 => label = "clearing" \/ "redis" \in stores
  PROVE  ThrottleInv'
<1> DEFINE c == Account(r)
<1>1. /\ ThrottleTypeOK /\ c \in Counters
      /\ hits \in [Stores -> [Counters -> Attempts]] /\ tried \in [Counters -> Attempts]
      /\ at \in [Calls -> {"idle", "counted", "admitted", "right", "clearing", "done", "refused"}]
      /\ \A s \in Stores, d \in Counters : Cardinality(hits[s][d]) <= Bound(d[1])
  BY CounterFacts DEF ThrottleInv, ThrottleTypeOK
<1>2. hits' = [s \in Stores |-> IF s \in stores THEN [hits[s] EXCEPT ![c] = {}] ELSE hits[s]]
  BY DEF Cleared
<1>3. tried' = [tried EXCEPT ![c] = {}]
  OBVIOUS
<1>4. \A q \in Calls : Account(q)' = Account(q)
  BY DEF Account, Counter
<1>5. \A attempts : InPeriod(attempts)' = InPeriod(attempts)
  BY DEF InPeriod
<1>6. Bound("account") \in Nat /\ c[1] = "account"
  BY <1>1, CounterFacts, ThrottleAssumption DEF Bound
<1>7. Account(r)' = c /\ at'[r] = label
  BY <1>1, <1>4
<1> HIDE DEF c
<1>8. \A s \in Stores, d \in Counters :
        hits'[s][d] = IF s \in stores /\ d = c THEN {} ELSE hits[s][d]
  BY <1>1, <1>2
<1>9. \A d \in Counters : tried'[d] = IF d = c THEN {} ELSE tried[d]
  BY <1>1, <1>3
<1>10. ThrottleTypeOK'
  <2>1. at' \in [Calls -> {"idle", "counted", "admitted", "right", "clearing", "done", "refused"}]
    BY <1>1
  <2>2. {} \in Attempts /\ Cardinality({}) = 0
    BY FS_EmptySet DEF Attempts
  <2>3. hits' \in [Stores -> [Counters -> Attempts]] /\ tried' \in [Counters -> Attempts]
    <3>1. \A s \in Stores : [hits[s] EXCEPT ![c] = {}] \in [Counters -> Attempts]
      BY <1>1, <2>2
    <3>2. hits' \in [Stores -> [Counters -> Attempts]]
      BY <1>1, <1>2, <3>1
    <3> QED BY <1>1, <1>3, <2>2, <3>2
  <2>4. \A s \in Stores, d \in Counters : Cardinality(hits'[s][d]) <= Bound(d[1])
    BY <1>1, <1>6, <1>8, <2>2
  <2> QED BY <1>1, <2>1, <2>3, <2>4 DEF ThrottleTypeOK
<1>11. "redis" \in Stores /\ "memory" \in Stores
  BY DEF Stores
<1>12. \A d \in Counters : InPeriod(tried'[d]) \subseteq Remembered(d)'
  <2> SUFFICES ASSUME NEW d \in Counters PROVE InPeriod(tried'[d]) \subseteq Remembered(d)'
    OBVIOUS
  <2>1. CASE d = c
    BY <1>9, <2>1 DEF InPeriod
  <2>2. CASE d # c
    BY <1>8, <1>9, <1>11, <2>2 DEF ThrottleInv, Remembered
  <2> QED BY <2>1, <2>2
<1>13. RedisKnows'
  <2> SUFFICES ASSUME outages = 0, NEW d \in Counters
               PROVE  /\ up
                      /\ InPeriod(tried'[d]) \subseteq hits'["redis"][d]
                      /\ Clearing(d)' \/ InPeriod(hits'["redis"][d]) \subseteq tried'[d]
    BY <1>5 DEF RedisKnows, ThrottleInv
  <2>1. /\ up /\ InPeriod(tried[d]) \subseteq hits["redis"][d]
        /\ Clearing(d) \/ InPeriod(hits["redis"][d]) \subseteq tried[d]
    BY DEF ThrottleInv, RedisKnows
  <2>2. CASE d = c
    <3>1. InPeriod(tried'[d]) = {}
      BY <1>9, <2>2 DEF InPeriod
    <3>2. CASE label = "clearing"
      BY <1>7, <2>1, <2>2, <3>1, <3>2 DEF Clearing
    <3>3. CASE "redis" \in stores
      <4>1. InPeriod(hits'["redis"][d]) = {}
        BY <1>8, <1>11, <2>2, <3>3 DEF InPeriod
      <4> QED BY <2>1, <3>1, <4>1
    <3> QED BY <3>2, <3>3
  <2>3. CASE d # c
    <3>1. hits'["redis"][d] = hits["redis"][d] /\ tried'[d] = tried[d]
      BY <1>8, <1>9, <1>11, <2>3
    <3>2. Clearing(d) => Clearing(d)'
      <4> SUFFICES ASSUME NEW q \in Calls, at[q] = "clearing", Account(q) = d
                   PROVE  at'[q] = "clearing" /\ Account(q)' = d
        BY DEF Clearing
      <4>1. q # r
        BY <2>3 DEF c
      <4> QED BY <1>1, <1>4, <4>1
    <3> QED BY <2>1, <3>1, <3>2
  <2> QED BY <2>2, <2>3
<1> QED BY <1>5, <1>10, <1>12, <1>13 DEF ThrottleInv

LEMMA ClearMemoryKeeps ==
  ASSUME ThrottleInv, NEW r \in Calls, ClearMemory(r)
  PROVE  ThrottleInv'
<1>1. /\ at[r] = "right" /\ at' = [at EXCEPT ![r] = "clearing"]
      /\ hits' = Cleared(r, {"memory"}) /\ tried' = [tried EXCEPT ![Account(r)] = {}]
      /\ UNCHANGED <<call, clock, up, outages>>
  BY DEF ClearMemory, MoveTo
<1>2. {"memory"} \in SUBSET Stores
  BY DEF Stores
<1> QED BY <1>1, <1>2, ClearingKeeps

LEMMA ClearRedisKeeps ==
  ASSUME ThrottleInv, NEW r \in Calls, ClearRedis(r)
  PROVE  ThrottleInv'
<1>1. PICK stores \in {{"redis"}} \cup (IF up THEN {} ELSE {{}}) : hits' = Cleared(r, stores)
  BY DEF ClearRedis
<1>2. /\ at[r] = "clearing" /\ at' = [at EXCEPT ![r] = "done"]
      /\ tried' = [tried EXCEPT ![Account(r)] = {}]
      /\ UNCHANGED <<call, clock, up, outages>>
  BY DEF ClearRedis, MoveTo
<1>3. stores \in SUBSET Stores /\ (outages = 0 => "redis" \in stores)
  BY <1>1 DEF Stores, ThrottleInv, RedisKnows
<1> QED BY <1>1, <1>2, <1>3, ClearingKeeps

\* Time only takes attempts out of the period.
LEMMA ClockTickKeeps ==
  ASSUME ThrottleInv, ClockTick
  PROVE  ThrottleInv'
<1>1. clock \in Ticks /\ clock < LastTick /\ clock' = clock + 1 /\ Period \in Nat
  BY ThrottleAssumption DEF ThrottleInv, ThrottleTypeOK, ClockTick
<1>2. UNCHANGED <<at, call, hits, up, outages, tried>>
  BY DEF ClockTick
<1>3. \A attempts \in Attempts : \A a \in InPeriod(attempts)' : a \in InPeriod(attempts)
  BY <1>1 DEF Attempts, InPeriod, Ticks
<1>4. ThrottleTypeOK'
  BY <1>1, <1>2, ThrottleAssumption DEF ThrottleInv, ThrottleTypeOK, Ticks
<1>5. \A d \in Counters : tried[d] \in Attempts /\ hits["redis"][d] \in Attempts
  BY DEF ThrottleInv, ThrottleTypeOK, Stores
<1>6. \A d \in Counters : InPeriod(tried[d])' \subseteq InPeriod(tried[d])
  BY <1>2, <1>3, <1>5 DEF InPeriod
<1>7. \A d \in Counters : InPeriod(hits["redis"][d])' \subseteq InPeriod(hits["redis"][d])
  BY <1>2, <1>3, <1>5 DEF InPeriod
<1>8. \A d \in Counters : Clearing(d)' = Clearing(d)
  BY <1>2 DEF Clearing, Account, Counter
<1>9. RedisKnows'
  <2> SUFFICES ASSUME outages = 0, NEW d \in Counters
               PROVE  /\ up
                      /\ InPeriod(tried[d])' \subseteq hits["redis"][d]
                      /\ Clearing(d) \/ InPeriod(hits["redis"][d])' \subseteq tried[d]
    BY <1>2, <1>8 DEF RedisKnows, ThrottleInv
  <2> QED BY <1>6, <1>7 DEF ThrottleInv, RedisKnows
<1>10. \A d \in Counters : InPeriod(tried[d])' \subseteq Remembered(d)'
  BY <1>2, <1>6 DEF ThrottleInv, Remembered
<1> QED BY <1>4, <1>9, <1>10 DEF ThrottleInv

\* Redis stops, or answers again: it has failed at least once by then.
LEMMA OutagesKeep ==
  ASSUME ThrottleInv, Outage \/ Recovery
  PROVE  ThrottleInv'
<1>1. UNCHANGED <<at, call, clock, hits, tried>> /\ outages' # 0
  BY DEF Outage, Recovery, ThrottleInv, ThrottleTypeOK, RedisKnows
<1>2. up' \in BOOLEAN /\ outages' \in 0 .. MaxOutages
  <2>1. outages \in 0 .. MaxOutages /\ MaxOutages \in Nat
    BY ThrottleAssumption DEF ThrottleInv, ThrottleTypeOK
  <2>2. CASE Outage
    <3>1. outages < MaxOutages /\ outages' = outages + 1
      BY <2>2 DEF Outage
    <3>2. outages' \in 0 .. MaxOutages
      BY <2>1, <3>1
    <3> QED BY <2>2, <3>2, Zenon DEF Outage
  <2>3. CASE Recovery
    BY <2>1, <2>3 DEF Recovery
  <2> QED BY <2>2, <2>3
<1>3. ThrottleTypeOK'
  BY <1>1, <1>2 DEF ThrottleInv, ThrottleTypeOK
<1>4. \A attempts : InPeriod(attempts)' = InPeriod(attempts)
  BY <1>1 DEF InPeriod
<1> QED BY <1>1, <1>3, <1>4 DEF ThrottleInv, RedisKnows, Remembered

LEMMA ThrottleKeeps == ThrottleInv /\ [ThrottleNext]_throttleVars => ThrottleInv'
<1> SUFFICES ASSUME ThrottleInv, [ThrottleNext]_throttleVars PROVE ThrottleInv'
  OBVIOUS
<1>1. ASSUME NEW r \in Calls, Act(r) PROVE ThrottleInv'
  BY <1>1, ConsumeKeeps, SkipKeeps, VerifyKeeps, ClearMemoryKeeps, ClearRedisKeeps DEF Act
<1>2. CASE UNCHANGED throttleVars
  <2>1. ThrottleTypeOK'
    BY <1>2 DEF throttleVars, ThrottleInv, ThrottleTypeOK
  <2>2. \A attempts : InPeriod(attempts)' = InPeriod(attempts)
    BY <1>2 DEF throttleVars, InPeriod
  <2>3. \A d \in Counters : Clearing(d)' = Clearing(d)
    BY <1>2 DEF throttleVars, Clearing, Account, Counter
  <2> QED BY <1>2, <2>1, <2>2, <2>3 DEF throttleVars, ThrottleInv, RedisKnows, Remembered
<1> QED BY <1>1, <1>2, ClockTickKeeps, OutagesKeep DEF ThrottleNext

\* The inductive invariant of the counters holds.
THEOREM ThrottleInvariant == ThrottleSpec => []ThrottleInv
<1> QED BY ThrottleStarts, ThrottleKeeps, PTL DEF ThrottleSpec

\* What counts has been remembered by stores that each remember no more than the bound.
LEMMA RememberedIsBounded == ThrottleInv => AttemptsBounded
<1> SUFFICES ASSUME ThrottleInv, NEW c \in Counters
             PROVE  Cardinality(InPeriod(tried[c])) <= Bound(c[1]) * (IF outages = 0 THEN 1 ELSE 2)
  BY DEF AttemptsBounded
<1> DEFINE live == InPeriod(tried[c])
           redis == hits["redis"][c]
           memory == hits["memory"][c]
<1>1. /\ tried[c] \in Attempts /\ redis \in Attempts /\ memory \in Attempts
      /\ Cardinality(redis) <= Bound(c[1]) /\ Cardinality(memory) <= Bound(c[1])
  BY DEF ThrottleInv, ThrottleTypeOK, Stores
<1>2. live \in Attempts
  BY <1>1 DEF Attempts, InPeriod
<1>3. /\ IsFiniteSet(redis) /\ IsFiniteSet(memory)
      /\ Cardinality(redis) \in Nat /\ Cardinality(memory) \in Nat /\ Cardinality(live) \in Nat
  BY <1>1, <1>2, AttemptsAreFinite
<1>4. Bound(c[1]) \in Nat
  BY ThrottleAssumption DEF Counters, Layers, Bound
<1>5. /\ live \subseteq redis \cup memory
      /\ outages = 0 => live \subseteq redis
  BY DEF ThrottleInv, RedisKnows, Remembered
<1> HIDE DEF live, redis, memory
<1>6. CASE outages = 0
  <2>1. Cardinality(live) <= Cardinality(redis)
    BY <1>3, <1>5, <1>6, FS_Subset
  <2> QED BY <1>1, <1>3, <1>4, <1>6, <2>1 DEF live
<1>7. CASE outages # 0
  <2>1. /\ IsFiniteSet(redis \cup memory)
        /\ Cardinality(redis \cup memory) =
             Cardinality(redis) + Cardinality(memory) - Cardinality(redis \cap memory)
    BY <1>3, FS_Union
  <2>2. Cardinality(redis \cap memory) \in Nat
    BY <1>3, FS_Subset, FS_CardinalityType, redis \cap memory \subseteq redis
  <2>3. Cardinality(live) <= Cardinality(redis \cup memory)
    BY <1>5, <2>1, FS_Subset
  <2>4. Cardinality(redis \cup memory) \in Nat
    BY <2>1, FS_CardinalityType
  <2> QED BY <1>1, <1>3, <1>4, <1>7, <2>1, <2>2, <2>3, <2>4 DEF live
<1> QED BY <1>6, <1>7

\* However attempts run in parallel, and whenever Redis fails, no more than the bound
\* (twice the bound once it has failed) pass a counter within a period.
THEOREM AttemptsStayBounded == ThrottleSpec => []AttemptsBounded
<1> QED BY ThrottleInvariant, RememberedIsBounded, PTL

\* A step that refuses a call refuses it at the limit.
LEMMA RefusalIsEarned ==
  ASSUME ThrottleInv, [ThrottleNext]_throttleVars,
         NEW r \in Calls, at'[r] = "refused", at[r] # "refused", outages = 0
  PROVE  LET c == Counter(r, Layer(r)) IN
         Clearing(c) \/ Cardinality(InPeriod(tried[c])) >= Bound(c[1])
<1> DEFINE c == Counter(r, Layer(r))
           redis == hits["redis"][c]
<1>1. /\ ThrottleTypeOK /\ up
      /\ at \in [Calls -> {"idle", "counted", "admitted", "right", "clearing", "done", "refused"}]
  BY DEF ThrottleInv, RedisKnows, ThrottleTypeOK
<1>2. Consume(r)
  <2>1. PICK q \in Calls : Act(q)
    BY DEF ThrottleNext, throttleVars, ClockTick, Outage, Recovery
  <2>2. q = r
    BY <1>1, <2>1 DEF Act, Consume, Skip, Verify, ClearMemory, ClearRedis, MoveTo
  <2>3. ~Skip(r) /\ ~Verify(r)
    BY <1>1 DEF Skip, Verify, MoveTo
  <2>4. ~ClearMemory(r) /\ ~ClearRedis(r)
    BY <1>1 DEF ClearMemory, ClearRedis, MoveTo
  <2> QED BY <2>1, <2>2, <2>3, <2>4 DEF Act
<1>3. ~Admits(Layer(r), redis)
  BY <1>1, <1>2 DEF Consume, MoveTo, Answers
<1>4. c \in Counters /\ c[1] = Layer(r) /\ Bound(Layer(r)) \in Nat
  BY <1>1, CounterFacts
<1>5. redis \in Attempts /\ tried[c] \in Attempts
  BY <1>1, <1>4 DEF ThrottleTypeOK, Stores
<1>6. InPeriod(redis) \in Attempts /\ InPeriod(tried[c]) \in Attempts
  BY <1>5 DEF InPeriod, Attempts
<1>7. /\ IsFiniteSet(InPeriod(tried[c]))
      /\ Cardinality(InPeriod(redis)) \in Nat /\ Cardinality(InPeriod(tried[c])) \in Nat
  BY <1>6, AttemptsAreFinite
<1>8. Cardinality(InPeriod(redis)) >= Bound(c[1])
  BY <1>3, <1>4, <1>7 DEF Admits
<1>9. Clearing(c) \/ InPeriod(redis) \subseteq tried[c]
  BY <1>4 DEF ThrottleInv, RedisKnows
<1>10. CASE InPeriod(redis) \subseteq tried[c]
  <2>1. InPeriod(redis) \subseteq InPeriod(tried[c])
    BY <1>10 DEF InPeriod
  <2>2. Cardinality(InPeriod(redis)) <= Cardinality(InPeriod(tried[c]))
    BY <1>7, <2>1, FS_Subset
  <2> QED BY <1>4, <1>7, <1>8, <2>2
<1> QED BY <1>9, <1>10

\* A refusal is earned, as long as Redis has answered: the counter has admitted as many
\* attempts as it may in the period that ends now, or is being cleared.
THEOREM RefusalsAreEarned == ThrottleSpec => RefusedOnlyAtTheLimit
<1>1. ThrottleInv /\ [ThrottleNext]_throttleVars =>
        [\A r \in Calls : at'[r] = "refused" /\ at[r] # "refused" /\ outages = 0 =>
           LET c == Counter(r, Layer(r)) IN
           Clearing(c) \/ Cardinality(InPeriod(tried[c])) >= Bound(c[1])]_throttleVars
  BY RefusalIsEarned
<1> QED BY ThrottleInvariant, <1>1, PTL DEF ThrottleSpec, RefusedOnlyAtTheLimit
=============================================================================
