--------------------------- MODULE WorkspaceProofs --------------------------
(***************************************************************************)
(* What the triggers of migration 0011 and the unlocked checks of staff.ts *)
(* guarantee, for any number of users, workspaces and requests.            *)
(*                                                                         *)
(* Nothing a request has read is locked, so nothing it has read need still *)
(* hold when it commits.  WorkspaceInv says what does hold instead: if it  *)
(* no longer does, somebody has committed that this request has not seen   *)
(* (RaceOK).  As nobody sees a request that has not committed, the two     *)
(* overlap, and that is what the properties allow.                         *)
(***************************************************************************)
EXTENDS Workspace, TLAPS

\* Somebody has committed one of kinds unseen by r, for the same user; for the same
\* membership; or for the workspace, and it is whom it belongs to.
Unseen(r, kinds) == \E q \in Done \ saw[r] : Kind(q) \in kinds /\ User(q) = User(r)
UnseenThere(r, kind) == \E q \in Done \ saw[r] :
  Kind(q) = kind /\ User(q) = User(r) /\ Tenant(q) = Tenant(r)
UnseenOwner(r) == \E q \in Done \ saw[r] :
  Kind(q) = "transfer" /\ User(q) = owner[Tenant(r)] /\ Tenant(q) = Tenant(r)

\* Requests that write the account of their user.
OnAccount(r) == Kind(r) \in {"register", "create"} \/ (Kind(r) = "invite" /\ ~found[r])
\* Requests that make a membership of their user active, past the triggers.
Joins(r) == Kind(r) = "invite" \/ (Kind(r) = "update" /\ job[r].status = "ACTIVE")
Reading(r) == pc[r] \in {"read", "written"}

\* A request is what was asked; nobody has been seen who has not committed; and
\* what is done in a workspace is done where there is one, but for its registration.
ShapeOK(r) ==
  /\ pc[r] # "idle" => job[r] \in Jobs /\ WellFormed(job[r])
  /\ saw[r] \subseteq Done
  /\ Kind(r) = "register" /\ pc[r] \in {"begun", "read", "written"} => owner[Tenant(r)] = None
  /\ Kind(r) \in {"invite", "update", "transfer"} /\ pc[r] # "idle" => owner[Tenant(r)] # None

\* Who has written the row of an account holds it, and the account is not there.
LockOK(r) == pc[r] = "written" =>
  /\ lock[Row(r)] = r
  /\ OnAccount(r) => User(r) \notin account

\* What was found stays: accounts and memberships are never deleted.
FoundOK(r) == Reading(r) =>
  /\ Kind(r) = "invite" /\ found[r] => User(r) \in account
  /\ Kind(r) \in {"grant", "revoke"} => User(r) \in account
  /\ Kind(r) = "update" => status[Membership(r)] # None

\* What was read, or seen by a trigger, still holds, or somebody has changed it unseen.
RaceOK(r) ==
  /\ pc[r] = "written" /\ Kind(r) = "grant" /\ Active(User(r)) =>
       Unseen(r, {"invite", "update"})
  /\ pc[r] = "written" /\ Joins(r) /\ operator[User(r)] = "ACTIVE" =>
       Unseen(r, {"grant"})
  /\ Reading(r) /\ Kind(r) = "update" /\ owner[Tenant(r)] = User(r) =>
       UnseenThere(r, "transfer")
  /\ Reading(r) /\ Kind(r) = "transfer" /\ status[Membership(r)] # "ACTIVE" =>
       UnseenThere(r, "update")
  /\ Reading(r) /\ Kind(r) = "transfer" /\ owner[Tenant(r)] # job[r].actor =>
       UnseenOwner(r)

RequestOK(r) == ShapeOK(r) /\ LockOK(r) /\ FoundOK(r) /\ RaceOK(r)

\* A workspace is registered by one request.
OneRegistration == \A q, r \in Requests :
  Kind(q) = "register" /\ Kind(r) = "register" /\ Tenant(q) = Tenant(r) => q = r

OperatorsOK == \A u \in Users : operator[u] # None => u \in account

WorkspaceInv ==
  /\ TypeOK
  /\ \A r \in Requests : RequestOK(r)
  /\ OneRegistration
  /\ OperatorsOK
  /\ BothOnlyByOverlap
  /\ OwnerIsActiveMember

----------------------------------------------------------------------------
\* What a request that has begun asks for.
LEMMA JobFacts ==
  ASSUME NEW r \in Requests, ShapeOK(r), pc[r] # "idle"
  PROVE  /\ job[r] \in Jobs /\ WellFormed(job[r])
         /\ Kind(r) \in Kinds /\ User(r) \in Users
         /\ Kind(r) \in {"register", "invite", "update", "transfer"} =>
              Tenant(r) \in Tenants /\ Membership(r) \in Members
         /\ Row(r) \in Rows
         /\ OnAccount(r) => Row(r) = <<"account", User(r)>>
<1>1. /\ job[r] \in Jobs /\ WellFormed(job[r])
      /\ Kind(r) \in Kinds /\ User(r) \in Users /\ Tenant(r) \in Tenants \cup {None}
  BY DEF ShapeOK, Jobs, Kind, User, Tenant
<1>2. Kind(r) \in {"register", "invite", "update", "transfer"} =>
        Tenant(r) \in Tenants /\ Membership(r) \in Members
  BY <1>1 DEF WellFormed, Kind, Tenant, Membership, Members
<1>3. Row(r) \in Rows
  BY <1>1, <1>2 DEF Row, Rows, Kinds
<1>4. OnAccount(r) => Row(r) = <<"account", User(r)>>
  BY DEF OnAccount, Row
<1> QED BY <1>1, <1>2, <1>3, <1>4

LEMMA InitHolds == Init => WorkspaceInv
<1> SUFFICES ASSUME Init PROVE WorkspaceInv
  OBVIOUS
<1> USE WorkspaceAssumption
<1>1. TypeOK
  <2>1. /\ pc \in [Requests -> {"idle", "begun", "read", "written", "done", "refused"}]
        /\ job \in [Requests -> Jobs \cup {NoJob}]
        /\ lock \in [Rows -> Holders] /\ saw \in [Requests -> SUBSET Requests]
        /\ found \in [Requests -> BOOLEAN]
    BY DEF Init, Holders
  <2>2. account \subseteq Users
    BY DEF Init, Members
  <2>3. /\ status \in [Members -> Statuses \cup {None}] /\ role \in [Members -> Roles \cup {None}]
        /\ owner \in [Tenants -> Users \cup {None}]
        /\ operator \in [Users -> {"ACTIVE", "REVOKED", None}]
    BY DEF Init, Statuses, Roles
  <2>4. ASSUME NEW m \in Members
        PROVE  (status[m] = None <=> role[m] = None) /\ (status[m] # None => m[1] \in account)
    <3>1. m[1] \in Users /\ m[2] \in Tenants
      BY DEF Members
    <3>2. status[m] # None <=> Staffed[m[2]] = m[1] \/ m \in Joined
      BY DEF Init, Statuses
    <3>3. role[m] # None <=> Staffed[m[2]] = m[1] \/ m \in Joined
      BY DEF Init, Roles
    <3>4. Staffed[m[2]] = m[1] \/ m \in Joined => m[1] \in account
      BY <3>1 DEF Init
    <3> QED BY <3>2, <3>3, <3>4
  <2> QED BY <2>1, <2>2, <2>3, <2>4 DEF TypeOK
<1>2. ASSUME NEW r \in Requests PROVE RequestOK(r)
  BY DEF Init, RequestOK, ShapeOK, LockOK, FoundOK, RaceOK, Reading, Kind, NoJob, Done
<1>3. OneRegistration
  BY DEF Init, OneRegistration, Kind, NoJob
<1>4. OperatorsOK
  BY DEF Init, OperatorsOK
<1>5. ASSUME NEW u \in Users, operator[u] = "ACTIVE" PROVE ~Active(u)
  <2>1. u \in Operators
    BY <1>5 DEF Init, Statuses
  <2>2. ASSUME NEW t \in Tenants PROVE status[<<u, t>>] # "ACTIVE"
    BY <2>1 DEF Init, Statuses, Members
  <2> QED BY <2>2 DEF Active
<1>6. BothOnlyByOverlap
  BY <1>5 DEF BothOnlyByOverlap
<1>7. OwnerIsActiveMember
  <2> SUFFICES ASSUME NEW t \in Tenants, owner[t] # None PROVE status[<<owner[t], t>>] = "ACTIVE"
    BY DEF OwnerIsActiveMember
  <2>1. <<Staffed[t], t>> \in Members /\ owner[t] = Staffed[t]
    BY DEF Init, Members
  <2> QED BY <2>1 DEF Init
<1> QED BY <1>1, <1>2, <1>3, <1>4, <1>6, <1>7 DEF WorkspaceInv

----------------------------------------------------------------------------
(* What a step of request r may do. *)
OthersStay(r) == \A q \in Requests \ {r} :
  pc'[q] = pc[q] /\ job'[q] = job[q] /\ saw'[q] = saw[q] /\ found'[q] = found[q]
OwnStep(r) ==
  /\ pc[r] \notin {"done", "refused"}
  /\ pc'[r] = "done" => pc[r] = "written" /\ job'[r] = job[r] /\ saw'[r] = saw[r]
AccountEffect(r) ==
  /\ account \subseteq account'
  /\ \A u \in account' \ account : pc[r] = "written" /\ OnAccount(r) /\ u = User(r)
StatusEffect(r) ==
  /\ \A m \in Members : status'[m] # status[m] =>
       /\ pc'[r] = "done" /\ m = Membership(r) /\ status'[m] # None
       /\ IF status'[m] = "ACTIVE" THEN Kind(r) = "register" \/ Joins(r) ELSE Kind(r) = "update"
  /\ pc'[r] = "done" /\ Kind(r) = "register" => status'[Membership(r)] = "ACTIVE"
OwnerEffect(r) == \A t \in Tenants : owner'[t] # owner[t] =>
  /\ pc'[r] = "done" /\ Kind(r) \in {"register", "transfer"}
  /\ t = Tenant(r) /\ owner'[t] = User(r)
OperatorEffect(r) == \A u \in Users : operator'[u] # operator[u] =>
  /\ pc'[r] = "done" /\ u = User(r)
  /\ Kind(r) \in {"grant", "revoke"} /\ (operator'[u] = "ACTIVE" => Kind(r) = "grant")
LockEffect(r) == \A x \in Rows, q \in Requests \ {r} : lock[x] = q => lock'[x] = q
Effects(r) ==
  /\ OthersStay(r) /\ OwnStep(r) /\ AccountEffect(r) /\ StatusEffect(r)
  /\ OwnerEffect(r) /\ OperatorEffect(r) /\ LockEffect(r)

LEMMA QuietEffects ==
  ASSUME TypeOK, NEW r \in Requests, OthersStay(r), pc[r] \notin {"done", "refused"},
         pc'[r] # "done", UNCHANGED <<account, status, owner, operator>>, LockEffect(r)
  PROVE  Effects(r)
  BY DEF Effects, OwnStep, AccountEffect, StatusEffect, OwnerEffect, OperatorEffect

LEMMA CommitFacts ==
  ASSUME TypeOK, NEW r \in Requests, End(r)
  PROVE  OthersStay(r) /\ OwnStep(r) /\ LockEffect(r) /\ pc[r] = "written" /\ pc'[r] = "done"
<1>1. pc \in [Requests -> {"idle", "begun", "read", "written", "done", "refused"}]
      /\ lock \in [Rows -> Holders]
  BY DEF TypeOK
<1>2. pc' = [pc EXCEPT ![r] = "done"] /\ pc[r] = "written" /\ lock' = Released(r)
      /\ UNCHANGED <<job, saw, found>>
  BY DEF End
<1>3. OthersStay(r) /\ OwnStep(r) /\ pc'[r] = "done"
  BY <1>1, <1>2 DEF OthersStay, OwnStep
<1>4. LockEffect(r)
  BY <1>2 DEF LockEffect, Released
<1> QED BY <1>2, <1>3, <1>4

LEMMA StepEffects ==
  ASSUME TypeOK, NEW r \in Requests, RequestOK(r), Start(r) \/ Work(r)
  PROVE  Effects(r)
<1>1. /\ pc \in [Requests -> {"idle", "begun", "read", "written", "done", "refused"}]
      /\ job \in [Requests -> Jobs \cup {NoJob}]
      /\ account \subseteq Users
      /\ status \in [Members -> Statuses \cup {None}]
      /\ owner \in [Tenants -> Users \cup {None}]
      /\ operator \in [Users -> {"ACTIVE", "REVOKED", None}]
      /\ lock \in [Rows -> Holders]
      /\ saw \in [Requests -> SUBSET Requests]
      /\ found \in [Requests -> BOOLEAN]
  BY DEF TypeOK
<1>2. CASE Start(r)
  <2>1. PICK j \in Asks : Begin(r, j)
    BY <1>2 DEF Start
  <2> QED BY <1>1, <2>1, QuietEffects DEF Begin, OthersStay, LockEffect
<1>3. CASE Read(r)
  BY <1>1, <1>3, QuietEffects DEF Read, OthersStay, LockEffect
<1>4. CASE Refuse(r)
  BY <1>1, <1>4, QuietEffects DEF Refuse, OthersStay, LockEffect
<1>5. CASE Fail(r)
  BY <1>1, <1>5, QuietEffects DEF Fail, OthersStay, LockEffect
<1>6. CASE Write(r)
  <2>1. LockEffect(r)
    BY <1>1, <1>6, WorkspaceAssumption DEF Write, LockEffect
  <2> QED BY <1>1, <1>6, <2>1, QuietEffects DEF Write, OthersStay
<1>7. ASSUME pc[r] = "written"
      PROVE  Kind(r) \in {"register", "invite", "update", "transfer"} =>
               Membership(r) \in Members /\ Tenant(r) \in Tenants
  BY <1>7, JobFacts DEF RequestOK
<1>8. ASSUME pc[r] = "written" PROVE User(r) \in Users /\ job[r] \in Jobs /\ WellFormed(job[r])
  BY <1>8, JobFacts DEF RequestOK
<1>9. CASE Register(r)
  <2>1. OthersStay(r) /\ OwnStep(r) /\ LockEffect(r) /\ pc[r] = "written" /\ pc'[r] = "done"
    BY <1>9, CommitFacts DEF Register
  <2>2. AccountEffect(r)
    BY <1>9, <2>1 DEF Register, AccountEffect, OnAccount
  <2>3. StatusEffect(r)
    BY <1>1, <1>7, <1>9, <2>1, WorkspaceAssumption DEF Register, StatusEffect, Statuses
  <2>4. OwnerEffect(r) /\ OperatorEffect(r)
    BY <1>1, <1>9, <2>1 DEF Register, OwnerEffect, OperatorEffect
  <2> QED BY <2>1, <2>2, <2>3, <2>4 DEF Effects
<1>10. CASE InviteStaff(r)
  <2>1. OthersStay(r) /\ OwnStep(r) /\ LockEffect(r) /\ pc[r] = "written" /\ pc'[r] = "done"
    BY <1>10, CommitFacts DEF InviteStaff
  <2>2. AccountEffect(r)
    BY <1>1, <1>10, <2>1 DEF InviteStaff, AccountEffect, OnAccount, RequestOK, FoundOK, Reading
  <2>3. StatusEffect(r)
    BY <1>1, <1>7, <1>10, <2>1, WorkspaceAssumption
    DEF InviteStaff, StatusEffect, Statuses, Joins
  <2>4. OwnerEffect(r) /\ OperatorEffect(r)
    BY <1>10 DEF InviteStaff, OwnerEffect, OperatorEffect
  <2> QED BY <2>1, <2>2, <2>3, <2>4 DEF Effects
<1>11. CASE UpdateMembership(r)
  <2>1. OthersStay(r) /\ OwnStep(r) /\ LockEffect(r) /\ pc[r] = "written" /\ pc'[r] = "done"
    BY <1>11, CommitFacts DEF UpdateMembership
  <2>2. StatusEffect(r)
    BY <1>1, <1>7, <1>8, <1>11, <2>1, WorkspaceAssumption
    DEF UpdateMembership, StatusEffect, Joins, Jobs
  <2>3. AccountEffect(r) /\ OwnerEffect(r) /\ OperatorEffect(r)
    BY <1>11 DEF UpdateMembership, AccountEffect, OwnerEffect, OperatorEffect
  <2> QED BY <2>1, <2>2, <2>3 DEF Effects
<1>12. CASE TransferOwnership(r)
  <2>1. OthersStay(r) /\ OwnStep(r) /\ LockEffect(r) /\ pc[r] = "written" /\ pc'[r] = "done"
    BY <1>12, CommitFacts DEF TransferOwnership
  <2>2. OwnerEffect(r)
    BY <1>1, <1>12, <2>1 DEF TransferOwnership, OwnerEffect
  <2>3. AccountEffect(r) /\ StatusEffect(r) /\ OperatorEffect(r)
    BY <1>12 DEF TransferOwnership, AccountEffect, StatusEffect, OperatorEffect
  <2> QED BY <2>1, <2>2, <2>3 DEF Effects
<1>13. CASE CreateOperatorAccount(r)
  <2>1. OthersStay(r) /\ OwnStep(r) /\ LockEffect(r)
    BY <1>1, <1>13 DEF CreateOperatorAccount, OthersStay, OwnStep, LockEffect, Released
  <2>2. AccountEffect(r)
    BY <1>13 DEF CreateOperatorAccount, AccountEffect, OnAccount
  <2>3. StatusEffect(r) /\ OwnerEffect(r) /\ OperatorEffect(r)
    BY <1>1, <1>13 DEF CreateOperatorAccount, StatusEffect, OwnerEffect, OperatorEffect
  <2> QED BY <2>1, <2>2, <2>3 DEF Effects
<1>14. CASE GrantOperator(r)
  <2>1. OthersStay(r) /\ OwnStep(r) /\ LockEffect(r) /\ pc[r] = "written" /\ pc'[r] = "done"
    BY <1>14, CommitFacts DEF GrantOperator
  <2>2. OperatorEffect(r)
    BY <1>1, <1>14, <2>1, WorkspaceAssumption DEF GrantOperator, OperatorEffect, Statuses
  <2>3. AccountEffect(r) /\ StatusEffect(r) /\ OwnerEffect(r)
    BY <1>14 DEF GrantOperator, AccountEffect, StatusEffect, OwnerEffect
  <2> QED BY <2>1, <2>2, <2>3 DEF Effects
<1>15. CASE RevokeOperator(r)
  <2>1. OthersStay(r) /\ OwnStep(r) /\ LockEffect(r) /\ pc[r] = "written" /\ pc'[r] = "done"
    BY <1>15, CommitFacts DEF RevokeOperator
  <2>2. OperatorEffect(r)
    BY <1>1, <1>15, <2>1, WorkspaceAssumption DEF RevokeOperator, OperatorEffect
  <2>3. AccountEffect(r) /\ StatusEffect(r) /\ OwnerEffect(r)
    BY <1>15 DEF RevokeOperator, AccountEffect, StatusEffect, OwnerEffect
  <2> QED BY <2>1, <2>2, <2>3 DEF Effects
<1> QED BY <1>2, <1>3, <1>4, <1>5, <1>6, <1>9, <1>10, <1>11, <1>12, <1>13, <1>14, <1>15
    DEF Work, Commit

----------------------------------------------------------------------------
(* What a step leaves to the other requests. *)

\* Who has committed stays committed, and whom a request has not seen it never sees.
LEMMA DonePersists ==
  ASSUME TypeOK, NEW r \in Requests, Effects(r)
  PROVE  /\ r \notin Done
         /\ \A q \in Done : q \in Done' /\ job'[q] = job[q] /\ saw'[q] = saw[q]
<1>1. r \notin Done
  BY DEF Effects, OwnStep, Done
<1> QED BY <1>1 DEF Effects, OthersStay, Done

LEMMA UnseenPersists ==
  ASSUME TypeOK, NEW r \in Requests, Effects(r),
         NEW q \in Requests, job'[q] = job[q], saw'[q] = saw[q]
  PROVE  /\ \A kinds : Unseen(q, kinds) => Unseen(q, kinds)'
         /\ \A kind : UnseenThere(q, kind) => UnseenThere(q, kind)'
         /\ owner'[Tenant(q)] = owner[Tenant(q)] /\ UnseenOwner(q) => UnseenOwner(q)'
<1>1. \A x \in Done \ saw[q] : x \in (Done \ saw[q])' /\ job'[x] = job[x]
  BY DonePersists
<1> QED BY <1>1 DEF Unseen, UnseenThere, UnseenOwner, Kind, User, Tenant

\* A request that commits is among the done, unseen by everybody.
LEMMA NewlyDone ==
  ASSUME TypeOK, NEW r \in Requests, Effects(r), pc'[r] = "done",
         NEW q \in Requests, saw[q] \subseteq Done, saw'[q] = saw[q]
  PROVE  /\ r \in (Done \ saw[q])' /\ r \notin saw[q]
         /\ Kind(r)' = Kind(r) /\ User(r)' = User(r) /\ Tenant(r)' = Tenant(r)
         /\ pc[r] = "written" /\ saw'[r] = saw[r]
<1>1. job'[r] = job[r] /\ saw'[r] = saw[r] /\ pc[r] = "written"
  BY DEF Effects, OwnStep
<1>2. r \in Done' /\ r \notin Done
  BY <1>1 DEF Done
<1> QED BY <1>1, <1>2 DEF Kind, User, Tenant

LEMMA OwnerStaysSet ==
  ASSUME TypeOK, NEW r \in Requests, Effects(r), RequestOK(r), NEW t \in Tenants, owner[t] # None
  PROVE  owner'[t] # None
<1>1. CASE owner'[t] # owner[t]
  <2>1. owner'[t] = User(r) /\ pc[r] = "written"
    BY <1>1 DEF Effects, OwnerEffect, OwnStep
  <2>2. User(r) \in Users
    BY <2>1, JobFacts DEF RequestOK
  <2> QED BY <2>1, <2>2, WorkspaceAssumption
<1> QED BY <1>1

LEMMA OthersShape ==
  ASSUME TypeOK, OneRegistration, NEW r \in Requests, RequestOK(r), Effects(r),
         NEW q \in Requests \ {r}, ShapeOK(q)
  PROVE  ShapeOK(q)'
<1>1. pc'[q] = pc[q] /\ job'[q] = job[q] /\ saw'[q] = saw[q]
  BY DEF Effects, OthersStay
<1>2. Kind(q)' = Kind(q) /\ Tenant(q)' = Tenant(q)
  BY <1>1 DEF Kind, Tenant
<1>3. saw[q] \subseteq Done'
  BY DonePersists DEF ShapeOK
<1>4. ASSUME pc[q] # "idle", Kind(q) \in {"register", "invite", "update", "transfer"}
      PROVE  Tenant(q) \in Tenants
  BY <1>4, JobFacts
<1>5. ASSUME Kind(q) = "register", pc[q] \in {"begun", "read", "written"},
             owner'[Tenant(q)] # None
      PROVE  FALSE
  <2>1. owner[Tenant(q)] = None /\ Tenant(q) \in Tenants
    BY <1>4, <1>5 DEF ShapeOK
  <2>2. Kind(r) \in {"register", "transfer"} /\ Tenant(r) = Tenant(q)
    BY <1>5, <2>1 DEF Effects, OwnerEffect
  <2>3. Kind(r) = "register"
    BY <1>5, <2>1, <2>2 DEF Effects, OwnerEffect, OwnStep, RequestOK, ShapeOK
  <2> QED BY <1>5, <2>2, <2>3 DEF OneRegistration
<1>6. ASSUME Kind(q) \in {"invite", "update", "transfer"}, pc[q] # "idle"
      PROVE  owner'[Tenant(q)] # None
  <2>1. owner[Tenant(q)] # None /\ Tenant(q) \in Tenants
    BY <1>4, <1>6 DEF ShapeOK
  <2> QED BY <2>1, OwnerStaysSet
<1> QED BY <1>1, <1>2, <1>3, <1>5, <1>6 DEF ShapeOK

LEMMA OthersLock ==
  ASSUME TypeOK, NEW r \in Requests, RequestOK(r), Effects(r),
         NEW q \in Requests \ {r}, RequestOK(q)
  PROVE  LockOK(q)' /\ FoundOK(q)'
<1>1. pc'[q] = pc[q] /\ job'[q] = job[q] /\ found'[q] = found[q]
  BY DEF Effects, OthersStay
<1>2. /\ Kind(q)' = Kind(q) /\ User(q)' = User(q) /\ Membership(q)' = Membership(q)
      /\ (OnAccount(q) <=> OnAccount(q)') /\ (Reading(q) <=> Reading(q)') /\ Row(q)' = Row(q)
  BY <1>1 DEF Kind, User, Tenant, Membership, OnAccount, Reading, Row
<1>3. ASSUME pc[q] = "written" PROVE lock'[Row(q)] = q
  BY <1>3, JobFacts DEF RequestOK, LockOK, Effects, LockEffect
<1>4. ASSUME pc[q] = "written", OnAccount(q), User(q) \in account'
      PROVE  FALSE
  <2>1. User(q) \notin account /\ lock[Row(q)] = q /\ Row(q) = <<"account", User(q)>>
    BY <1>4, JobFacts DEF RequestOK, LockOK
  <2>2. pc[r] = "written" /\ OnAccount(r) /\ User(q) = User(r)
    BY <1>4, <2>1 DEF Effects, AccountEffect
  <2>3. lock[Row(r)] = r /\ Row(r) = <<"account", User(r)>>
    BY <2>2, JobFacts DEF RequestOK, LockOK
  <2> QED BY <2>1, <2>2, <2>3
<1>5. LockOK(q)'
  BY <1>1, <1>2, <1>3, <1>4 DEF LockOK
<1>6. account \subseteq account'
  BY DEF Effects, AccountEffect
<1>7. ASSUME Reading(q), Kind(q) = "update" PROVE status'[Membership(q)] # None
  <2>1. status[Membership(q)] # None /\ Membership(q) \in Members
    BY <1>7, JobFacts DEF RequestOK, FoundOK, Reading
  <2> QED BY <2>1 DEF Effects, StatusEffect
<1>8. FoundOK(q)'
  BY <1>1, <1>2, <1>6, <1>7 DEF FoundOK, RequestOK
<1> QED BY <1>5, <1>8

\* What was read or seen by a trigger may change, but only by a request that is then
\* among the unseen.
LEMMA OthersRace ==
  ASSUME TypeOK, NEW r \in Requests, RequestOK(r), Effects(r),
         NEW q \in Requests \ {r}, RequestOK(q)
  PROVE  RaceOK(q)'
<1>1. pc'[q] = pc[q] /\ job'[q] = job[q] /\ saw'[q] = saw[q] /\ saw[q] \subseteq Done
  BY DEF Effects, OthersStay, RequestOK, ShapeOK
<1>2. /\ Kind(q)' = Kind(q) /\ User(q)' = User(q) /\ Tenant(q)' = Tenant(q)
      /\ Membership(q)' = Membership(q)
      /\ (Joins(q) <=> Joins(q)') /\ (Reading(q) <=> Reading(q)')
  BY <1>1 DEF Kind, User, Tenant, Membership, Joins, Reading
<1>3. ASSUME pc[q] = "written", Kind(q) = "grant", Active(User(q))'
      PROVE  Unseen(q, {"invite", "update"})'
  <2>1. CASE Active(User(q))
    BY <1>1, <1>3, <2>1, UnseenPersists DEF RequestOK, RaceOK
  <2>2. CASE ~Active(User(q))
    <3>1. PICK t \in Tenants : status'[<<User(q), t>>] = "ACTIVE"
      BY <1>2, <1>3 DEF Active
    <3>2. status[<<User(q), t>>] # "ACTIVE"
      BY <2>2 DEF Active
    <3>3. <<User(q), t>> \in Members /\ User(q) \in account
      BY <1>3, JobFacts DEF RequestOK, FoundOK, Reading, Members
    <3>4. /\ pc'[r] = "done" /\ <<User(q), t>> = Membership(r)
          /\ Kind(r) = "register" \/ Joins(r)
      BY <3>1, <3>2, <3>3 DEF Effects, StatusEffect
    <3>5. User(q) = User(r) /\ pc[r] = "written"
      BY <3>4 DEF Membership, Effects, OwnStep
    <3>6. Kind(r) \in {"invite", "update"}
      BY <3>3, <3>4, <3>5 DEF RequestOK, LockOK, OnAccount, Joins
    <3> QED BY <1>1, <1>2, <3>4, <3>5, <3>6, NewlyDone DEF Unseen
  <2> QED BY <2>1, <2>2
<1>4. ASSUME pc[q] = "written", Joins(q), operator'[User(q)] = "ACTIVE"
      PROVE  Unseen(q, {"grant"})'
  <2>1. CASE operator[User(q)] = "ACTIVE"
    BY <1>1, <1>4, <2>1, UnseenPersists DEF RequestOK, RaceOK
  <2>2. CASE operator[User(q)] # "ACTIVE"
    <3>1. User(q) \in Users
      BY <1>4, JobFacts DEF RequestOK
    <3>2. pc'[r] = "done" /\ User(q) = User(r) /\ Kind(r) = "grant"
      BY <1>4, <2>2, <3>1 DEF Effects, OperatorEffect
    <3> QED BY <1>1, <1>2, <3>2, NewlyDone DEF Unseen
  <2> QED BY <2>1, <2>2
<1>5. ASSUME Reading(q), Kind(q) \in {"update", "transfer"}
      PROVE  /\ Tenant(q) \in Tenants /\ Membership(q) \in Members
             /\ owner'[Tenant(q)] # owner[Tenant(q)] =>
                  /\ pc'[r] = "done" /\ Kind(r) = "transfer"
                  /\ Tenant(r) = Tenant(q) /\ owner'[Tenant(q)] = User(r)
  <2>1. Tenant(q) \in Tenants /\ Membership(q) \in Members /\ owner[Tenant(q)] # None
    BY <1>5, JobFacts DEF RequestOK, ShapeOK, Reading
  <2>2. ASSUME owner'[Tenant(q)] # owner[Tenant(q)]
        PROVE  /\ pc'[r] = "done" /\ Kind(r) = "transfer"
               /\ Tenant(r) = Tenant(q) /\ owner'[Tenant(q)] = User(r)
    <3>1. /\ pc'[r] = "done" /\ Kind(r) \in {"register", "transfer"}
          /\ Tenant(q) = Tenant(r) /\ owner'[Tenant(q)] = User(r)
      BY <2>1, <2>2 DEF Effects, OwnerEffect
    <3>2. Kind(r) = "transfer"
      BY <2>1, <3>1 DEF Effects, OwnStep, RequestOK, ShapeOK
    <3> QED BY <3>1, <3>2
  <2> QED BY <2>1, <2>2
<1>6. ASSUME Reading(q), Kind(q) = "update", owner'[Tenant(q)] = User(q)
      PROVE  UnseenThere(q, "transfer")'
  <2>1. CASE owner'[Tenant(q)] = owner[Tenant(q)]
    BY <1>1, <1>6, <2>1, UnseenPersists DEF RequestOK, RaceOK
  <2>2. CASE owner'[Tenant(q)] # owner[Tenant(q)]
    BY <1>1, <1>2, <1>5, <1>6, <2>2, NewlyDone DEF UnseenThere
  <2> QED BY <2>1, <2>2
<1>7. ASSUME Reading(q), Kind(q) = "transfer", status'[Membership(q)] # "ACTIVE"
      PROVE  UnseenThere(q, "update")'
  <2>1. CASE status'[Membership(q)] = status[Membership(q)]
    BY <1>1, <1>7, <2>1, UnseenPersists DEF RequestOK, RaceOK
  <2>2. CASE status'[Membership(q)] # status[Membership(q)]
    <3>1. pc'[r] = "done" /\ Membership(q) = Membership(r) /\ Kind(r) = "update"
      BY <1>5, <1>7, <2>2 DEF Effects, StatusEffect
    <3>2. User(q) = User(r) /\ Tenant(q) = Tenant(r)
      BY <3>1 DEF Membership
    <3> QED BY <1>1, <1>2, <3>1, <3>2, NewlyDone DEF UnseenThere
  <2> QED BY <2>1, <2>2
<1>8. ASSUME Reading(q), Kind(q) = "transfer", owner'[Tenant(q)] # job[q].actor
      PROVE  UnseenOwner(q)'
  <2>1. CASE owner'[Tenant(q)] = owner[Tenant(q)]
    BY <1>1, <1>8, <2>1, UnseenPersists DEF RequestOK, RaceOK
  <2>2. CASE owner'[Tenant(q)] # owner[Tenant(q)]
    BY <1>1, <1>2, <1>5, <1>8, <2>2, NewlyDone DEF UnseenOwner
  <2> QED BY <2>1, <2>2
<1> QED BY <1>1, <1>2, <1>3, <1>4, <1>6, <1>7, <1>8 DEF RaceOK

----------------------------------------------------------------------------
(* What a step leaves to the request itself. *)

LEMMA BeginSelf ==
  ASSUME TypeOK, NEW r \in Requests, ShapeOK(r), NEW j \in Asks, Begin(r, j)
  PROVE  RequestOK(r)'
<1>1. pc'[r] = "begun" /\ job'[r] = j /\ saw'[r] = saw[r] /\ owner' = owner
  BY DEF TypeOK, Begin
<1>2. j \in Jobs /\ WellFormed(j)
  BY WorkspaceAssumption
<1>3. Kind(r)' = j.kind /\ Tenant(r)' = j.tenant
  BY <1>1 DEF Kind, Tenant
<1>4. j.kind = "register" => owner[j.tenant] = None
  BY DEF Begin, Allowed
<1>5. j.kind \in {"invite", "update", "transfer"} => owner[j.tenant] # None
  BY DEF Begin, Allowed, MayManage, InContext
<1>6. Done \subseteq Done'
  BY DEF Begin, Done, TypeOK
<1>7. ShapeOK(r)'
  BY <1>1, <1>2, <1>3, <1>4, <1>5, <1>6 DEF ShapeOK
<1> QED BY <1>1, <1>7 DEF RequestOK, LockOK, FoundOK, RaceOK, Reading

LEMMA ReadSelf ==
  ASSUME TypeOK, OperatorsOK, NEW r \in Requests, ShapeOK(r), Read(r)
  PROVE  RequestOK(r)'
<1>1. /\ pc[r] = "begun" /\ pc'[r] = "read" /\ job' = job /\ saw'[r] = Done
      /\ UNCHANGED <<account, status, owner, operator>>
      /\ found'[r] = IF Kind(r) = "grant" THEN operator[User(r)] # None ELSE User(r) \in account
  BY DEF TypeOK, Read
<1>2. /\ Kind(r)' = Kind(r) /\ User(r)' = User(r) /\ Tenant(r)' = Tenant(r)
      /\ Membership(r)' = Membership(r)
  BY <1>1 DEF Kind, User, Tenant, Membership
<1>3. Done \subseteq Done'
  BY DEF Read, Done, TypeOK
<1>4. ShapeOK(r)'
  BY <1>1, <1>2, <1>3 DEF ShapeOK
<1>5. FoundOK(r)'
  <2>1. Kind(r) = "update" => status[Membership(r)] # None
    BY DEF Read, Found
  <2>2. Kind(r) = "grant" => User(r) \in account
    BY DEF Read, Found
  <2>3. Kind(r) = "revoke" => User(r) \in account
    <3>1. User(r) \in Users
      BY <1>1, JobFacts
    <3>2. Kind(r) = "revoke" => operator[User(r)] = "ACTIVE"
      BY DEF Read, Found
    <3> QED BY <3>1, <3>2, WorkspaceAssumption DEF OperatorsOK, Statuses
  <2> QED BY <1>1, <1>2, <2>1, <2>2, <2>3 DEF FoundOK
<1>6. RaceOK(r)'
  <2>1. Kind(r) = "update" => owner[Tenant(r)] # User(r)
    BY DEF Read, Found
  <2>2. Kind(r) = "transfer" => owner[Tenant(r)] = job[r].actor /\ status[Membership(r)] = "ACTIVE"
    BY DEF Read, Found
  <2> QED BY <1>1, <1>2, <2>1, <2>2 DEF RaceOK
<1> QED BY <1>1, <1>4, <1>5, <1>6 DEF RequestOK, LockOK

LEMMA WriteSelf ==
  ASSUME TypeOK, NEW r \in Requests, RequestOK(r), Write(r), Effects(r)
  PROVE  RequestOK(r)'
<1>1. /\ pc[r] = "read" /\ pc'[r] = "written" /\ job' = job /\ saw' = saw /\ found' = found
      /\ UNCHANGED <<account, status, owner, operator>>
  BY DEF TypeOK, Write
<1>2. /\ Kind(r)' = Kind(r) /\ User(r)' = User(r) /\ Tenant(r)' = Tenant(r)
      /\ Membership(r)' = Membership(r) /\ Row(r)' = Row(r)
      /\ (OnAccount(r)' <=> OnAccount(r)) /\ (Joins(r)' <=> Joins(r))
      /\ (Active(User(r))' <=> Active(User(r)))
  BY <1>1 DEF Kind, User, Tenant, Membership, Row, OnAccount, Joins, Active
<1>3. Done \subseteq Done'
  BY DonePersists
<1>4. ShapeOK(r)'
  BY <1>1, <1>2, <1>3 DEF RequestOK, ShapeOK
<1>5. LockOK(r)'
  <2>1. lock'[Row(r)] = r
    BY <1>1, JobFacts DEF RequestOK, Write, TypeOK
  <2>2. OnAccount(r) => User(r) \notin account
    BY DEF Write, Taken, OnAccount
  <2> QED BY <1>1, <1>2, <2>1, <2>2 DEF LockOK
<1>6. FoundOK(r)'
  BY <1>1, <1>2 DEF RequestOK, FoundOK, Reading
<1>7. RaceOK(r)'
  <2>1. Kind(r) = "grant" => ~Active(User(r))
    BY DEF Write, Trigger
  <2>2. Joins(r) => operator[User(r)] # "ACTIVE"
    BY DEF Write, Trigger, Joins
  <2>3. Reading(r)
    BY <1>1 DEF Reading
  <2>4. /\ \A kind : UnseenThere(r, kind) => UnseenThere(r, kind)'
        /\ UnseenOwner(r) => UnseenOwner(r)'
    BY <1>1, UnseenPersists
  <2>5. /\ Kind(r) = "update" /\ owner[Tenant(r)] = User(r) => UnseenThere(r, "transfer")
        /\ Kind(r) = "transfer" /\ status[Membership(r)] # "ACTIVE" => UnseenThere(r, "update")
        /\ Kind(r) = "transfer" /\ owner[Tenant(r)] # job[r].actor => UnseenOwner(r)
    BY <2>3 DEF RequestOK, RaceOK
  <2> QED BY <1>1, <1>2, <2>1, <2>2, <2>4, <2>5 DEF RaceOK
<1> QED BY <1>4, <1>5, <1>6, <1>7 DEF RequestOK

\* Once a request has ended only its shape matters.
LEMMA EndedSelf ==
  ASSUME TypeOK, NEW r \in Requests, RequestOK(r), Effects(r),
         pc[r] # "idle", pc'[r] \in {"done", "refused"}, job'[r] = job[r], saw'[r] = saw[r]
  PROVE  RequestOK(r)'
<1>1. Kind(r)' = Kind(r) /\ Tenant(r)' = Tenant(r) /\ Done \subseteq Done'
  BY DonePersists DEF Kind, Tenant
<1>2. ASSUME Kind(r) \in {"invite", "update", "transfer"} PROVE owner'[Tenant(r)] # None
  <2>1. Tenant(r) \in Tenants /\ owner[Tenant(r)] # None
    BY <1>2, JobFacts DEF RequestOK, ShapeOK
  <2> QED BY <2>1, OwnerStaysSet
<1>3. ShapeOK(r)'
  BY <1>1, <1>2 DEF RequestOK, ShapeOK
<1> QED BY <1>3 DEF RequestOK, LockOK, FoundOK, RaceOK, Reading

LEMMA CreateSelf ==
  ASSUME TypeOK, NEW r \in Requests, RequestOK(r), CreateOperatorAccount(r), Effects(r)
  PROVE  RequestOK(r)'
<1>1. /\ pc[r] = "written" /\ pc'[r] = "begun" /\ job'[r] = [job[r] EXCEPT !.kind = "grant"]
      /\ saw' = saw /\ Kind(r) = "create"
  BY DEF TypeOK, CreateOperatorAccount
<1>2. job[r] \in Jobs /\ WellFormed(job[r])
  BY <1>1 DEF RequestOK, ShapeOK
<1>3. job'[r] \in Jobs /\ WellFormed(job'[r]) /\ Kind(r)' = "grant"
  BY <1>1, <1>2 DEF Jobs, Kinds, WellFormed, Kind
<1>4. Done \subseteq Done'
  BY DonePersists
<1>5. ShapeOK(r)'
  BY <1>1, <1>3, <1>4 DEF RequestOK, ShapeOK
<1> QED BY <1>1, <1>5 DEF RequestOK, LockOK, FoundOK, RaceOK, Reading

LEMMA Self ==
  ASSUME TypeOK, OperatorsOK, NEW r \in Requests, RequestOK(r), Effects(r), Start(r) \/ Work(r)
  PROVE  RequestOK(r)'
<1>1. CASE Start(r)
  BY <1>1, BeginSelf DEF Start, RequestOK
<1>2. CASE Read(r)
  BY <1>2, ReadSelf DEF RequestOK
<1>3. CASE Write(r)
  BY <1>3, WriteSelf
<1>4. CASE CreateOperatorAccount(r)
  BY <1>4, CreateSelf
<1>5. CASE Refuse(r) \/ Fail(r)
  BY <1>5, EndedSelf DEF Refuse, Fail, TypeOK
<1>6. CASE End(r)
  <2>1. pc[r] = "written" /\ pc'[r] = "done" /\ job' = job /\ saw' = saw
    BY <1>6 DEF End, TypeOK
  <2> QED BY <2>1, EndedSelf
<1> QED BY <1>1, <1>2, <1>3, <1>4, <1>5, <1>6
    DEF Work, Commit, Register, InviteStaff, UpdateMembership, TransferOwnership,
        GrantOperator, RevokeOperator

----------------------------------------------------------------------------
(* What a step leaves to the workspaces and operators. *)

\* A registration is the only one of its workspace.
LEMMA OneRegistrationStep ==
  ASSUME TypeOK, OneRegistration, NEW r \in Requests, Start(r) \/ Work(r)
  PROVE  OneRegistration'
<1>1. CASE Start(r)
  <2>1. PICK j \in Asks : Begin(r, j)
    BY <1>1 DEF Start
  <2>2. job' = [job EXCEPT ![r] = j] /\ job \in [Requests -> Jobs \cup {NoJob}]
    BY <2>1 DEF Begin, TypeOK
  <2>3. j.kind = "register" => Fresh(j.tenant)
    BY <2>1 DEF Begin, Allowed
  <2> QED BY <2>2, <2>3 DEF OneRegistration, Fresh, Kind, Tenant
<1>2. CASE job' = job
  BY <1>2 DEF OneRegistration, Kind, Tenant
<1>3. CASE CreateOperatorAccount(r)
  <2>1. job' = [job EXCEPT ![r].kind = "grant"] /\ job \in [Requests -> Jobs \cup {NoJob}]
    BY <1>3 DEF CreateOperatorAccount, TypeOK
  <2>2. Kind(r)' = "grant" /\ \A q \in Requests \ {r} : Kind(q)' = Kind(q) /\ Tenant(q)' = Tenant(q)
    BY <2>1 DEF Kind, Tenant, Jobs, NoJob
  <2> QED BY <2>2 DEF OneRegistration
<1> QED BY <1>1, <1>2, <1>3
    DEF Work, Read, Refuse, Write, Fail, Commit, Register, InviteStaff, UpdateMembership,
        TransferOwnership, GrantOperator, RevokeOperator, End

LEMMA OperatorsStep ==
  ASSUME OperatorsOK, NEW r \in Requests, RequestOK(r), Effects(r)
  PROVE  OperatorsOK'
<1> SUFFICES ASSUME NEW u \in Users, operator'[u] # None PROVE u \in account'
  BY DEF OperatorsOK
<1>1. account \subseteq account'
  BY DEF Effects, AccountEffect
<1>2. CASE operator'[u] = operator[u]
  BY <1>1, <1>2 DEF OperatorsOK
<1>3. CASE operator'[u] # operator[u]
  <2>1. pc[r] = "written" /\ u = User(r) /\ Kind(r) \in {"grant", "revoke"}
    BY <1>3 DEF Effects, OperatorEffect, OwnStep
  <2>2. u \in account
    BY <2>1 DEF RequestOK, FoundOK, Reading
  <2> QED BY <1>1, <2>2
<1> QED BY <1>2, <1>3

\* Nobody who has committed has seen a request that has not.
LEMMA CommitsOverlap ==
  ASSUME TypeOK, NEW r \in Requests, Effects(r), pc'[r] = "done",
         NEW q \in Done, q \notin saw[r], ShapeOK(q)
  PROVE  Overlap(q, r)' /\ Overlap(r, q)' /\ q \in Done' /\ r \in Done' /\ job'[q] = job[q]
         /\ job'[r] = job[r]
<1>1. r \notin Done /\ q \in Done' /\ job'[q] = job[q] /\ saw'[q] = saw[q]
  BY DonePersists
<1>2. saw'[r] = saw[r] /\ job'[r] = job[r]
  BY DEF Effects, OwnStep
<1>3. r \notin saw[q] /\ r \in Done'
  BY <1>1 DEF ShapeOK, Done
<1> QED BY <1>1, <1>2, <1>3 DEF Overlap

LEMMA BothStep ==
  ASSUME TypeOK, OperatorsOK, BothOnlyByOverlap, NEW r \in Requests, Effects(r),
         \A q \in Requests : RequestOK(q)
  PROVE  BothOnlyByOverlap'
<1> SUFFICES ASSUME NEW u \in Users, operator'[u] = "ACTIVE", Active(u)'
             PROVE  \E q \in DoneAs({"grant"}, u)', x \in DoneAs({"invite", "update"}, u)' :
                      Overlap(q, x)'
  BY DEF BothOnlyByOverlap
<1>1. PICK t \in Tenants : status'[<<u, t>>] = "ACTIVE"
  BY DEF Active
<1>2. \A q \in Done : ShapeOK(q)
  BY DEF Done, RequestOK
<1>3. CASE operator[u] = "ACTIVE" /\ Active(u)
  <2>1. PICK q \in DoneAs({"grant"}, u), x \in DoneAs({"invite", "update"}, u) : Overlap(q, x)
    BY <1>3 DEF BothOnlyByOverlap
  <2>2. q \in Done /\ x \in Done
    BY <2>1 DEF DoneAs
  <2>3. q \in DoneAs({"grant"}, u)' /\ x \in DoneAs({"invite", "update"}, u)'
    BY <2>1, <2>2, DonePersists DEF DoneAs, Kind, User
  <2>4. Overlap(q, x)'
    BY <2>1, <2>2, DonePersists DEF Overlap
  <2> QED BY <2>3, <2>4
<1>4. CASE operator[u] # "ACTIVE"
  <2>1. pc'[r] = "done" /\ u = User(r) /\ Kind(r) = "grant" /\ pc[r] = "written"
    BY <1>4 DEF Effects, OperatorEffect, OwnStep
  <2>2. <<u, t>> \in Members
    BY DEF Members
  <2>3. status'[<<u, t>>] = status[<<u, t>>]
    BY <2>1, <2>2 DEF Effects, StatusEffect, Joins
  <2>4. Active(User(r))
    BY <1>1, <2>1, <2>3 DEF Active
  <2>5. PICK q \in Done \ saw[r] : Kind(q) \in {"invite", "update"} /\ User(q) = u
    BY <2>1, <2>4 DEF RequestOK, RaceOK, Unseen
  <2>6. /\ Overlap(r, q)' /\ q \in Done' /\ r \in Done' /\ job'[q] = job[q] /\ job'[r] = job[r]
    BY <1>2, <2>1, <2>5, CommitsOverlap
  <2>7. r \in DoneAs({"grant"}, u)' /\ q \in DoneAs({"invite", "update"}, u)'
    BY <2>1, <2>5, <2>6 DEF DoneAs, Kind, User
  <2> QED BY <2>6, <2>7
<1>5. CASE operator[u] = "ACTIVE" /\ ~Active(u)
  <2>1. <<u, t>> \in Members /\ status[<<u, t>>] # "ACTIVE"
    BY <1>5 DEF Members, Active
  <2>2. pc'[r] = "done" /\ <<u, t>> = Membership(r) /\ (Kind(r) = "register" \/ Joins(r))
    BY <1>1, <2>1 DEF Effects, StatusEffect
  <2>3. u = User(r) /\ pc[r] = "written"
    BY <2>2 DEF Membership, Effects, OwnStep
  <2>4. u \in account
    BY <1>5, WorkspaceAssumption DEF OperatorsOK, Statuses
  <2>5. Joins(r)
    BY <2>2, <2>3, <2>4 DEF RequestOK, LockOK, OnAccount
  <2>6. PICK q \in Done \ saw[r] : Kind(q) = "grant" /\ User(q) = u
    BY <1>5, <2>3, <2>5 DEF RequestOK, RaceOK, Unseen
  <2>7. /\ Overlap(q, r)' /\ q \in Done' /\ r \in Done' /\ job'[q] = job[q] /\ job'[r] = job[r]
    BY <1>2, <2>2, <2>6, CommitsOverlap
  <2>8. q \in DoneAs({"grant"}, u)' /\ r \in DoneAs({"invite", "update"}, u)'
    BY <2>3, <2>5, <2>6, <2>7 DEF DoneAs, Kind, User, Joins
  <2> QED BY <2>7, <2>8
<1> QED BY <1>3, <1>4, <1>5

LEMMA OwnerStep ==
  ASSUME TypeOK, OwnerIsActiveMember, NEW r \in Requests, Effects(r),
         \A q \in Requests : RequestOK(q)
  PROVE  OwnerIsActiveMember'
<1> SUFFICES ASSUME NEW t \in Tenants, owner'[t] # None, NEW o, o = owner'[t],
                    status'[<<o, t>>] # "ACTIVE"
             PROVE  \E q \in Done', x \in Done' :
                      /\ Kind(q)' = "transfer" /\ User(q)' = o /\ Kind(x)' = "update" /\ User(x)' = o
                      /\ Tenant(q)' = t /\ Tenant(x)' = t /\ Overlap(q, x)'
  BY DEF OwnerIsActiveMember, DoneAs
<1>1. \A q \in Done : ShapeOK(q)
  BY DEF Done, RequestOK
<1>2. CASE owner'[t] # owner[t]
  <2>1. /\ pc'[r] = "done" /\ Kind(r) \in {"register", "transfer"} /\ t = Tenant(r)
        /\ o = User(r) /\ pc[r] = "written"
    BY <1>2 DEF Effects, OwnerEffect, OwnStep
  <2>2. <<o, t>> = Membership(r) /\ <<o, t>> \in Members
    BY <2>1, JobFacts DEF Membership, RequestOK
  <2>3. Kind(r) = "transfer"
    BY <2>1, <2>2 DEF Effects, StatusEffect
  <2>4. status[<<o, t>>] # "ACTIVE"
    BY <2>2, <2>3 DEF Effects, StatusEffect
  <2>5. PICK x \in Done \ saw[r] : Kind(x) = "update" /\ User(x) = o /\ Tenant(x) = t
    BY <2>1, <2>2, <2>3, <2>4 DEF RequestOK, RaceOK, UnseenThere, Reading
  <2>6. Overlap(r, x)' /\ x \in Done' /\ r \in Done' /\ job'[x] = job[x] /\ job'[r] = job[r]
    BY <1>1, <2>1, <2>5, CommitsOverlap
  <2>7. /\ Kind(r)' = "transfer" /\ User(r)' = o /\ Tenant(r)' = t
        /\ Kind(x)' = "update" /\ User(x)' = o /\ Tenant(x)' = t
    BY <2>1, <2>3, <2>5, <2>6 DEF Kind, User, Tenant
  <2> QED BY <2>6, <2>7
<1>3. CASE owner'[t] = owner[t] /\ status[<<o, t>>] = "ACTIVE"
  <2>1. <<o, t>> \in Members
    BY <1>3, WorkspaceAssumption DEF TypeOK, Members
  <2>2. pc'[r] = "done" /\ <<o, t>> = Membership(r) /\ Kind(r) = "update"
    BY <1>3, <2>1 DEF Effects, StatusEffect
  <2>3. o = User(r) /\ t = Tenant(r) /\ pc[r] = "written"
    BY <2>2 DEF Membership, Effects, OwnStep
  <2>4. PICK q \in Done \ saw[r] : Kind(q) = "transfer" /\ User(q) = o /\ Tenant(q) = t
    BY <1>3, <2>2, <2>3 DEF RequestOK, RaceOK, UnseenThere, Reading
  <2>5. Overlap(q, r)' /\ q \in Done' /\ r \in Done' /\ job'[q] = job[q] /\ job'[r] = job[r]
    BY <1>1, <2>2, <2>4, CommitsOverlap
  <2>6. /\ Kind(q)' = "transfer" /\ User(q)' = o /\ Tenant(q)' = t
        /\ Kind(r)' = "update" /\ User(r)' = o /\ Tenant(r)' = t
    BY <2>2, <2>3, <2>4, <2>5 DEF Kind, User, Tenant
  <2> QED BY <2>5, <2>6
<1>4. CASE owner'[t] = owner[t] /\ status[<<o, t>>] # "ACTIVE"
  <2>1. PICK q \in Done, x \in Done :
          /\ Kind(q) = "transfer" /\ User(q) = o /\ Kind(x) = "update" /\ User(x) = o
          /\ Tenant(q) = t /\ Tenant(x) = t /\ Overlap(q, x)
    BY <1>4 DEF OwnerIsActiveMember, DoneAs
  <2>2. q \in Done' /\ x \in Done' /\ job'[q] = job[q] /\ job'[x] = job[x] /\ Overlap(q, x)'
    BY <2>1, DonePersists DEF Overlap
  <2> QED BY <2>1, <2>2 DEF Kind, User, Tenant
<1> QED BY <1>2, <1>3, <1>4

----------------------------------------------------------------------------
(* Types: a membership has a status, a role and an account, or none of them. *)

MembershipOK(m) ==
  (status[m] = None <=> role[m] = None) /\ (status[m] # None => m[1] \in account)

LEMMA TypeStep ==
  ASSUME TypeOK, NEW r \in Requests, RequestOK(r), Start(r) \/ Work(r)
  PROVE  TypeOK'
<1>1. /\ pc \in [Requests -> {"idle", "begun", "read", "written", "done", "refused"}]
      /\ job \in [Requests -> Jobs \cup {NoJob}]
      /\ account \subseteq Users
      /\ status \in [Members -> Statuses \cup {None}]
      /\ role \in [Members -> Roles \cup {None}]
      /\ owner \in [Tenants -> Users \cup {None}]
      /\ operator \in [Users -> {"ACTIVE", "REVOKED", None}]
      /\ \A m \in Members : MembershipOK(m)
      /\ lock \in [Rows -> Holders]
      /\ saw \in [Requests -> SUBSET Requests]
      /\ found \in [Requests -> BOOLEAN]
  BY DEF TypeOK, MembershipOK
<1>2. ASSUME UNCHANGED <<account, status, role, owner, operator>>
      PROVE  /\ account' \subseteq Users
             /\ status' \in [Members -> Statuses \cup {None}]
             /\ role' \in [Members -> Roles \cup {None}]
             /\ owner' \in [Tenants -> Users \cup {None}]
             /\ operator' \in [Users -> {"ACTIVE", "REVOKED", None}]
             /\ \A m \in Members : MembershipOK(m)'
  BY <1>1, <1>2 DEF MembershipOK
<1>3. CASE Start(r)
  <2>1. PICK j \in Asks : Begin(r, j)
    BY <1>3 DEF Start
  <2>2. pc' \in [Requests -> {"idle", "begun", "read", "written", "done", "refused"}]
        /\ job' \in [Requests -> Jobs \cup {NoJob}]
    BY <1>1, <2>1, WorkspaceAssumption DEF Begin
  <2> QED BY <1>1, <1>2, <2>1, <2>2 DEF Begin, TypeOK, MembershipOK
<1>4. CASE Read(r)
  <2>1. saw' \in [Requests -> SUBSET Requests]
        /\ pc' \in [Requests -> {"idle", "begun", "read", "written", "done", "refused"}]
    BY <1>1, <1>4 DEF Read, Done
  <2> DEFINE b == IF Kind(r) = "grant" THEN operator[User(r)] # None ELSE User(r) \in account
  <2>2. b = TRUE \/ b = FALSE
    <3>1. CASE Kind(r) = "grant"
      BY <3>1
    <3>2. CASE Kind(r) # "grant"
      BY <3>2
    <3> QED BY <3>1, <3>2
  <2>3. found' = [found EXCEPT ![r] = b]
    BY <1>4 DEF Read
  <2> HIDE DEF b
  <2>4. found' \in [Requests -> BOOLEAN]
    BY <1>1, <2>2, <2>3
  <2> QED BY <1>1, <1>2, <1>4, <2>1, <2>4 DEF Read, TypeOK, MembershipOK
<1>5. CASE Refuse(r) \/ Fail(r)
  <2>1. pc' \in [Requests -> {"idle", "begun", "read", "written", "done", "refused"}]
    BY <1>1, <1>5 DEF Refuse, Fail
  <2> QED BY <1>1, <1>2, <1>5, <2>1 DEF Refuse, Fail, TypeOK, MembershipOK
<1>6. CASE Write(r)
  <2>1. pc' \in [Requests -> {"idle", "begun", "read", "written", "done", "refused"}]
        /\ lock' \in [Rows -> Holders]
    BY <1>1, <1>6 DEF Write, Holders
  <2> QED BY <1>1, <1>2, <1>6, <2>1 DEF Write, TypeOK, MembershipOK
<1>7. ASSUME pc[r] = "written"
      PROVE  /\ User(r) \in Users /\ job[r] \in Jobs /\ WellFormed(job[r])
             /\ Kind(r) \in {"register", "invite", "update", "transfer"} =>
                  Tenant(r) \in Tenants /\ Membership(r) \in Members /\ Membership(r)[1] = User(r)
  BY <1>7, JobFacts DEF RequestOK, Membership
<1>8. Released(r) \in [Rows -> Holders]
  BY <1>1 DEF Released, Holders
<1>9. ASSUME End(r)
      PROVE  /\ pc' \in [Requests -> {"idle", "begun", "read", "written", "done", "refused"}]
             /\ job' \in [Requests -> Jobs \cup {NoJob}] /\ lock' \in [Rows -> Holders]
             /\ saw' \in [Requests -> SUBSET Requests] /\ found' \in [Requests -> BOOLEAN]
             /\ pc[r] = "written"
  BY <1>1, <1>8, <1>9 DEF End
<1>10. CASE Register(r)
  <2>1. pc[r] = "written" /\ User(r) \in Users /\ Membership(r) \in Members
        /\ Tenant(r) \in Tenants /\ Membership(r)[1] = User(r)
    BY <1>7, <1>9, <1>10 DEF Register
  <2>2. /\ account' \subseteq Users /\ owner' \in [Tenants -> Users \cup {None}]
        /\ status' \in [Members -> Statuses \cup {None}] /\ role' \in [Members -> Roles \cup {None}]
    BY <1>1, <1>10, <2>1 DEF Register, Statuses, Roles
  <2>3. \A m \in Members : MembershipOK(m)'
    BY <1>1, <1>10, <2>1, WorkspaceAssumption DEF Register, MembershipOK, Statuses, Roles
  <2> QED BY <1>1, <1>9, <1>10, <2>2, <2>3 DEF Register, TypeOK, MembershipOK
<1>11. CASE InviteStaff(r)
  <2>1. /\ pc[r] = "written" /\ User(r) \in Users /\ Membership(r) \in Members
        /\ Membership(r)[1] = User(r) /\ job[r].role \in Roles /\ job[r].role # None
    BY <1>7, <1>9, <1>11 DEF InviteStaff, Jobs, WellFormed, Kind
  <2>2. /\ account' \subseteq Users
        /\ status' \in [Members -> Statuses \cup {None}] /\ role' \in [Members -> Roles \cup {None}]
    BY <1>1, <1>11, <2>1 DEF InviteStaff, Statuses
  <2>3. \A m \in Members : MembershipOK(m)'
    BY <1>1, <1>11, <2>1, WorkspaceAssumption DEF InviteStaff, MembershipOK, Statuses
  <2> QED BY <1>1, <1>9, <1>11, <2>2, <2>3 DEF InviteStaff, TypeOK, MembershipOK
<1>12. CASE UpdateMembership(r)
  <2>1. /\ pc[r] = "written" /\ Membership(r) \in Members
        /\ job[r].role \in Roles \cup {None} /\ job[r].status \in Statuses \cup {None}
    BY <1>7, <1>9, <1>12 DEF UpdateMembership, Jobs
  <2>2. status[Membership(r)] # None
    BY <1>12, <2>1 DEF UpdateMembership, RequestOK, FoundOK, Reading
  <2>3. status' \in [Members -> Statuses \cup {None}] /\ role' \in [Members -> Roles \cup {None}]
    BY <1>1, <1>12, <2>1 DEF UpdateMembership
  <2>4. ASSUME NEW m \in Members
        PROVE  (status'[m] = None <=> status[m] = None) /\ (role'[m] = None <=> role[m] = None)
    <3>1. role[Membership(r)] # None
      BY <1>1, <2>1, <2>2 DEF MembershipOK
    <3> QED BY <1>1, <1>12, <2>1, <2>2, <3>1 DEF UpdateMembership
  <2>5. \A m \in Members : MembershipOK(m)'
    BY <1>1, <1>12, <2>4 DEF UpdateMembership, MembershipOK
  <2> QED BY <1>1, <1>9, <1>12, <2>3, <2>5 DEF UpdateMembership, TypeOK, MembershipOK
<1>13. CASE TransferOwnership(r)
  <2>1. pc[r] = "written" /\ User(r) \in Users
    BY <1>7, <1>9, <1>13 DEF TransferOwnership
  <2>2. owner' \in [Tenants -> Users \cup {None}]
    BY <1>1, <1>13, <2>1 DEF TransferOwnership
  <2> QED BY <1>1, <1>9, <1>13, <2>2 DEF TransferOwnership, TypeOK, MembershipOK
<1>14. CASE CreateOperatorAccount(r)
  <2>1. pc[r] = "written" /\ User(r) \in Users /\ job[r] \in Jobs
    BY <1>7, <1>14 DEF CreateOperatorAccount
  <2>2. pc' \in [Requests -> {"idle", "begun", "read", "written", "done", "refused"}]
        /\ lock' \in [Rows -> Holders] /\ account' \subseteq Users
    BY <1>1, <1>8, <1>14, <2>1 DEF CreateOperatorAccount
  <2>3. job' \in [Requests -> Jobs \cup {NoJob}]
    <3>1. [job[r] EXCEPT !.kind = "grant"] \in Jobs
      BY <2>1 DEF Jobs, Kinds
    <3>2. job' = [job EXCEPT ![r] = [job[r] EXCEPT !.kind = "grant"]]
      BY <1>1, <1>14 DEF CreateOperatorAccount
    <3> QED BY <1>1, <3>1, <3>2
  <2>4. \A m \in Members : MembershipOK(m)'
    BY <1>1, <1>14 DEF CreateOperatorAccount, MembershipOK
  <2> QED BY <1>1, <1>14, <2>2, <2>3, <2>4 DEF CreateOperatorAccount, TypeOK, MembershipOK
<1>15. CASE GrantOperator(r)
  <2>1. operator' \in [Users -> {"ACTIVE", "REVOKED", None}]
    BY <1>1, <1>15 DEF GrantOperator
  <2> QED BY <1>1, <1>9, <1>15, <2>1 DEF GrantOperator, TypeOK, MembershipOK
<1>16. CASE RevokeOperator(r)
  <2>1. operator' \in [Users -> {"ACTIVE", "REVOKED", None}]
    BY <1>1, <1>16 DEF RevokeOperator
  <2> QED BY <1>1, <1>9, <1>16, <2>1 DEF RevokeOperator, TypeOK, MembershipOK
<1> QED BY <1>3, <1>4, <1>5, <1>6, <1>10, <1>11, <1>12, <1>13, <1>14, <1>15, <1>16
    DEF Work, Commit

----------------------------------------------------------------------------
LEMMA NextStep == WorkspaceInv /\ [Next]_vars => WorkspaceInv'
<1> SUFFICES ASSUME WorkspaceInv, [Next]_vars PROVE WorkspaceInv'
  OBVIOUS
<1>1. CASE UNCHANGED vars
  <2>1. UNCHANGED <<pc, job, account, status, role, owner, operator, lock, saw, found>>
    BY <1>1 DEF vars
  <2>2. TypeOK' /\ OneRegistration' /\ OperatorsOK'
    BY <2>1 DEF WorkspaceInv, TypeOK, OneRegistration, OperatorsOK, Kind, Tenant
  <2>3. BothOnlyByOverlap' /\ OwnerIsActiveMember'
    BY <2>1 DEF WorkspaceInv, BothOnlyByOverlap, OwnerIsActiveMember, DoneAs, Done, Overlap,
                Active, Kind, User, Tenant
  <2>4. ASSUME NEW r \in Requests PROVE RequestOK(r)'
    <3>1. RequestOK(r)
      BY DEF WorkspaceInv
    <3>2. ShapeOK(r)' /\ FoundOK(r)'
      BY <2>1, <3>1 DEF RequestOK, ShapeOK, FoundOK, Done, Reading, Kind, User, Tenant, Membership
    <3>3. Row(r)' = Row(r) /\ (OnAccount(r)' <=> OnAccount(r)) /\ User(r)' = User(r)
      BY <2>1 DEF Row, OnAccount, Kind, User, Tenant, Membership
    <3>4. LockOK(r)'
      BY <2>1, <3>1, <3>3 DEF RequestOK, LockOK
    <3>5. /\ Kind(r)' = Kind(r) /\ Tenant(r)' = Tenant(r) /\ Membership(r)' = Membership(r)
          /\ (Active(User(r))' <=> Active(User(r))) /\ (Joins(r)' <=> Joins(r))
          /\ (Reading(r)' <=> Reading(r))
      BY <2>1 DEF Active, Joins, Reading, Kind, User, Tenant, Membership
    <3>6. /\ \A kinds : Unseen(r, kinds)' <=> Unseen(r, kinds)
          /\ \A kind : UnseenThere(r, kind)' <=> UnseenThere(r, kind)
          /\ UnseenOwner(r)' <=> UnseenOwner(r)
      BY <2>1 DEF Unseen, UnseenThere, UnseenOwner, Done, Kind, User, Tenant
    <3>7. RaceOK(r)'
      BY <2>1, <3>1, <3>3, <3>5, <3>6 DEF RequestOK, RaceOK
    <3> QED BY <3>2, <3>7, <3>4 DEF RequestOK
  <2> QED BY <2>2, <2>3, <2>4 DEF WorkspaceInv
<1>2. ASSUME NEW r \in Requests, Start(r) \/ Work(r)
      PROVE  WorkspaceInv'
  <2>1. TypeOK /\ OneRegistration /\ OperatorsOK /\ BothOnlyByOverlap /\ OwnerIsActiveMember
        /\ \A q \in Requests : RequestOK(q)
    BY DEF WorkspaceInv
  <2>2. Effects(r)
    BY <1>2, <2>1, StepEffects
  <2>3. RequestOK(r)'
    BY <1>2, <2>1, <2>2, Self
  <2>4. ASSUME NEW q \in Requests \ {r} PROVE RequestOK(q)'
    BY <2>1, <2>2, OthersShape, OthersLock, OthersRace DEF RequestOK
  <2>5. TypeOK' /\ OneRegistration' /\ OperatorsOK'
    BY <1>2, <2>1, <2>2, TypeStep, OneRegistrationStep, OperatorsStep
  <2>6. BothOnlyByOverlap' /\ OwnerIsActiveMember'
    BY <2>1, <2>2, BothStep, OwnerStep
  <2>7. \A q \in Requests : RequestOK(q)'
    BY <2>3, <2>4
  <2> QED BY <2>5, <2>6, <2>7 DEF WorkspaceInv
<1> QED BY <1>1, <1>2 DEF Next

\* The invariant of every behaviour, for any number of users, workspaces and requests.
THEOREM WorkspaceInvariant == Spec => []WorkspaceInv
  BY InitHolds, NextStep, PTL DEF Spec

\* Every variable keeps its type: a membership has both its columns, and its user an
\* account.
THEOREM TypeCorrect == Spec => []TypeOK
<1>1. WorkspaceInv => TypeOK
  BY DEF WorkspaceInv
<1> QED BY <1>1, WorkspaceInvariant, PTL

\* An operator is an active member only by a grant and an invitation or reactivation
\* that overlap, whatever is granted, revoked, suspended and reactivated.
THEOREM OperatorsAndMembersApart == Spec => []BothOnlyByOverlap
<1>1. WorkspaceInv => BothOnlyByOverlap
  BY DEF WorkspaceInv
<1> QED BY <1>1, WorkspaceInvariant, PTL

\* The owner of a workspace is an active member, unless the suspension overlaps the
\* transfer.
THEOREM OwnersAreActive == Spec => []OwnerIsActiveMember
<1>1. WorkspaceInv => OwnerIsActiveMember
  BY DEF WorkspaceInv
<1> QED BY <1>1, WorkspaceInvariant, PTL

\* A workspace changes hands by a transfer of its owner, or of somebody who was the
\* owner until a transfer that overlaps.
THEOREM OwnersHandOver == Spec => OnlyOwnerHandsOver
<1> DEFINE HandsOver == \A t \in Tenants : owner[t] # None /\ owner'[t] # owner[t] =>
       \E r \in Requests : /\ pc[r] = "written" /\ pc'[r] = "done" /\ Kind(r) = "transfer"
                           /\ \/ job[r].actor = owner[t]
                              \/ \E q \in DoneAs({"transfer"}, owner[t]) :
                                   Tenant(q) = t /\ Overlap(q, r)
<1>1. ASSUME WorkspaceInv, [Next]_vars PROVE [HandsOver]_vars
  <2>1. CASE UNCHANGED vars
    BY <2>1
  <2>2. ASSUME NEW r \in Requests, Start(r) \/ Work(r), NEW t \in Tenants,
               owner[t] # None, owner'[t] # owner[t]
        PROVE  /\ pc[r] = "written" /\ pc'[r] = "done" /\ Kind(r) = "transfer"
               /\ \/ job[r].actor = owner[t]
                  \/ \E q \in DoneAs({"transfer"}, owner[t]) : Tenant(q) = t /\ Overlap(q, r)
    <3>1. TypeOK /\ (\A q \in Requests : RequestOK(q))
      BY <1>1 DEF WorkspaceInv
    <3>2. Effects(r)
      BY <2>2, <3>1, StepEffects
    <3>3. /\ pc'[r] = "done" /\ Kind(r) \in {"register", "transfer"} /\ t = Tenant(r)
          /\ pc[r] = "written"
      BY <2>2, <3>2 DEF Effects, OwnerEffect, OwnStep
    <3>4. Kind(r) = "transfer"
      BY <2>2, <3>1, <3>3 DEF RequestOK, ShapeOK
    <3>5. CASE job[r].actor # owner[t]
      <4>1. PICK q \in Done \ saw[r] : Kind(q) = "transfer" /\ User(q) = owner[t] /\ Tenant(q) = t
        BY <3>1, <3>3, <3>4, <3>5 DEF RequestOK, RaceOK, UnseenOwner, Reading
      <4>2. r \notin saw[q]
        BY <3>1, <3>3, <4>1 DEF RequestOK, ShapeOK, Done
      <4> QED BY <3>3, <3>4, <4>1, <4>2 DEF DoneAs, Overlap
    <3> QED BY <3>3, <3>4, <3>5
  <2> QED BY <1>1, <2>1, <2>2 DEF Next
<1>2. WorkspaceInv /\ [Next]_vars => [HandsOver]_vars
  BY <1>1
<1> QED BY <1>2, WorkspaceInvariant, PTL DEF Spec, OnlyOwnerHandsOver
=============================================================================
