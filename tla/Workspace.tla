----------------------------- MODULE Workspace -----------------------------
(***************************************************************************)
(* Who may act in which workspace, and who operates the platform:          *)
(* registration (tenant-onboarding.ts), staff and ownership (staff.ts) and *)
(* operator accounts (platform-operator-admin.ts), with the triggers of    *)
(* migration 0011 between them.                                            *)
(*                                                                         *)
(* A membership is known by its user and workspace, an account by its user *)
(* (the e-mail is unique).  A request resolves who acts before its         *)
(* transaction begins; the transaction reads without locks, writes, and    *)
(* commits.  A write waits for the lock of the row it writes, and its      *)
(* trigger sees what is committed at that moment.  Nobody deactivates an   *)
(* account and nothing suspends a tenant, so an account that exists and a  *)
(* workspace that has an owner are active.                                 *)
(***************************************************************************)
EXTENDS Integers, FiniteSets

CONSTANTS
  Users,     \* e-mail addresses, with or without an account
  Tenants,   \* workspaces, registered or not
  Requests,  \* API calls and operator commands
  Staffed,   \* the owner of each workspace that is registered already
  Joined,    \* staff that have been invited already
  Operators, \* accounts that operate the platform already
  Asks,      \* what requests may ask for
  None       \* nobody, nothing, unchanged

Statuses == {"ACTIVE", "SUSPENDED", "REMOVED"}
Roles == {"OWNER", "STAFF"}
Kinds == {"register", "invite", "update", "transfer", "create", "grant", "revoke"}

Members == Users \X Tenants
Jobs == [kind : Kinds, actor : Users \cup {None}, tenant : Tenants \cup {None}, user : Users,
         status : Statuses \cup {None}, role : Roles \cup {None}]

\* What a kind of request says; the rest of its record is None.
WellFormed(j) ==
  /\ j.kind \in {"invite", "update", "transfer"} <=> j.actor # None
  /\ j.kind \in {"create", "grant", "revoke"} <=> j.tenant = None
  /\ j.kind = "update" => j.status # None \/ j.role # None
  /\ j.kind = "invite" => j.role # None
  /\ j.kind # "update" => j.status = None
  /\ j.kind \notin {"update", "invite"} => j.role = None

ASSUME WorkspaceAssumption ==
  /\ Staffed \in [Tenants -> Users \cup {None}]
  /\ Joined \subseteq {m \in Members : Staffed[m[2]] \notin {None, m[1]}}
  /\ Operators \subseteq {u \in Users : \A t \in Tenants : Staffed[t] # u /\ <<u, t>> \notin Joined}
  /\ Asks \subseteq Jobs /\ \A j \in Asks : WellFormed(j)
  /\ None \notin Users /\ None \notin Requests /\ None \notin Tenants
  /\ None \notin Statuses /\ None \notin Roles

VARIABLES
  pc,        \* where each request is
  job,       \* what it asks for, and who asks
  account,   \* users with a row in control.users
  status,    \* status of each membership, None if there is none
  role,      \* and its role
  owner,     \* tenants.owner_membership_id, None before the registration
  operator,  \* status in control.platform_operators, None if there is no row
  lock,      \* holder of each row that is written
  saw,       \* requests that had committed when the transaction of each began
  found      \* whether it found the account it invites, or the operator's row it grants

vars == <<pc, job, account, status, role, owner, operator, lock, saw, found>>

Rows == ({"account", "operator"} \X Users) \cup ({"membership"} \X Members) \cup ({"tenant"} \X Tenants)
NoJob == [kind |-> "none", actor |-> None, tenant |-> None, user |-> None,
          status |-> None, role |-> None]

Init ==
  /\ pc = [r \in Requests |-> "idle"]
  /\ job = [r \in Requests |-> NoJob]
  /\ account = ({Staffed[t] : t \in Tenants} \ {None}) \cup {m[1] : m \in Joined} \cup Operators
  /\ status = [m \in Members |-> IF Staffed[m[2]] = m[1] \/ m \in Joined THEN "ACTIVE" ELSE None]
  /\ role = [m \in Members |-> IF Staffed[m[2]] = m[1] THEN "OWNER"
                               ELSE IF m \in Joined THEN "STAFF" ELSE None]
  /\ owner = Staffed
  /\ operator = [u \in Users |-> IF u \in Operators THEN "ACTIVE" ELSE None]
  /\ lock = [x \in Rows |-> None]
  /\ saw = [r \in Requests |-> {}]
  /\ found = [r \in Requests |-> FALSE]

----------------------------------------------------------------------------
Kind(r) == job[r].kind
User(r) == job[r].user
Tenant(r) == job[r].tenant
Membership(r) == <<User(r), Tenant(r)>>
Done == {r \in Requests : pc[r] = "done"}
Active(u) == \E t \in Tenants : status[<<u, t>>] = "ACTIVE"

\* requireTenantContext, and staff.manage, which owners' and managers' roles hold.
InContext(u, t) == status[<<u, t>>] = "ACTIVE" /\ owner[t] # None
MayManage(u, t) == InContext(u, t) /\ role[<<u, t>>] = "OWNER"

\* A registration makes a workspace of its own.
Fresh(t) == \A r \in Requests : Kind(r) = "register" => Tenant(r) # t

\* What must hold before the transaction begins.
Allowed(j) ==
  CASE j.kind \in {"invite", "update"} -> MayManage(j.actor, j.tenant)
    [] j.kind = "transfer" -> InContext(j.actor, j.tenant)
    [] j.kind = "register" -> j.user \notin account /\ owner[j.tenant] = None /\ Fresh(j.tenant)
    [] OTHER -> TRUE

Begin(r, j) ==
  /\ pc[r] = "idle"
  /\ Allowed(j)
  /\ pc' = [pc EXCEPT ![r] = "begun"]
  /\ job' = [job EXCEPT ![r] = j]
  /\ UNCHANGED <<account, status, role, owner, operator, lock, saw, found>>

----------------------------------------------------------------------------
(* The reads of the transaction *)

\* What the reads have to find.  `create' looks the account up in a transaction of
\* its own, and then goes on as a grant.
AnyTarget(r) ==  \* mutant: the checks of a transfer do not look at the target's status
  CASE Kind(r) = "transfer" -> /\ owner[Tenant(r)] = job[r].actor
                               /\ User(r) # owner[Tenant(r)] /\ status[Membership(r)] # None
    [] Kind(r) = "update" -> status[Membership(r)] # None /\ owner[Tenant(r)] # User(r)
    [] OTHER -> TRUE
AnyActor(r) ==  \* mutant: any member may transfer the ownership
  CASE Kind(r) = "transfer" -> User(r) # owner[Tenant(r)] /\ status[Membership(r)] = "ACTIVE"
    [] Kind(r) = "update" -> status[Membership(r)] # None /\ owner[Tenant(r)] # User(r)
    [] OTHER -> TRUE
Found(r) ==
  CASE Kind(r) = "invite" -> operator[User(r)] # "ACTIVE"
    [] Kind(r) = "update" -> status[Membership(r)] # None /\ owner[Tenant(r)] # User(r)
    [] Kind(r) = "transfer" -> /\ owner[Tenant(r)] = job[r].actor
                               /\ User(r) # owner[Tenant(r)] /\ status[Membership(r)] = "ACTIVE"
    [] Kind(r) = "create" -> User(r) \notin account
    [] Kind(r) = "grant" -> User(r) \in account /\ ~Active(User(r)) /\ operator[User(r)] # "ACTIVE"
    [] Kind(r) = "revoke" -> operator[User(r)] = "ACTIVE"
    [] OTHER -> TRUE

Read(r) ==
  /\ pc[r] = "begun" /\ Found(r)
  /\ pc' = [pc EXCEPT ![r] = "read"]
  /\ saw' = [saw EXCEPT ![r] = Done]
  /\ found' = [found EXCEPT ![r] = IF Kind(r) = "grant" THEN operator[User(r)] # None
                                  ELSE User(r) \in account]
  /\ UNCHANGED <<job, account, status, role, owner, operator, lock>>

\* Refused, or nothing to do.
Refuse(r) ==
  /\ pc[r] = "begun" /\ ~Found(r)
  /\ pc' = [pc EXCEPT ![r] = "refused"]
  /\ UNCHANGED <<job, account, status, role, owner, operator, lock, saw, found>>

----------------------------------------------------------------------------
(* The writes: the row's lock, unique indexes and triggers *)

\* The row that others may write too; an invitation of somebody without an account
\* writes the account and the membership, which nobody else can have.
Row(r) ==
  CASE Kind(r) \in {"register", "create"} -> <<"account", User(r)>>
    [] Kind(r) = "invite" /\ ~found[r] -> <<"account", User(r)>>
    [] Kind(r) = "invite" /\ found[r] -> <<"membership", Membership(r)>>
    [] Kind(r) = "update" -> <<"membership", Membership(r)>>
    [] Kind(r) = "transfer" -> <<"tenant", Tenant(r)>>
    [] OTHER -> <<"operator", User(r)>>

\* reject_operator_membership fires on INSERT and on UPDATE OF status, and
\* reject_member_as_operator on every write that makes an operator active.
InsertTriggerOnly(r) ==  \* mutant: the trigger fires on INSERT only
  \/ Kind(r) = "invite" /\ operator[User(r)] = "ACTIVE"
  \/ Kind(r) = "grant" /\ Active(User(r))
Trigger(r) ==
  \/ (Kind(r) = "invite" \/ (Kind(r) = "update" /\ job[r].status = "ACTIVE"))
       /\ operator[User(r)] = "ACTIVE"
  \/ Kind(r) = "grant" /\ Active(User(r))

\* users_email_unique, memberships_user_tenant_unique, platform_operators_pkey.
Taken(r) ==
  \/ (Kind(r) \in {"register", "create"} \/ (Kind(r) = "invite" /\ ~found[r])) /\ User(r) \in account
  \/ Kind(r) = "invite" /\ status[Membership(r)] # None
  \/ Kind(r) = "grant" /\ ~found[r] /\ operator[User(r)] # None

Write(r) ==
  /\ pc[r] = "read" /\ lock[Row(r)] = None
  /\ ~Taken(r) /\ ~Trigger(r)
  /\ pc' = [pc EXCEPT ![r] = "written"]
  /\ lock' = [lock EXCEPT ![Row(r)] = r]
  /\ UNCHANGED <<job, account, status, role, owner, operator, saw, found>>

Released(r) == [x \in Rows |-> IF lock[x] = r THEN None ELSE lock[x]]

Fail(r) ==
  /\ pc[r] = "read" /\ lock[Row(r)] = None
  /\ Taken(r) \/ Trigger(r)
  /\ pc' = [pc EXCEPT ![r] = "refused"]
  /\ UNCHANGED <<job, account, status, role, owner, operator, lock, saw, found>>

----------------------------------------------------------------------------
(* COMMIT *)

End(r) ==
  /\ pc[r] = "written"
  /\ pc' = [pc EXCEPT ![r] = "done"]
  /\ lock' = Released(r)
  /\ UNCHANGED <<job, saw, found>>

Register(r) ==
  /\ Kind(r) = "register" /\ End(r)
  /\ account' = account \cup {User(r)}
  /\ status' = [status EXCEPT ![Membership(r)] = "ACTIVE"]
  /\ role' = [role EXCEPT ![Membership(r)] = "OWNER"]
  /\ owner' = [owner EXCEPT ![Tenant(r)] = User(r)]
  /\ UNCHANGED operator

InviteStaff(r) ==
  /\ Kind(r) = "invite" /\ End(r)
  /\ account' = account \cup {User(r)}
  /\ status' = [status EXCEPT ![Membership(r)] = "ACTIVE"]
  /\ role' = [role EXCEPT ![Membership(r)] = job[r].role]
  /\ UNCHANGED <<owner, operator>>

\* UPDATE sets the columns of the request, whatever the row has become.
UpdateMembership(r) ==
  /\ Kind(r) = "update" /\ End(r)
  /\ status' = IF job[r].status = None THEN status
               ELSE [status EXCEPT ![Membership(r)] = job[r].status]
  /\ role' = IF job[r].role = None THEN role
             ELSE [role EXCEPT ![Membership(r)] = job[r].role]
  /\ UNCHANGED <<account, owner, operator>>

TransferOwnership(r) ==
  /\ Kind(r) = "transfer" /\ End(r)
  /\ owner' = [owner EXCEPT ![Tenant(r)] = User(r)]
  /\ UNCHANGED <<account, status, role, operator>>

\* The account is committed, then its grant is a transaction of its own.
CreateOperatorAccount(r) ==
  /\ Kind(r) = "create" /\ pc[r] = "written"
  /\ pc' = [pc EXCEPT ![r] = "begun"]
  /\ job' = [job EXCEPT ![r].kind = "grant"]
  /\ lock' = Released(r)
  /\ account' = account \cup {User(r)}
  /\ UNCHANGED <<status, role, owner, operator, saw, found>>

GrantOperator(r) ==
  /\ Kind(r) = "grant" /\ End(r)
  /\ operator' = [operator EXCEPT ![User(r)] = "ACTIVE"]
  /\ UNCHANGED <<account, status, role, owner>>

RevokeOperator(r) ==
  /\ Kind(r) = "revoke" /\ End(r)
  /\ operator' = [operator EXCEPT ![User(r)] = "REVOKED"]
  /\ UNCHANGED <<account, status, role, owner>>

Commit(r) ==
  \/ Register(r) \/ InviteStaff(r) \/ UpdateMembership(r) \/ TransferOwnership(r)
  \/ CreateOperatorAccount(r) \/ GrantOperator(r) \/ RevokeOperator(r)

----------------------------------------------------------------------------
Work(r) == Read(r) \/ Refuse(r) \/ Write(r) \/ Fail(r) \/ Commit(r)
Start(r) == \E j \in Asks : Begin(r, j)

Next == \E r \in Requests : Start(r) \/ Work(r)
\* Every statement is awaited, and the database wakes who waits for a row.
Fairness == \A r \in Requests : WF_vars(Work(r))
Spec == Init /\ [][Next]_vars /\ Fairness

----------------------------------------------------------------------------
Holders == Requests \cup {None}
TypeOK ==
  /\ pc \in [Requests -> {"idle", "begun", "read", "written", "done", "refused"}]
  /\ job \in [Requests -> Jobs \cup {NoJob}]
  /\ account \subseteq Users
  /\ status \in [Members -> Statuses \cup {None}]
  /\ role \in [Members -> Roles \cup {None}]
  /\ owner \in [Tenants -> Users \cup {None}]
  /\ operator \in [Users -> {"ACTIVE", "REVOKED", None}]
  \* A row has both columns, and its user an account.
  /\ \A m \in Members : (status[m] = None <=> role[m] = None) /\ (status[m] # None => m[1] \in account)
  /\ lock \in [Rows -> Holders]
  /\ saw \in [Requests -> SUBSET Requests]
  /\ found \in [Requests -> BOOLEAN]

\* Neither transaction had committed when the other began.
Overlap(q, r) == q \notin saw[r] /\ r \notin saw[q]
DoneAs(kinds, u) == {r \in Done : Kind(r) \in kinds /\ User(r) = u}

\* An account is an active operator or an active member, never both (0011, ADR-001
\* rule 3).  The triggers do not lock what they look at, so this does not hold.
NeverBoth == \A u \in Users : ~(operator[u] = "ACTIVE" /\ Active(u))

\* What does hold: of a grant and a membership that exclude each other one is
\* refused, unless the two transactions overlap.  Suspending, granting, reactivating,
\* revoking and granting again in any order does not get around the triggers.
BothOnlyByOverlap ==
  \A u \in Users : operator[u] = "ACTIVE" /\ Active(u) =>
    \E q \in DoneAs({"grant"}, u), r \in DoneAs({"invite", "update"}, u) : Overlap(q, r)

\* INV-OWN-002 and INV-OWN-003 (05 section 75a): the owner's membership is active,
\* unless its suspension overlaps the transfer that makes it the owner's.
OwnerIsActiveMember ==
  \A t \in Tenants : owner[t] # None =>
    \/ status[<<owner[t], t>>] = "ACTIVE"
    \/ \E q \in DoneAs({"transfer"}, owner[t]), r \in DoneAs({"update"}, owner[t]) :
         Tenant(q) = t /\ Tenant(r) = t /\ Overlap(q, r)

\* Only the owner gives the ownership away, or somebody who was the owner until
\* another transfer that overlaps this one.
OnlyOwnerHandsOver ==
  [][\A t \in Tenants : owner[t] # None /\ owner'[t] # owner[t] =>
       \E r \in Requests : /\ pc[r] = "written" /\ pc'[r] = "done" /\ Kind(r) = "transfer"
                           /\ \/ job[r].actor = owner[t]
                              \/ \E q \in DoneAs({"transfer"}, owner[t]) :
                                   Tenant(q) = t /\ Overlap(q, r)]_vars

\* Every request ends: an operator's creation in two transactions included.
EveryRequestEnds ==
  \A r \in Requests : pc[r] # "idle" ~> pc[r] \in {"done", "refused"}
=============================================================================
