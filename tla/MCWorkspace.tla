---------------------------- MODULE MCWorkspace ----------------------------
(* An instance of Workspace for TLC. *)
EXTENDS Workspace, TLC

CONSTANTS ann, bob, dora, otto, shop, branch

\* One workspace of ann's, where bob works, and one that may be registered.
OneShop == shop :> ann @@ branch :> None
Bob == {<<bob, shop>>}

Ask(kind, actor, tenant, user, newStatus, newRole) ==
  [kind |-> kind, actor |-> actor, tenant |-> tenant, user |-> user,
   status |-> newStatus, role |-> newRole]
Asked ==
  {Ask("register", None, branch, dora, None, None), Ask("create", None, None, dora, None, None),
   Ask("invite", ann, shop, dora, None, "STAFF"),
   Ask("update", ann, shop, bob, None, "OWNER"), Ask("update", bob, shop, ann, "SUSPENDED", None)}
  \cup {Ask("update", ann, shop, bob, new, None) : new \in {"ACTIVE", "SUSPENDED"}}
  \cup {Ask("transfer", ann, shop, new, None, None) : new \in {bob, dora}}
  \cup {Ask("transfer", bob, shop, ann, None, None)}
  \cup {Ask("grant", None, None, user, None, None) : user \in {bob, dora, otto}}
  \cup {Ask("revoke", None, None, otto, None, None), Ask("invite", ann, shop, otto, None, "STAFF")}

\* Requests are interchangeable numbers and begin in order.
BeginInOrder == \A r \in Requests :
  pc[r] = "idle" /\ pc'[r] # "idle" => \A q \in Requests : q < r => pc[q] # "idle"
=============================================================================
