----------------------------- MODULE MCThrottle -----------------------------
(* An instance of Throttle for TLC. *)
EXTENDS Throttle

CONSTANT home

Ask(kind, address, right) == [kind |-> kind, from |-> address, right |-> right]

\* Sign-ins from one address, right and wrong; from one that is unknown; registrations.
OneAddress == {[r \in Calls |-> Ask("login", home, r \in right)] : right \in {{}, {2}}}
Unknown == {[r \in Calls |-> Ask("login", Nowhere, r = 2)]}
Registrations == {[r \in Calls |-> Ask("register", IF r = 3 THEN Nowhere ELSE home, FALSE)]}
Everything == OneAddress \cup Unknown \cup Registrations
=============================================================================
