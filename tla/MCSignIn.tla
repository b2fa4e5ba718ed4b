------------------------------ MODULE MCSignIn ------------------------------
(* An instance of SignIn for TLC. *)
EXTENDS SignIn

Ask(kind, s, typed) == [kind |-> kind, session |-> s, typed |-> typed]
Logins == {Ask("login", Old, p) : p \in {Old, 1}}
Calls(s) == {Ask("call", s, Old)}
Changes == {Ask("change", s, p) : s \in {Old, 3}, p \in {Old, 1}}

\* Calls in the first session and in the one of request 3, while time passes; or the
\* password changes twice while a session begins, is used, or ends.
Uses == {j \in [Requests -> Logins \cup Calls(3) \cup Calls(Old) \cup {Ask("logout", Old, Old)}] :
          j[1].kind = "call" /\ j[3] = Ask("login", Old, Old)}
NewPasswords ==
  {j \in [Requests -> Changes \cup {Ask("reset", Old, Old)} \cup Logins \cup Calls(Old)] :
     {j[1].kind, j[2].kind} \subseteq {"change", "reset"} /\ j[3].kind # "reset"}
Everything == Uses \cup NewPasswords

\* In the second case time passes only for the failures to change the password.
Scenario == now' # now => job \in Uses \/ failures # {}
=============================================================================
