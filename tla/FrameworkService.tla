-------------------------- MODULE FrameworkService --------------------------
(***************************************************************************)
(* What an MCA framework promises to the code that uses it: a counted,     *)
(* shared resource.  It is available from the first successful acquisition *)
(* to the last release and no longer, and an acquisition that fails takes  *)
(* nothing.  Components, variables and the repository of loadable plugins  *)
(* do not appear.  Framework.tla implements this specification.            *)
(***************************************************************************)
EXTENDS Naturals

VARIABLES users,  \* acquisitions (register or open) not yet released
          state   \* "closed", "registered" (variables only) or "open"

vars == <<users, state>>

ServiceTypeOK == /\ users \in Nat
                 /\ state \in {"closed", "registered", "open"}

Init == users = 0 /\ state = "closed"

\* Registering makes the variables known; it never takes anything away.
Register == /\ users' = users + 1
            /\ state' = IF state = "closed" THEN "registered" ELSE state

Open == users' = users + 1 /\ state' = "open"

\* A failed opening may leave the framework registered, never open.
FailedOpen == /\ state # "open"
              /\ users' = users
              /\ state' = "registered"

Release == /\ users > 0
           /\ users' = users - 1
           /\ state' = IF users = 1 THEN "closed" ELSE state

Next == Register \/ Open \/ FailedOpen \/ Release

Spec == Init /\ [][Next]_vars
=============================================================================
