------------------------- MODULE ReleaseTransaction -------------------------
(***************************************************************************)
(* What `deployment update` promises: one deployed release, moved by one   *)
(* transaction at a time from the source of a plan to its target in a      *)
(* single step, or not at all.  A transaction that cannot restore its      *)
(* source is left to the operator and lets no other one in.                *)
(***************************************************************************)
CONSTANTS
  Release,   \* what can be deployed
  First,     \* the release deployed at first
  Change     \* the admitted updates: pairs of releases

VARIABLES
  deployed,  \* the release the project stands for
  status     \* of each update: "none", "open", "complete" or "manual"

Statuses == {"none", "open", "complete", "manual"}

Init ==
  /\ deployed = First
  /\ status = [p \in Change |-> "none"]

Propose(p) ==
  /\ \A q \in Change : status[q] \in {"none", "complete"}
  /\ status[p] = "none"
  /\ deployed = p[1]
  /\ status' = [status EXCEPT ![p] = "open"]
  /\ UNCHANGED deployed

Commit(p) ==
  /\ status[p] = "open"
  /\ deployed = p[1]
  /\ deployed' = p[2]
  /\ status' = [status EXCEPT ![p] = "complete"]

LeaveToOperator(p) ==
  /\ status[p] = "open"
  /\ status' = [status EXCEPT ![p] = "manual"]
  /\ UNCHANGED deployed

Next == \E p \in Change : Propose(p) \/ Commit(p) \/ LeaveToOperator(p)

Spec == Init /\ [][Next]_<<deployed, status>>
=============================================================================
