---------------------------- MODULE CheckReview ----------------------------
(***************************************************************************)
(* What a check promises its reviewer, whoever works on it and however the *)
(* answers arrive: it comes to review with no required item left open,     *)
(* nothing becomes open again while it is under review or approved, and an *)
(* approved or cancelled check stays so.  Module Checks implements it.     *)
(*   checks/checks.service.ts                                              *)
(***************************************************************************)

CONSTANT Items

VARIABLES
  phase,  \* where the check is
  open    \* the required items that have no answer

Phases == {"work", "review", "done", "cancelled"}

Init ==
  /\ phase = "work"
  /\ open \in SUBSET Items

\* Before review items are added and answered freely.
Work ==
  /\ phase = "work"
  /\ open' \in SUBSET Items
  /\ UNCHANGED phase

\* An answer may land at any time: it was sent before the check was locked.
LateAnswer ==
  /\ open' \in SUBSET open
  /\ UNCHANGED phase

Submit ==
  /\ phase = "work"
  /\ open = {}
  /\ phase' = "review"
  /\ UNCHANGED open

Decide ==
  /\ phase = "review"
  /\ phase' \in {"work", "done"}
  /\ UNCHANGED open

Cancel ==
  /\ phase \in {"work", "review"}
  /\ phase' = "cancelled"
  /\ UNCHANGED open

Next == Work \/ LateAnswer \/ Submit \/ Decide \/ Cancel

Spec == Init /\ [][Next]_<<phase, open>>

\* A check under review or approved has every required item answered.
ReviewIsComplete == phase \in {"review", "done"} => open = {}
=============================================================================
