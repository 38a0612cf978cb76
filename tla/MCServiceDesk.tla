--------------------------- MODULE MCServiceDesk ---------------------------
(***************************************************************************)
(* Small instances of ServiceDesk for TLC.  Every behaviour stays in one    *)
(* focus, chosen at the start, so that the instances add up instead of     *)
(* multiplying:                                                            *)
(*   status  one record; status changes and closures overlap               *)
(*   due     one record; creations and edits overlap                       *)
(*   intake  arrivals, reviews, rejections and conversions overlap         *)
(*   similar two similar requests arrive and are reviewed or rejected      *)
(*   alerts  sweeps overlap, while the desk may change in one step what a  *)
(*           sweep reads of a task: more than its requests can do          *)
(***************************************************************************)
EXTENDS ServiceDesk

CONSTANTS r1, r2, u1, s1, s2, w1, w2, x1, x2

\* Two priorities the policy knows, and one it does not.
MCSlaHours ==
  [p \in {"high", "low", "other"} |->
     CASE p = "high" -> 1 [] p = "low" -> 2 [] p = "other" -> Null]

VARIABLE focus

mcVars == <<deskVars, focus>>

MCInit ==
  /\ now = 0
  /\ serving = [s \in Sessions |-> Idle]
  /\ IntakeInit
  /\ SweepInit
  /\ focus \in {"status", "due", "intake", "similar", "alerts"}
  /\ \E kind \in Kinds :
       ticket = [r \in Records |->
                   IF focus = "status" /\ r = r1
                   THEN NewRow(kind, "high", Null, FALSE, Null) ELSE Null]

\* The instances: one record, and nobody assigned while due dates are edited;
\* for the triage two, created in order and with one priority, two sources of
\* which one is an intake, and no conversion to an incident, which is made like a
\* service request.
InFocus ==
  CASE focus = "status" ->
         /\ \A s \in Sessions : serving'[s].op \in {"idle", "status"}
         /\ ~Exists(r2)'
    [] focus = "due" ->
         /\ \A s \in Sessions : serving'[s].op = "edit" => serving'[s].assigneeId = Keep
         /\ \A s \in Sessions : serving'[s].op # "status"
         /\ Exists(r1)' => ticket'[r1].assigneeId \notin People
         /\ ~Exists(r2)'
    [] focus = "intake" ->
         /\ \A r \in Records : Exists(r)' => ticket'[r].priority = "high"
         /\ \A s \in Sessions : serving'[s].op = "convert" => serving'[s].kind # "Incident"
         /\ Exists(r2)' => Exists(r1)'
         /\ Came(x2)' => source'[x2].type = "REQUEST_INTAKE" /\ Came(x1)'
    [] focus = "similar" ->
         /\ \A x \in Sources : Came(x)' => source'[x].type = "REQUEST_INTAKE"
         /\ Came(x2)' => Came(x1)'
         /\ \A s \in Sessions : serving'[s].op # "convert"
    [] focus = "alerts" -> ~Exists(r2)'

\* What a sweep reads of a record: whether it is open, when it is due, whose it is.
DeskChanges(r) ==
  /\ \E status \in {"OPEN", "DONE"}, dueAt \in {0, 1}, assigneeId \in People \cup {Null} :
       ticket' = [ticket EXCEPT ![r] =
         [NewRow("Task", "high", dueAt, FALSE, assigneeId) EXCEPT
            !.status = status, !.createdAt = 0,
            !.closedAt = IF status = "DONE" THEN 0 ELSE Null,
            !.resolvedAt = IF status = "DONE" THEN 0 ELSE Null]]
  /\ UNCHANGED <<now, serving>>

MCNext ==
  /\ \/ focus \in {"status", "due"} /\ TicketStep /\ UNCHANGED <<intakeVars, sweepVars>>
     \/ focus \in {"intake", "similar"} /\ IntakeStep /\ UNCHANGED sweepVars
     \/ focus = "alerts" /\ SweepStep /\ UNCHANGED intakeVars
     \/ focus = "alerts" /\ (Tick \/ DeskChanges(r1)) /\ UNCHANGED <<intakeVars, sweepVars>>
  /\ InFocus
  /\ UNCHANGED focus

MCSpec == MCInit /\ [][MCNext]_mcVars /\ SweepsRun
=============================================================================
