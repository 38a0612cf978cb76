------------------------------- MODULE Sweep -------------------------------
(***************************************************************************)
(* The due-date sweep over the tickets, and the alerts it sends.           *)
(*   notifications/notification-sweep.service.ts, emit-notification.ts,    *)
(*   record-watch/watchers.ts                                              *)
(*                                                                         *)
(* An external schedule starts sweeps; the same endpoint lets people start *)
(* more, so sweeps overlap.  A sweep reads the open due rows of one kind,  *)
(* then takes them one by one: it looks up whom to tell, claims the marker *)
(* of (record, signal) by inserting it, and only then notifies.  Nothing   *)
(* holds the rows meanwhile, and a sweep may die at any step.              *)
(*                                                                         *)
(* The channels (in-app, email) and the preferences of a recipient are     *)
(* left out: an alert is one call of emitNotification.                     *)
(***************************************************************************)
EXTENDS Tickets, Sequences

CONSTANTS
  Sweepers,    \* sweeps that may run at once
  Window,      \* how far ahead DUE_SOON looks
  MaxTroubles  \* bound of the deaths and errors

ASSUME SweepAssumption == Window \in Nat /\ MaxTroubles \in Nat

VARIABLES
  watching,  \* the records somebody watches
  markers,   \* the NotificationSweepMarker rows: <<record, signal>>
  sweep,     \* the sweep each sweeper runs
  alerts,    \* how often each <<record, signal>> was notified
  untold,    \* history: those claimed by a sweep that then failed to notify
  troubles   \* deaths and errors so far

sweepVars == <<watching, markers, sweep, alerts, untold, troubles>>

Signals == {"DUE_SOON", "OVERDUE"}
Alerts == Records \X Signals

\* targets, in their order
SweptKinds == <<"Incident", "ServiceRequest", "Task">>

Resting == [op |-> "rest"]
SweepRow == [r : Records, signal : Signals, assigneeId : People \cup {Null}]
Tails == {<<>>, <<"Task">>, <<"ServiceRequest", "Task">>, SweptKinds}
SweepState ==
  {Resting}
  \cup [op : {"rows"}, now : Times, left : Tails, rows : SUBSET SweepRow]
  \cup [op : {"emit"}, now : Times, left : Tails, rows : SUBSET SweepRow,
        row : SweepRow, anyone : BOOLEAN]

Swept(w, state) == sweep' = [sweep EXCEPT ![w] = state]

----------------------------------------------------------------------------

\* runSweep: the moment is taken once, at the start.
StartSweep(w) ==
  /\ sweep[w] = Resting
  /\ Swept(w, [op |-> "rows", now |-> now, left |-> SweptKinds, rows |-> {}])
  /\ UNCHANGED <<watching, markers, alerts, untold, troubles>>

SignalAt(r, moment) == IF ticket[r].dueAt < moment THEN "OVERDUE" ELSE "DUE_SOON"

\* Mutant of OpenDue: rows already past due are not read.
OpenDueSoonOnly(kind, moment) ==
  {r \in Records : /\ Live(r) /\ ticket[r].kind = kind
                   /\ ticket[r].dueAt # Null
                   /\ ticket[r].dueAt \in moment..(moment + Window)}

\* fetchOpenDue
OpenDue(kind, moment) ==
  {r \in Records : /\ Live(r) /\ ticket[r].kind = kind
                   /\ ticket[r].dueAt # Null
                   /\ ticket[r].dueAt <= moment + Window}

Fetch(w) ==
  /\ sweep[w].op = "rows" /\ sweep[w].rows = {} /\ sweep[w].left # <<>>
  /\ LET s == sweep[w]
     IN  Swept(w, [s EXCEPT !.left = Tail(@),
                            !.rows = {[r |-> r, signal |-> SignalAt(r, s.now),
                                       assigneeId |-> ticket[r].assigneeId] :
                                      r \in OpenDue(Head(s.left), s.now)}])
  /\ UNCHANGED <<watching, markers, alerts, untold, troubles>>

\* Mutant of HasRecipients: the marker is claimed whoever there is to tell.
HasRecipientsAlways(row) == TRUE

\* The assignee read with the row, or a watcher of now.
Anyone(row) == row.assigneeId # Null \/ row.r \in watching

HasRecipients(row) == Anyone(row)

Drop(w, row) == Swept(w, [sweep[w] EXCEPT !.rows = @ \ {row}])

\* Nobody to tell: skipped without a marker.
Skip(w) ==
  /\ sweep[w].op = "rows"
  /\ \E row \in sweep[w].rows : ~HasRecipients(row) /\ Drop(w, row)
  /\ UNCHANGED <<watching, markers, alerts, untold, troubles>>

\* Mutant of Unclaimed: the insert does not fail on a marker that is there.
UnclaimedNever(row) == TRUE

\* claimMarker succeeds: @@unique([recordType, recordId, signal]).
Unclaimed(row) == <<row.r, row.signal>> \notin markers

Claim(w) ==
  /\ sweep[w].op = "rows"
  /\ \E row \in sweep[w].rows :
       /\ HasRecipients(row)
       /\ IF Unclaimed(row)
          THEN /\ markers' = markers \cup {<<row.r, row.signal>>}
               /\ LET s == sweep[w]
                  IN  Swept(w, [op |-> "emit", now |-> s.now, left |-> s.left,
                                rows |-> s.rows \ {row}, row |-> row,
                                anyone |-> Anyone(row)])
          ELSE Drop(w, row) /\ UNCHANGED markers
  /\ UNCHANGED <<watching, alerts, untold, troubles>>

\* claimMarker takes any error for a marker that is there.
ClaimFails(w) ==
  /\ sweep[w].op = "rows" /\ troubles < MaxTroubles
  /\ \E row \in sweep[w].rows : HasRecipients(row) /\ Drop(w, row)
  /\ troubles' = troubles + 1
  /\ UNCHANGED <<watching, markers, alerts, untold>>

\* Back to the rows.
Onward(w) ==
  LET s == sweep[w]
  IN  Swept(w, [op |-> "rows", now |-> s.now, left |-> s.left, rows |-> s.rows])

\* emitNotification does nothing without a recipient.
Emit(w) ==
  /\ sweep[w].op = "emit"
  /\ LET row == sweep[w].row
     IN  alerts' = [alerts EXCEPT ![<<row.r, row.signal>>] =
                      IF sweep[w].anyone THEN @ + 1 ELSE @]
  /\ Onward(w)
  /\ UNCHANGED <<watching, markers, untold, troubles>>

Untell(w) ==
  untold' = IF sweep[w].op = "emit"
            THEN untold \cup {<<sweep[w].row.r, sweep[w].row.signal>>} ELSE untold

\* emitNotification swallows its errors.
EmitFails(w) ==
  /\ sweep[w].op = "emit" /\ troubles < MaxTroubles
  /\ troubles' = troubles + 1
  /\ Untell(w) /\ Onward(w)
  /\ UNCHANGED <<watching, markers, alerts>>

SweepDies(w) ==
  /\ sweep[w] # Resting /\ troubles < MaxTroubles
  /\ troubles' = troubles + 1
  /\ Untell(w) /\ Swept(w, Resting)
  /\ UNCHANGED <<watching, markers, alerts>>

EndSweep(w) ==
  /\ sweep[w].op = "rows" /\ sweep[w].rows = {} /\ sweep[w].left = <<>>
  /\ Swept(w, Resting)
  /\ UNCHANGED <<watching, markers, alerts, untold, troubles>>

\* What a sweeper does by itself.
SweeperStep(w) ==
  \/ StartSweep(w) \/ Fetch(w) \/ Skip(w) \/ Claim(w) \/ Emit(w) \/ EndSweep(w)

\* Somebody starts or stops watching a record.
Watch(r) ==
  /\ Exists(r)
  /\ watching' = IF r \in watching THEN watching \ {r} ELSE watching \cup {r}
  /\ UNCHANGED <<markers, sweep, alerts, untold, troubles>>

SweepStep ==
  /\ \/ \E w \in Sweepers : SweeperStep(w) \/ ClaimFails(w) \/ EmitFails(w) \/ SweepDies(w)
     \/ \E r \in Records : Watch(r)
  /\ UNCHANGED ticketVars

SweepInit ==
  /\ watching = {}
  /\ markers = {}
  /\ sweep = [w \in Sweepers |-> Resting]
  /\ alerts = [a \in Alerts |-> 0]
  /\ untold = {}
  /\ troubles = 0

----------------------------------------------------------------------------
(* Properties.                                                             *)

\* The markers, the sweeps and their rows are of the shapes the code makes.
SweepTypeOK ==
  /\ watching \subseteq Records
  /\ markers \subseteq Alerts
  /\ sweep \in [Sweepers -> SweepState]
  /\ alerts \in [Alerts -> Nat]
  /\ untold \subseteq Alerts
  /\ troubles \in 0..MaxTroubles

\* "each alert fires exactly once no matter how often the sweep runs"
\* (notification-sweep.service.ts:19), the half that always holds: however
\* sweeps overlap, none fires twice.
AlertedAtMostOnce == \A a \in Alerts : alerts[a] <= 1

Telling(a) == \E w \in Sweepers :
  sweep[w].op = "emit" /\ <<sweep[w].row.r, sweep[w].row.signal>> = a

\* The other half: a marker stands for an alert that was sent or is about to
\* be, except where a sweep died or failed between the claim and the alert.
ClaimsAreTold == \A a \in markers : alerts[a] = 1 \/ Telling(a) \/ a \in untold

\* The record is live, past its due date and assigned.
Lapsed(r) ==
  /\ Live(r) /\ HasDue(ticket[r].kind)
  /\ ticket[r].dueAt # Null /\ ticket[r].dueAt < now
  /\ ticket[r].assigneeId # Null

\* No sweep skips a record that is past due and assigned, however late it was
\* assigned (notification-sweep.service.ts:111-113): as long as sweeps keep being
\* started and the record stays so, its OVERDUE alert fires, except in the two
\* cases the marker hides: a sweep claimed the marker and then died or failed, so
\* that nobody is told and no sweep tries again (untold), or the alert fired for
\* an earlier lapse of the record, after which it fires for no later one.
LapsedAreAlerted ==
  \A r \in Records :
    LET a == <<r, "OVERDUE">>
    IN  Lapsed(r) ~> (alerts[a] > 0 \/ a \in untold \/ ~Lapsed(r))
=============================================================================
