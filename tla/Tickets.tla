------------------------------ MODULE Tickets ------------------------------
(***************************************************************************)
(* The work items of the service desk: service requests, incidents, tasks, *)
(* risks and issues; their status with the dates that follow it, and the   *)
(* due date with its pin.                                                  *)
(*   service-requests.service.ts, incidents.service.ts, tasks.service.ts,  *)
(*   risks.service.ts, issues.service.ts, metrics/resolved-status.ts,      *)
(*   sla/sla.ts                                                            *)
(*                                                                         *)
(* A handler reads the record, computes, and then updates it without a     *)
(* condition: every request of a session is a read step and a write step,  *)
(* and a session may lose its process in between.                          *)
(*                                                                         *)
(* The statuses that are not terminal are one, "OPEN": no line of these    *)
(* files tells them apart.  Times are counted in steps of a clock.         *)
(* Left out: the texts, links, review dates, severities and references;    *)
(* the audit trail and the events sent after a write; who may see or       *)
(* reassign a record; what a finished task does to an asset (WorkOrders).  *)
(***************************************************************************)
EXTENDS Naturals

CONSTANTS
  Null,
  Keep,       \* a field the request leaves alone (undefined)
  Records,    \* ids of the records there may be
  Kinds,      \* the kinds of record they may be
  People,     \* possible assignees
  SlaHours,   \* the client's hours per priority; Null for an unknown priority
  DueDates,   \* the due dates people set by hand
  Sessions,   \* sessions that serve requests
  MaxTime     \* bound of the clock

ASSUME TicketsAssumption ==
  /\ Kinds \subseteq {"ServiceRequest", "Incident", "Task", "Risk", "Issue"}
  /\ SlaHours \in [DOMAIN SlaHours -> Nat \cup {Null}]
  /\ DueDates \subseteq Nat
  /\ MaxTime \in Nat
  /\ Null \notin Nat /\ Keep \notin Nat /\ Keep # Null
  /\ {Null, Keep} \cap (People \cup DOMAIN SlaHours) = {}

VARIABLES
  now,      \* the clock
  ticket,   \* the rows; Null for a record that does not exist
  serving   \* the request each session serves

ticketVars == <<now, ticket, serving>>

Priorities == DOMAIN SlaHours

\* TERMINAL_STATUSES
Terminal(kind) ==
  CASE kind = "ServiceRequest" -> {"COMPLETED", "CLOSED", "CANCELLED"}
    [] kind = "Task" -> {"DONE"}
    [] kind = "Risk" -> {"ACCEPTED", "CLOSED"}
    [] OTHER -> {"RESOLVED", "CLOSED"}

\* SR_RESOLVED_STATUSES, INCIDENT_RESOLVED_STATUSES, TASK_RESOLVED_STATUSES;
\* risks and issues have no resolvedAt.
Resolved(kind) ==
  CASE kind = "ServiceRequest" -> {"COMPLETED", "CLOSED"}
    [] kind = "Incident" -> {"RESOLVED", "CLOSED"}
    [] kind = "Task" -> {"DONE"}
    [] OTHER -> {}

Statuses(kind) == {"OPEN"} \cup Terminal(kind)
AllStatuses ==
  {"OPEN", "COMPLETED", "CLOSED", "CANCELLED", "RESOLVED", "ACCEPTED", "DONE"}

\* The kinds whose dueAt the SLA sets, and a person pins; and those with a dueAt.
HasSla(kind) == kind \in {"ServiceRequest", "Incident"}
HasDue(kind) == HasSla(kind) \/ kind = "Task"

Times == 0..MaxTime
Due == Nat \cup {Null}

Row == [kind : Kinds, status : AllStatuses,
        closedAt : Times \cup {Null}, resolvedAt : Times \cup {Null},
        dueAt : Due, dueAtManual : BOOLEAN, priority : Priorities,
        assigneeId : People \cup {Null}, createdAt : Times]

ASSUME NullIsNoRow == Null \notin Row

Exists(r) == ticket[r] # Null

Idle == [op |-> "idle"]

TicketRequest ==
  [op : {"idle"}]
  \cup [op : {"status"}, r : Records, was : AllStatuses, to : AllStatuses, fresh : BOOLEAN]
  \cup [op : {"edit"}, r : Records, wasManual : BOOLEAN, dueAt : Due \cup {Keep},
        dueAtManual : BOOLEAN, priority : Priorities \cup {Keep},
        assigneeId : People \cup {Null, Keep}]

----------------------------------------------------------------------------
(* Creating.                                                               *)

\* computeDueAt of resolveSlaHours; an unknown priority leaves other alone.
DueBySla(base, priority, other) ==
  IF SlaHours[priority] = Null THEN other ELSE base + SlaHours[priority]

NewRow(kind, priority, dueAt, dueAtManual, assigneeId) ==
  [kind |-> kind, status |-> "OPEN", closedAt |-> Null, resolvedAt |-> Null,
   dueAt |-> dueAt, dueAtManual |-> dueAtManual, priority |-> priority,
   assigneeId |-> assigneeId, createdAt |-> now]

\* createForClient of the five services; what it reads first no other request
\* changes, so it is one step.
CreateForClient(s, r) ==
  /\ serving[s] = Idle
  /\ ~Exists(r)
  /\ \E kind \in Kinds, priority \in Priorities, assigneeId \in People \cup {Null} :
       \E dueAt \in IF HasDue(kind) THEN DueDates \cup {Null, Keep} ELSE {Null} :
         /\ HasSla(kind) \/ dueAt # Keep
         /\ ticket' = [ticket EXCEPT ![r] =
           NewRow(kind, priority,
                  IF dueAt = Keep THEN DueBySla(now, priority, Null) ELSE dueAt,
                  HasSla(kind) /\ dueAt # Keep,
                  IF kind = "Incident" THEN Null ELSE assigneeId)]
  /\ UNCHANGED <<now, serving>>

----------------------------------------------------------------------------
(* The reads.                                                              *)

Begin(s, request) ==
  /\ serving[s] = Idle
  /\ serving' = [serving EXCEPT ![s] = request]
  /\ UNCHANGED <<now, ticket>>

\* updateStatusForClient
ReadStatus(s, r) ==
  /\ Exists(r)
  /\ \E to \in Statuses(ticket[r].kind) :
       Begin(s, [op |-> "status", r |-> r, was |-> ticket[r].status,
                 to |-> to, fresh |-> FALSE])

\* closeForClient: a fresh closedAt whatever the record was.
ReadClose(s, r) ==
  /\ Exists(r) /\ ticket[r].kind = "ServiceRequest"
  /\ Begin(s, [op |-> "status", r |-> r, was |-> ticket[r].status,
               to |-> "CLOSED", fresh |-> TRUE])

\* Mutant of Unpinned: the pin is not looked at.
UnpinnedAlways(row) == TRUE

Unpinned(row) == ~row.dueAtManual

\* updateForClient: a due date set or cleared by hand pins it; otherwise a real
\* change of priority recomputes it unless the record read is pinned.  A task has
\* no SLA and no pin, and loses its assignee when the request names none.
ReadEdit(s, r) ==
  /\ Exists(r)
  /\ \E dueAt \in DueDates \cup {Null, Keep}, priority \in Priorities \cup {Keep},
        assigneeId \in People \cup {Null, Keep} :
       LET row == ticket[r]
           recompute == /\ dueAt = Keep /\ priority \notin {Keep, row.priority}
                        /\ HasSla(row.kind)
                        /\ Unpinned(row) /\ SlaHours[priority] # Null
       IN  /\ HasDue(row.kind) \/ (dueAt = Keep /\ priority = Keep)
           /\ row.kind = "Task" => assigneeId # Keep
           /\ Begin(s, [op |-> "edit", r |-> r, wasManual |-> row.dueAtManual,
                        dueAt |-> IF recompute THEN row.createdAt + SlaHours[priority]
                                  ELSE dueAt,
                        dueAtManual |-> HasSla(row.kind) /\ dueAt # Keep,
                        priority |-> priority, assigneeId |-> assigneeId])

----------------------------------------------------------------------------
(* The writes.                                                             *)

End(s) == serving' = [serving EXCEPT ![s] = Idle] /\ UNCHANGED now

\* Mutant of ClosedAtAfter: reopening leaves the date.
ClosedAtAfterKept(q, row) ==
  IF q.to \in Terminal(row.kind) /\ (q.fresh \/ q.was \notin Terminal(row.kind))
  THEN now ELSE row.closedAt

\* Stamped on entering a terminal status, cleared on leaving, kept between two.
ClosedAtAfter(q, row) ==
  IF q.to \notin Terminal(row.kind) THEN Null
  ELSE IF q.fresh \/ q.was \notin Terminal(row.kind) THEN now
  ELSE row.closedAt

\* Mutant of ResolvedAtAfter: every resolved status stamps anew.
ResolvedAtAfterRestamped(q, row) ==
  IF q.to \in Resolved(row.kind) THEN now
  ELSE IF q.was \in Resolved(row.kind) THEN Null ELSE row.resolvedAt

\* Mutant of ResolvedAtAfter: the moment is never cleared.
ResolvedAtAfterSticky(q, row) ==
  IF q.to \in Resolved(row.kind) /\ q.was \notin Resolved(row.kind)
  THEN now ELSE row.resolvedAt

\* resolvedAtUpdate
ResolvedAtAfter(q, row) ==
  LET was == q.was \in Resolved(row.kind)
      is  == q.to \in Resolved(row.kind)
  IN  IF is /\ ~was THEN now ELSE IF was /\ ~is THEN Null ELSE row.resolvedAt

WriteStatus(s) ==
  /\ serving[s].op = "status"
  /\ LET q == serving[s]  row == ticket[q.r]
     IN  ticket' = [ticket EXCEPT ![q.r] =
           [row EXCEPT !.status = q.to,
                       !.closedAt = ClosedAtAfter(q, row),
                       !.resolvedAt = ResolvedAtAfter(q, row)]]
  /\ End(s)

\* Mutant of Given: an absent field is written too.
GivenRaw(value, old) == value

Given(value, old) == IF value = Keep THEN old ELSE value

WriteEdit(s) ==
  /\ serving[s].op = "edit"
  /\ LET q == serving[s]  row == ticket[q.r]
     IN  ticket' = [ticket EXCEPT ![q.r] =
           [row EXCEPT !.dueAt = Given(q.dueAt, @),
                       !.dueAtManual = IF q.dueAt = Keep THEN @ ELSE q.dueAtManual,
                       !.priority = Given(q.priority, @),
                       !.assigneeId = Given(q.assigneeId, @)]]
  /\ End(s)

\* The process dies, or the database fails, between the read and the write.
Fail(s) ==
  /\ serving[s].op \in {"status", "edit"}
  /\ UNCHANGED ticket
  /\ End(s)

----------------------------------------------------------------------------

Tick ==
  /\ now < MaxTime
  /\ now' = now + 1
  /\ UNCHANGED <<ticket, serving>>

TicketStep ==
  \/ \E s \in Sessions, r \in Records :
       CreateForClient(s, r) \/ ReadStatus(s, r) \/ ReadClose(s, r) \/ ReadEdit(s, r)
  \/ \E s \in Sessions : WriteStatus(s) \/ WriteEdit(s) \/ Fail(s)
  \/ Tick

TicketsInit ==
  /\ now = 0
  /\ ticket = [r \in Records |-> Null]
  /\ serving = [s \in Sessions |-> Idle]

TicketsSpec == TicketsInit /\ [][TicketStep]_ticketVars

----------------------------------------------------------------------------
(* Properties.                                                             *)

\* Every row, and every request, is one the schema and the handlers allow.
TicketsTypeOK ==
  /\ now \in Times
  /\ ticket \in [Records -> Row \cup {Null}]
  /\ \A r \in Records : Exists(r) =>
       /\ ticket[r].status \in Statuses(ticket[r].kind)
       /\ ticket[r].dueAtManual => HasSla(ticket[r].kind)
  /\ \A s \in Sessions : serving[s].op \in {"status", "edit"} =>
       /\ serving[s] \in TicketRequest
       /\ Exists(serving[s].r)
       /\ serving[s].op = "status" => serving[s].to \in Statuses(ticket[serving[s].r].kind)

Live(r) == Exists(r) /\ ticket[r].status \notin Terminal(ticket[r].kind)
Closed(r) == Exists(r) /\ ticket[r].status \in Terminal(ticket[r].kind)
IsResolved(r) == Exists(r) /\ ticket[r].status \in Resolved(ticket[r].kind)

\* However requests overlap, a record of the live list carries no closedAt
\* (updateStatus and close).  Only that direction holds of overlapping requests:
\* a change between two terminal statuses keeps the date it finds, so that one
\* computed before a reopening leaves a closed record without a date, and a row of
\* the history list without one is possible.
LiveHasNoClosedAt == \A r \in Records : Live(r) => ticket[r].closedAt = Null

DatesRight(r) ==
  Exists(r) => /\ Closed(r) <=> ticket[r].closedAt # Null
               /\ IsResolved(r) <=> ticket[r].resolvedAt # Null

\* The step writes a status computed from one the record no longer has.
StaleStatusWrite(r) ==
  \E s \in Sessions :
    /\ serving[s].op = "status" /\ serving[s].r = r
    /\ serving[s].was # ticket[r].status
    /\ serving'[s] = Idle

\* closedAt and resolvedAt are there exactly while the record is terminal or
\* resolved (resolved-status.ts:5), and nothing but a write computed from a
\* status that has changed since can break that.
DatesFollowStatus ==
  [][\A r \in Records : DatesRight(r) => DatesRight(r)' \/ StaleStatusWrite(r)]_ticketVars

\* While a record stays resolved its resolvedAt stays the moment it was first
\* resolved, whatever statuses it moves between, unless such a write overtakes.
ResolvedMomentKept ==
  [][\A r \in Records :
       IsResolved(r) /\ ticket[r].resolvedAt # Null /\ IsResolved(r)'
         => ticket'[r].resolvedAt = ticket[r].resolvedAt \/ StaleStatusWrite(r)]_ticketVars

Pinned(r) == Exists(r) /\ ticket[r].dueAtManual

\* A due date set by hand is not recomputed: only a request that read the record
\* before it was pinned can unpin it.
PinHolds ==
  [][\A r \in Records : Pinned(r) /\ ~Pinned(r)' =>
       \E s \in Sessions : /\ serving[s].op = "edit" /\ serving[s].r = r
                           /\ ~serving[s].wasManual /\ serving'[s] = Idle]_ticketVars
=============================================================================
