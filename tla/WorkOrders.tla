----------------------------- MODULE WorkOrders -----------------------------
(***************************************************************************)
(* Work orders that carry a physical operation: the Tasks and Changes that *)
(* AssetsService.raiseWorkOrder opens, the operation it stages on the      *)
(* asset, and the completion hook that applies it.                         *)
(*   assets/assets.service.ts, tasks/tasks.service.ts,                     *)
(*   changes/changes.service.ts, work-orders/apply-pending.ts              *)
(*                                                                         *)
(* No transaction spans these steps, so each request is a sequence of      *)
(* session steps: read, write the status, look up the waiting asset, write *)
(* the asset.  A request may die between any two of them (the process      *)
(* stops, or the database refuses a statement: the hook's catch swallows   *)
(* that and the status update still succeeds).                             *)
(*                                                                         *)
(* Where an asset stands is one of Slots; module Rack has the geometry.    *)
(***************************************************************************)
EXTENDS Integers

CONSTANTS
  Null,
  Assets,
  Internal,       \* the assets with ownerType INTERNAL: their clientId is null
  Orders,         \* ids of the Tasks and ChangeRequests to be raised
  Slots,
  Sessions,       \* concurrent requests
  Lifecycles,     \* lifecycle states that asset edits ask for
  TaskAsks,       \* statuses that task updates ask for
  ChangeAsks      \* statuses that change updates ask for

TaskStatuses == {"OPEN", "IN_PROGRESS", "BLOCKED", "DONE"}
ChangeStatuses == {"DRAFT", "SUBMITTED", "PENDING_APPROVAL", "APPROVED", "REJECTED",
                   "IN_PROGRESS", "COMPLETED", "CLOSED", "CANCELLED"}

\* TERMINAL_STATUSES.task and .change, and TASK_RESOLVED_STATUSES
TaskTerminal == {"DONE"}
ChangeTerminal == {"COMPLETED", "CLOSED", "CANCELLED", "REJECTED"}

LifecycleStates == {"PLANNED", "PROCUREMENT", "STAGING", "ACTIVE", "RETIRED"}
Ops == {"INSTALL", "DECOMMISSION", "MOVE"}

ASSUME WorkOrdersAssumption ==
  /\ Null \notin Assets \cup Orders \cup Slots \cup LifecycleStates \cup Ops
  /\ Internal \subseteq Assets
  /\ Lifecycles \subseteq LifecycleStates
  /\ TaskAsks \subseteq TaskStatuses
  /\ ChangeAsks \subseteq ChangeStatuses

VARIABLES
  asset,    \* lifecycle, place and staged operation of each asset
  order,    \* the Task and ChangeRequest rows
  sess,     \* the request each session is serving
  lost,     \* orders whose hook died before it could write (history)
  effects   \* how often the operation of each order took effect (history)

vars == <<asset, order, sess, lost, effects>>

----------------------------------------------------------------------------

AssetRow ==
  [db : {"stored", "deleted"}, state : LifecycleStates, at : Slots \cup {Null},
   op : Ops \cup {Null},            \* pendingOp
   wo : Orders \cup {Null},         \* pendingWorkOrderType and pendingWorkOrderId
   target : Slots \cup {Null}]      \* pendingTarget*

OrderRow ==
  [kind : {"unborn", "task", "change"}, for : Assets \cup {Null},
   status : TaskStatuses \cup ChangeStatuses \cup {Null},
   closed : BOOLEAN,                \* closedAt is set
   resolved : BOOLEAN]              \* resolvedAt is set (tasks only)

NoOrder == [kind |-> "unborn", for |-> Null, status |-> Null,
            closed |-> FALSE, resolved |-> FALSE]

Stored(a) == asset[a].db = "stored"
Born(w) == order[w].kind # "unborn"

Terminal(kind) == IF kind = "task" THEN TaskTerminal ELSE ChangeTerminal
Asks(kind) == IF kind = "task" THEN TaskAsks ELSE ChangeAsks

Idle == [pc |-> "idle"]

Session ==
  [pc : {"idle"}]
  \cup [pc : {"open"}, a : Assets, kind : {"task", "change"}, op : Ops,
        target : Slots \cup {Null}]
  \cup [pc : {"stage"}, w : Orders, a : Assets, op : Ops, target : Slots \cup {Null}]
  \cup [pc : {"status"}, w : Orders, from : TaskStatuses \cup ChangeStatuses,
        to : TaskStatuses \cup ChangeStatuses]
  \cup [pc : {"approval"}, w : Orders, to : ChangeStatuses]
  \cup [pc : {"apply", "abandon"}, w : Orders]
  \cup [pc : {"settle"}, w : Orders, a : Assets, op : Ops,
        state : LifecycleStates \cup {Null}, at : Slots \cup {Null}]

Step(s, next) == sess' = [sess EXCEPT ![s] = next]

\* A slot no other asset still in the rack occupies (assertUSlotAvailable).
Free(slot, a) == \A b \in Assets \ {a} : Stored(b) => asset[b].at # slot

\* The hook's re-check: no other asset in service occupies it.
FreeOfLive(slot, a) ==
  \A b \in Assets \ {a} :
     Stored(b) /\ asset[b].state # "RETIRED" => asset[b].at # slot

----------------------------------------------------------------------------
(* raiseWorkOrder: read and check, open the order, stage the operation.    *)

\* Mutant of RaiseAllowed: an asset that already waits for an order may get another.
RaiseAllowedTwice(a, op, target) ==
  /\ Stored(a)
  /\ op = "INSTALL" => asset[a].state = "PLANNED"
  /\ op = "DECOMMISSION" => asset[a].state # "RETIRED"
  /\ IF op = "MOVE" THEN asset[a].state = "ACTIVE" /\ target # Null /\ Free(target, a)
                    ELSE target = Null

RaiseAllowed(a, op, target) ==
  /\ Stored(a) /\ asset[a].op = Null
  /\ op = "INSTALL" => asset[a].state = "PLANNED"
  /\ op = "DECOMMISSION" => asset[a].state # "RETIRED"
  /\ IF op = "MOVE" THEN asset[a].state = "ACTIVE" /\ target # Null /\ Free(target, a)
                    ELSE target = Null

RaiseWorkOrder(s) ==
  \E a \in Assets, op \in Ops, kind \in {"task", "change"}, target \in Slots \cup {Null} :
    /\ sess[s].pc = "idle"
    /\ RaiseAllowed(a, op, target)
    /\ Step(s, [pc |-> "open", a |-> a, kind |-> kind, op |-> op, target |-> target])
    /\ UNCHANGED <<asset, order, lost, effects>>

\* TasksService.createForClient or ChangesService.createForClient
OpenOrder(s) ==
  \E w \in Orders :
    LET q == sess[s] IN
    /\ q.pc = "open"
    /\ ~Born(w)
    /\ order' = [order EXCEPT ![w] =
         [NoOrder EXCEPT !.kind = q.kind, !.for = q.a,
                         !.status = IF q.kind = "task" THEN "OPEN" ELSE "DRAFT"]]
    /\ Step(s, [pc |-> "stage", w |-> w, a |-> q.a, op |-> q.op, target |-> q.target])
    /\ UNCHANGED <<asset, lost, effects>>

StageOp(s) ==
  LET q == sess[s] IN
  /\ q.pc = "stage"
  /\ asset' = IF Stored(q.a)
       THEN [asset EXCEPT ![q.a].op = q.op, ![q.a].wo = q.w, ![q.a].target = q.target]
       ELSE asset
  /\ Step(s, Idle)
  /\ UNCHANGED <<order, lost, effects>>

----------------------------------------------------------------------------
(* updateStatusForClient of tasks and of changes.                          *)

ReadOrder(s) ==
  \E w \in Orders :
    /\ sess[s].pc = "idle" /\ Born(w)
    /\ \E to \in Asks(order[w].kind) :
         Step(s, [pc |-> "status", w |-> w, from |-> order[w].status, to |-> to])
    /\ UNCHANGED <<asset, order, lost, effects>>

\* Mutant of Dates: reopening an order leaves its dates behind.
DatesKeptOnReopen(row, from, to) ==
  LET terminal == Terminal(row.kind)
  IN  [row EXCEPT
        !.status = to,
        !.closed = @ \/ to \in terminal,
        !.resolved = @ \/ (row.kind = "task" /\ to = "DONE")]

\* The row a status update writes, closedAt and resolvedAt computed from the status
\* that was read: stamped on entry, kept while it lasts, cleared on leaving.
Dates(row, from, to) ==
  LET terminal == Terminal(row.kind)
  IN  [row EXCEPT
        !.status = to,
        !.closed = IF to \notin terminal THEN FALSE
                   ELSE IF from \in terminal THEN @ ELSE TRUE,
        !.resolved = IF row.kind # "task" \/ (to = "DONE" <=> from = "DONE") THEN @
                     ELSE to = "DONE"]

\* Mutant of HookOf: cancelling a change forgets the asset that waits for it.
HookOfCompletionOnly(kind, to) ==
  IF to \in {"DONE", "COMPLETED"} THEN "apply" ELSE "idle"

\* Which hook a status runs.
HookOf(kind, to) ==
  CASE kind = "task" /\ to = "DONE" -> "apply"
    [] kind = "change" /\ to = "COMPLETED" -> "apply"
    [] kind = "change" /\ to = "CANCELLED" -> "abandon"
    [] OTHER -> "idle"

WriteStatus(s) ==
  LET q == sess[s] IN
  /\ q.pc = "status"
  /\ order' = [order EXCEPT ![q.w] = Dates(@, q.from, q.to)]
  /\ LET hook == HookOf(order[q.w].kind, q.to)
     IN  Step(s, IF hook = "idle" THEN Idle ELSE [pc |-> hook, w |-> q.w])
  /\ UNCHANGED <<asset, lost, effects>>

----------------------------------------------------------------------------
(* ChangesService.addApproval: the decision becomes the status, or the     *)
(* status read is written back; no date is touched and no hook runs.       *)

ReadForApproval(s) ==
  \E w \in Orders, decision \in {"APPROVED", "REJECTED", "DEFERRED"} :
    /\ sess[s].pc = "idle" /\ order[w].kind = "change"
    /\ Step(s, [pc |-> "approval", w |-> w,
                to |-> IF decision = "DEFERRED" THEN order[w].status ELSE decision])
    /\ UNCHANGED <<asset, order, lost, effects>>

WriteApproval(s) ==
  LET q == sess[s] IN
  /\ q.pc = "approval"
  /\ order' = [order EXCEPT ![q.w].status = q.to]
  /\ Step(s, Idle)
  /\ UNCHANGED <<asset, lost, effects>>

----------------------------------------------------------------------------
(* applyCompletedWorkOrder and abandonWorkOrder.                           *)

\* findWaitingAsset: the clientId in its `where` never matches an internal asset.
Waiting(w) == {a \in Assets \ Internal : Stored(a) /\ asset[a].wo = w /\ asset[a].op # Null}

\* Mutant of Precondition: the operation is applied as staged.
PreconditionAsStaged(a) == TRUE

\* What must still hold of the asset for its operation to take effect.
Precondition(a) ==
  CASE asset[a].op = "INSTALL" -> asset[a].state = "PLANNED"
    [] asset[a].op = "DECOMMISSION" -> asset[a].state # "RETIRED"
    [] asset[a].op = "MOVE" -> asset[a].state = "ACTIVE" /\ FreeOfLive(asset[a].target, a)

\* The columns the hook will write besides the pending ones; Null: left alone.
Outcome(a, hook) ==
  LET takes == hook = "apply" /\ Precondition(a)
  IN  [state |-> IF ~takes THEN Null
                 ELSE CASE asset[a].op = "INSTALL" -> "ACTIVE"
                        [] asset[a].op = "DECOMMISSION" -> "RETIRED"
                        [] asset[a].op = "MOVE" -> Null,
       at    |-> IF takes /\ asset[a].op = "MOVE" THEN asset[a].target ELSE Null]

\* Mutant of FindWaiting: an operation that no longer applies is left staged.
FindWaitingLeavesStale(s) ==
  LET q == sess[s] IN
  /\ q.pc \in {"apply", "abandon"}
  /\ \/ /\ \A a \in Waiting(q.w) : q.pc = "apply" /\ ~Precondition(a)
        /\ Step(s, Idle)
     \/ \E a \in Waiting(q.w) :
          /\ q.pc = "abandon" \/ Precondition(a)
          /\ Step(s, [pc |-> "settle", w |-> q.w, a |-> a, op |-> asset[a].op,
                      state |-> Outcome(a, q.pc).state, at |-> Outcome(a, q.pc).at])
  /\ UNCHANGED <<asset, order, lost, effects>>

\* The hook reads the waiting asset and the occupants of its target, and decides.
FindWaiting(s) ==
  LET q == sess[s] IN
  /\ q.pc \in {"apply", "abandon"}
  /\ \/ Waiting(q.w) = {} /\ Step(s, Idle)
     \/ \E a \in Waiting(q.w) :
          Step(s, [pc |-> "settle", w |-> q.w, a |-> a, op |-> asset[a].op,
                   state |-> Outcome(a, q.pc).state, at |-> Outcome(a, q.pc).at])
  /\ UNCHANGED <<asset, order, lost, effects>>

\* Mutant of Settled: clearPending leaves the target behind.
SettledKeepsTarget(row, q) ==
  [row EXCEPT !.op = Null, !.wo = Null,
              !.state = IF q.state = Null THEN @ ELSE q.state,
              !.at = IF q.at = Null THEN @ ELSE q.at]

\* The row after the hook's update; clearPending clears every pending column.
Settled(row, q) ==
  [row EXCEPT !.op = Null, !.wo = Null, !.target = Null,
              !.state = IF q.state = Null THEN @ ELSE q.state,
              !.at = IF q.at = Null THEN @ ELSE q.at]

TakesEffect(q) == q.state # Null \/ q.at # Null

\* Mutant of Settle: the marker stays on the asset.
SettleKeepsMarker(s) ==
  LET q == sess[s] IN
  /\ q.pc = "settle"
  /\ asset' = IF ~Stored(q.a) THEN asset
       ELSE [asset EXCEPT ![q.a].state = IF q.state = Null THEN @ ELSE q.state,
                          ![q.a].at = IF q.at = Null THEN @ ELSE q.at]
  /\ effects' = IF Stored(q.a) /\ TakesEffect(q)
                  THEN [effects EXCEPT ![q.w] = @ + 1] ELSE effects
  /\ Step(s, Idle)
  /\ UNCHANGED <<order, lost>>

\* The hook's one update: the effect, if any, and clearPending.
Settle(s) ==
  LET q == sess[s] IN
  /\ q.pc = "settle"
  /\ asset' = IF Stored(q.a) THEN [asset EXCEPT ![q.a] = Settled(@, q)] ELSE asset
  /\ effects' = IF Stored(q.a) /\ TakesEffect(q)
                  THEN [effects EXCEPT ![q.w] = @ + 1] ELSE effects
  /\ Step(s, Idle)
  /\ UNCHANGED <<order, lost>>

----------------------------------------------------------------------------
(* The asset's own endpoints, which never look at the staged operation.    *)

SetAsset(s, a, row) ==
  /\ sess[s].pc = "idle" /\ Stored(a)
  /\ asset' = [asset EXCEPT ![a] = row]
  /\ UNCHANGED <<order, sess, lost, effects>>

\* updateForClient, importFromCsv and decommission RETIRE
SetLifecycle(s) ==
  \E a \in Assets, state \in Lifecycles :
    state # asset[a].state /\ SetAsset(s, a, [asset[a] EXCEPT !.state = state])

\* updateForClient with a position or with null, and decommission REMOVE
SetPlace(s) ==
  \E a \in Assets :
    \/ \E slot \in Slots : Free(slot, a) /\ SetAsset(s, a, [asset[a] EXCEPT !.at = slot])
    \/ asset[a].at # Null /\ SetAsset(s, a, [asset[a] EXCEPT !.at = Null])

RemoveForClient(s) ==
  \E a \in Assets :
    SetAsset(s, a, [db |-> "deleted", state |-> "RETIRED", at |-> Null,
                    op |-> Null, wo |-> Null, target |-> Null])

----------------------------------------------------------------------------

\* A request dies: the process stops, or a statement is refused.
Fail(s) ==
  /\ sess[s].pc # "idle"
  /\ lost' = IF sess[s].pc \in {"apply", "abandon", "settle"}
               THEN lost \cup {sess[s].w} ELSE lost
  /\ Step(s, Idle)
  /\ UNCHANGED <<asset, order, effects>>

Init ==
  /\ asset = [a \in Assets |-> [db |-> "stored", state |-> "PLANNED", at |-> Null,
                                op |-> Null, wo |-> Null, target |-> Null]]
  /\ order = [w \in Orders |-> NoOrder]
  /\ sess = [s \in Sessions |-> Idle]
  /\ lost = {}
  /\ effects = [w \in Orders |-> 0]

\* The steps of a request already being served.
Continue(s) ==
  OpenOrder(s) \/ StageOp(s) \/ WriteStatus(s) \/ WriteApproval(s)
    \/ FindWaiting(s) \/ Settle(s)

Request(s) ==
  RaiseWorkOrder(s) \/ ReadOrder(s) \/ ReadForApproval(s)
    \/ SetLifecycle(s) \/ SetPlace(s) \/ RemoveForClient(s)

Next == \E s \in Sessions : Request(s) \/ Continue(s) \/ Fail(s)

\* An async handler that has started runs on until it returns or fails.
Fairness == \A s \in Sessions : WF_vars(Continue(s))

Spec == Init /\ [][Next]_vars /\ Fairness

----------------------------------------------------------------------------
(* Properties.                                                             *)

\* Well-formed rows and requests: the pending columns are set and cleared
\* together, a target goes with MOVE, and an asset waits for an order raised for it.
TypeOK ==
  /\ asset \in [Assets -> AssetRow]
  /\ order \in [Orders -> OrderRow]
  /\ sess \in [Sessions -> Session]
  /\ lost \subseteq Orders
  /\ effects \in [Orders -> Nat]
  /\ \A a \in Assets :
       /\ asset[a].op = Null <=> asset[a].wo = Null
       /\ asset[a].op = "MOVE" <=> asset[a].target # Null
       /\ asset[a].wo # Null => order[asset[a].wo].for = a

Quiet == \A s \in Sessions : sess[s].pc = "idle"

\* The statuses that run a hook.
Finished == {"DONE", "COMPLETED", "CANCELLED"}

\* Between requests, no client-owned asset still waits for a work order that is done,
\* completed or cancelled, unless the hook died: finishing the order settled the
\* operation even when its precondition had gone.  (Requests one at a time.)
FinishedOrderLetsGo ==
  \A a \in Assets \ Internal :
    LET w == asset[a].wo IN
    Quiet /\ w # Null /\ w \notin lost => order[w].status \notin Finished

\* The operation of an order takes effect at most once, however often the order is
\* completed, reopened and completed again, and whatever requests die on the way.
\* (apply-pending.ts: "Best-effort and idempotent"; requests one at a time.)
AppliedAtMostOnce == \A w \in Orders : effects[w] <= 1

\* What q is about to apply is still called for.
Valid(q) ==
  \/ q.op = "INSTALL" /\ asset[q.a].state = "PLANNED"
  \/ q.op = "DECOMMISSION" /\ asset[q.a].state # "RETIRED"
  \/ q.op = "MOVE" /\ asset[q.a].state = "ACTIVE" /\ FreeOfLive(q.at, q.a)

\* An install activates only an asset that is still planned, a decommission retires
\* one that is not retired, and a move relocates one that is active, into a slot
\* no asset in service holds at that moment.  (apply-pending.ts: "Only a
\* still-PLANNED asset activates; anything else just clears".)
EffectOnlyWhenValid ==
  [][\A s \in Sessions :
       sess[s].pc = "settle" /\ effects'[sess[s].w] > effects[sess[s].w] =>
         Valid(sess[s])]_vars

\* An operation that is staged stays until it is settled: no other order takes its
\* place, whichever requests die between opening an order and staging it.
\* (assets.service.ts: "One pending op per asset"; requests one at a time.)
StagedOpNotReplaced ==
  [][\A a \in Assets : asset[a].wo # Null => asset'[a].wo \in {asset[a].wo, Null}]_vars

\* A task's two dates say what its status says.  (resolved-status.ts: "resolvedAt is
\* non-null iff the record is currently resolved"; requests one at a time.)
TaskDatesMatchStatus ==
  \A w \in Orders : order[w].kind = "task" =>
    /\ order[w].resolved <=> order[w].status = "DONE"
    /\ order[w].closed <=> order[w].status = "DONE"

(* Why these hold.  With any number of requests at once: *)

OrdersFit ==
  \A w \in Orders :
    /\ order[w].kind = "unborn" => order[w] = NoOrder
    /\ order[w].kind = "task" => order[w].status \in TaskStatuses
    /\ order[w].kind = "change" => order[w].status \in ChangeStatuses

FlightFits ==
  \A s \in Sessions :
    LET q == sess[s] IN
    /\ q.pc \in {"open", "stage"} => (q.op = "MOVE" <=> q.target # Null)
    /\ q.pc = "stage" => order[q.w].for = q.a
    /\ q.pc = "status" => Born(q.w) /\ q.to \in Asks(order[q.w].kind)
    /\ q.pc = "approval" => order[q.w].kind = "change"

TypeInv == TypeOK /\ OrdersFit /\ FlightFits

(* With one request at a time: what it has read still holds, an order whose *)
(* operation took effect is waited for no more, and a finished order that   *)
(* is still waited for is in the hands of its hook.                         *)

Current(q) ==
  /\ q.pc \in {"open", "stage"} => asset[q.a].op = Null
  /\ q.pc = "stage" => order[q.w].status \notin Finished /\ effects[q.w] = 0
  /\ q.pc = "status" => q.from = order[q.w].status
  /\ q.pc = "approval" => q.to \in {"APPROVED", "REJECTED", order[q.w].status}
  /\ q.pc = "settle" =>
        Stored(q.a) /\ asset[q.a].wo = q.w /\ (TakesEffect(q) => Valid(q))

FlightCurrent == \A s \in Sessions : Current(sess[s])

DeletedWaitsForNone == \A a \in Assets : ~Stored(a) => asset[a].wo = Null

EffectSpendsOrder ==
  \A w \in Orders :
    /\ effects[w] \in {0, 1}
    /\ effects[w] = 1 => Born(w) /\ \A a \in Assets : asset[a].wo # w

InHand(q, w) == q.pc \in {"apply", "abandon", "settle"} /\ q.w = w

FinishedInHand ==
  \A a \in Assets \ Internal :
    LET w == asset[a].wo IN
    w # Null /\ w \notin lost /\ order[w].status \in Finished =>
      \E s \in Sessions : InHand(sess[s], w)

\* The inductive invariant of the serial system.
SerialInv ==
  /\ TypeInv /\ FlightCurrent /\ DeletedWaitsForNone
  /\ EffectSpendsOrder /\ FinishedInHand /\ TaskDatesMatchStatus

\* Once the hook of a finished order runs, the asset that waits for it is let go, or
\* the hook dies, or the asset is deleted.
HookSettles ==
  \A s \in Sessions, w \in Orders, a \in Assets \ Internal :
    (sess[s].pc \in {"apply", "abandon"} /\ sess[s].w = w /\ asset[a].wo = w)
      ~> (asset[a].wo # w \/ w \in lost \/ ~Stored(a))

\* The comment over abandonWorkOrder: "A REJECTED/CANCELLED change abandons its
\* staged op - clear the marker so the asset stops showing a pending shadow".
RejectedOrderLetsGo ==
  \A a \in Assets \ Internal :
    LET w == asset[a].wo IN
    Quiet /\ w # Null /\ w \notin lost => order[w].status # "REJECTED"

\* list-scope.ts: a record is live until it reaches a terminal status, "then it's
\* history"; the History list selects on closedAt, so a terminal change must have it.
TerminalChangeHasClosedAt ==
  \A w \in Orders :
    order[w].kind = "change" /\ order[w].status \in ChangeTerminal => order[w].closed
=============================================================================
