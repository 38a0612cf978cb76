# A TLA+ model of dcim-service-mgmt

This directory holds TLA+ specifications of the API server in `src/apps/api`
(NestJS, Prisma, Postgres) and of the offline queue of the web application in
`src/apps/web`, the TLC configurations that check them on small instances, and
TLAPS proofs of the results that matter most. `PROJECT.json` maps
every definition that models code to the lines it translates, and lists the
runs, the mutants that show each property can fail, the findings, the hazards
and the theorems.

To check a module: `tlc -config MCRack_placement.cfg MCRack.tla`; to check the
proofs: `tlapm RackProofs.tla`.

1. [The system](#1-the-system)
2. [What is modelled, and how it corresponds to the code](#2-what-is-modelled)
3. [The runs](#3-the-runs)
4. [The proofs](#4-the-proofs)
5. [Where code and documentation disagree](#5-where-code-and-documentation-disagree)
6. [What is not modelled](#6-what-is-not-modelled)
7. [Plan](#7-plan)

## 1. The system

A multi-tenant service desk with a data-centre inventory. The state is one
Postgres database; a request is one async handler that reads rows, checks them,
and writes rows, usually in several separate statements. The facts that shape
every hard behaviour:

- **No isolation.** `$transaction` is used here and there, always at Postgres'
  default READ COMMITTED and never with a lock, so a check and the write it
  guards are two steps between which any other request may commit. Almost no rule
  is backed by a database constraint.
- **No atomicity across statements.** Most operations (status, audit row, hook,
  notification) are a sequence of autocommitted statements. A process that stops
  or a statement that is refused leaves the earlier ones in place; several callers
  catch and swallow exceptions of what they call a "best-effort" side effect.
- **Time.** Reservations expire by the wall clock, sweeps run on a schedule, and a
  work order may be completed months after it was checked.
- **Bad connections.** Engineers answer checks in data halls. The page saves every answer
  and photo to IndexedDB and replays them when it can: requests and replies get lost,
  tabs are closed, and the server may see an answer late, after a newer one, or a photo twice.

| component (code under `src/apps/api/src`) | state | operations | what makes it correct |
|---|---|---|---|
| U-slot geometry (`cabinets/u-slot.util.ts`) | none | interval and face conflict, bounds, active-reservation filter | the test is exactly "the two fill a common unit of a face" |
| Assets: placement and lifecycle (`assets`) | `Asset`: cabinet, position, side, height, depth, lifecycle, removed mark | create, update, delete, decommission RETIRE/REMOVE/DISPOSE, CSV import, backfill of the rack side | no two devices fill the same space; retired kit blocks its units until it is pulled; columns stay in step |
| Reservations (`cabinets/reservations.service.ts`) | `CabinetReservation`: range, side, expiry | create, update, delete; expiry | a hold excludes other holds and unnamed assets while active |
| Cabinets, sites, rooms (`cabinets`, `sites`) | frame size, layout | create, resize, delete | placed kit stays inside the frame |
| Capacity and find-space (`dcim`) | none (derived) | free-block scan, overview, suggestions | what is suggested is what the placement check accepts |
| Work-order fusion (`assets.raiseWorkOrder`, `work-orders/apply-pending.ts`) | the pending columns of `Asset` | raise, complete, abandon | an operation takes effect once, only while it is still called for, and a finished order lets its asset go |
| Tasks, changes (`tasks`, `changes`) | status, `closedAt`, `resolvedAt`, approvals | create, set status, approve | the dates say what the status says |
| Service requests, incidents, risks, issues | the same columns with other status sets, due date and pin | create, edit, set status, close | the same; a due date set by hand stays |
| Checks (`checks`) | status, items, answers, rework flags | create, reschedule, start, answer, add an item, submit, flag, approve, return, cancel | a check under review or passed has all its required answers; final states are final; rework flags last until the next submission |
| Offline field work (`apps/web/src/lib/offline`, `CheckDetailPage.tsx`) | in IndexedDB: answers, replay queue; in memory: the running drain | save, cache the document, queue a photo, drain, submit, clear, reopen | when nothing is queued the server has what the engineer sees; one bad entry blocks nothing |
| Triage, public submissions, request intakes | status and link to the record converted to | submit, review, convert, reject | one record per submission; duplicates within the window refused |
| Due-date sweep (`notifications`, `record-watch`) | one marker per record and signal, watchers | sweep, watch, emit | each alert is sent once, and is sent |
| Quotes, opportunities, work packages | versions, status, primary mark, line items, link to the work package | create, edit, replace lines, revise, move a stage, engage | one live version; the newest is primary; a sent quote does not change; one work package per deal |
| Ports, connections | ends, pass-through pairs | connect, re-end, pair, unpair, trace | pairing is symmetric; a cable ends at ports of its assets; a trace is the same from everywhere on it |
| Maintenance log | `lastMaintenanceAt` cached on the asset | add, edit, delete | the cache is the newest entry |
| Authentication, users, clients, CRM, documents, comments, provisioning, search, reports, screens | rows, tokens, blobs, remote folders | CRUD and remote calls | scope and role checks |

The components meet in four places. Placement, reservations and capacity read each
other's tables and share the geometry. `raiseWorkOrder` opens a Task or a Change
through its service and writes the pending columns of the asset; completing the
Task or Change calls back into `work-orders/apply-pending.ts`, which writes the
asset. Triage creates service requests, incidents and tasks, and the sweep reads those and
writes alerts about them, while their own services change them. And the device of an
engineer replays its queue to the checks service while people in the office work on
the same check.

`PROJECT.json` lists every component with its modelling status, and under
`hazards` the places where each of these can go wrong, by line.

## 2. What is modelled

```
USlots ──── Capacity ───┐
   └─ Rack ─────────────┴─ FindSpace ── MCRack                run rack_*
        └─ RackProofs ── FindSpaceProofs
WorkOrders ── MCWorkOrders                                    run work_orders_*
        └─ WorkOrdersProofs
CheckReview (abstract)
   ↑ implemented by
Checks ── FieldWork ── MCFieldWork                            run field_work_*
              └─ ChecksProofs
Tickets ─┬─ Intake ─┬─ ServiceDesk ── MCServiceDesk           run service_desk
         └─ Sweep ──┘        └─ ServiceDeskProofs ── IntakeProofs
            ┌─ Deals ───────┐
Registers ──┼─ Cabling ─────┼─ BackOffice ── MCBackOffice     run back_office
            └─ Maintenance ─┘       └─ BackOfficeProofs ── DealsProofs
```

In all of them a handler that checks and then writes is two steps or more, with the
request it serves held by its session in between; a session may lose its process
there; and a transaction, READ COMMITTED as all of them are, is a step that takes what
its first statement sees and a step that commits. A refused request writes nothing
and is the absence of a step.

### USlots, Capacity: the pure functions

`USlots` translates `u-slot.util.ts`: a missing or non-positive height counts as one
unit, a missing face clashes with both, and two devices share a unit only if both
are half depth on opposite faces. Its second part is *not* code: `Cells(p)` is the
set of (unit, face) pairs that a device physically fills, the reference against
which the code's test is judged. `Capacity` is the free-block scan of
`capacity.util.ts` as a fold over the units of the frame, the loop's `runStart`
register and output list being the accumulator.

### Rack: assets, reservations and frames

State: the `Asset` and `CabinetReservation` rows (the columns that placement reads;
`db` says whether the row exists), each cabinet's `totalU`, the clock, and one
request per session. A handler is two steps:

1. its own action (`Create`, `UpdateForClient`, `Retire`, `ApplyMove`, ...): the reads, all
   checks, early returns and the computation of the row, which goes into `sess[s]`;
2. `CommitAsset` / `CommitReservation`: the `UPDATE`, which writes only the columns
   that this operation names (`Columns`) into whatever the row holds *by then*, or
   does nothing because the row is gone.

With several sessions any commits fall between the two steps, which is what READ
COMMITTED allows; with one session the handlers are serial. A refused request
writes nothing and is the absence of a step. Kept from the code: which rows block
(`Occupies`: retired kit blocks until pulled; zero-U kit never does), the different
and weaker test of the MOVE completion (`MoveTargetFree`: live kit only, no bounds,
no reservations), the CSV import that moves a device to another cabinet with its
old position and no check, the reservation update whose range is checked only when
the geometry changes, `overrideReservationId`, the resize that looks at nothing
that is placed, and the listing that sets every null rack side to FRONT.

Abstracted: units are integers, ids are never reused, wording and audit rows are left
out. All reads of one handler are taken at one instant.

### FindSpace

The search of `capacity.service.ts` over the state of `Rack`. `SuggestionsMatchCheck`
compares two pieces of code that were written separately: the block scan, and
`assertUSlotAvailable`.

### WorkOrders: the life of a staged operation

State: the asset's lifecycle, place and pending columns; the Task and Change rows
(status, `closedAt`, `resolvedAt` as booleans); one request per session, with a program
counter. Here the statements of a request are separate steps, because it is between
them that things happen:

| step | code |
|---|---|
| `RaiseWorkOrder`, `OpenOrder`, `StageOp` | `raiseWorkOrder`: check the asset, create the order through its service, write the pending columns |
| `ReadOrder`, `WriteStatus` | `updateStatusForClient` of tasks and of changes: read the row, write status and dates computed from the status *read* |
| `FindWaiting`, `Settle` | `applyCompletedWorkOrder` / `abandonWorkOrder`: find the asset and its target's occupants, then one update that applies the effect, if it is still called for, and clears the marker |
| `ReadForApproval`, `WriteApproval` | `addApproval`: status from the decision, no dates, no hook |
| `SetLifecycle`, `SetPlace`, `RemoveForClient` | the asset's own endpoints, which never look at the pending columns |
| `Fail` | the process stops or a statement is refused, at any point; the hook's callers catch its exceptions, so the status stays written |

Two history variables, read by no guard: `lost`, the orders whose hook died, and
`effects`, how often an order's operation took effect. Where an asset stands is a
member of `Slots`; the geometry of a MOVE's target is in `Rack`.

### CheckReview, Checks: the life of a check

`CheckReview` is what a reviewer may rely on, in two variables: where the check is
(`phase`) and which required items have no answer (`open`). `Checks` is the code of
`checks.service.ts`. It has two kinds of sessions: `desk` sessions serve the page (read
and refuse, then write), `post` sessions serve replayed answers (`updateItem`: the request arrives, `PostItem`; the
check is read, `PostCheck`; then the item, `PostRead`; then the item is written, `PostWrite`). A page's request reads the check
and its items at one instant: with one desk session nobody else changes the status between the two. Nothing in the code re-checks at the write what
was read, so the gate of `submitForReview` (no required item unanswered) is only as
good as what may happen between. The refinement `Review == INSTANCE CheckReview WITH
phase <- Phase, open <- Unanswered` maps the seven statuses to four phases and the rows
to the set of open items; `KeepsReviewPromise` is the abstract specification.

### FieldWork: the device

| variable | code |
|---|---|
| `local`, `queue`, `lastSeq` | the IndexedDB stores `checkState` and `mutationQueue` with its auto-increment key; they survive a closed tab |
| `call` | the calls of `saveItemAnswer` and `cacheDoc` under way, each between two of its IndexedDB transactions, with the copy of `checkState` or the key it has read; lost with the tab |
| `drain` | `drain()` of `checkQueue.ts`: the snapshot it took, where it is, and the server session (`by`) whose answer it waits for; lost with the tab |
| `page` | the check's page: working, submitting, clearing in two steps |
| `troubles` | the faults so far, at most `MaxTroubles` |
| `dropped`, `raced`, `uploads` | history, read by no guard |

Every IndexedDB transaction is a step of its own:

| step | code |
|---|---|
| `SaveItemAnswer`, `PutState`, `FindItemMutation`, `QueueAnswer` | `saveItemAnswer`: get `checkState` (145), put it whole (158), find the pending entry (162), put or add it and call `drain()` (163-176) |
| `CacheDoc`, `PutState` | `cacheDoc`: get `checkState` (127), put it whole (128), which the page does after every read of the check |
| `SendItem`, `ServeItem`, `SendPhoto`, `EndDrain` | the drain's loop: an answer is sent, the server works on it step by step, and its reply is dealt with |
| `Delivered`, `DeadLettered`, `KeptForLater` | the three outcomes: success deletes the entry by its key, a 4xx drops it with a warning, anything else puts the copy back and stops |
| `HandleSubmit`, `SubmitFromPage`, `SubmitReply`, `SubmitFails` | `canSubmit`, then `handleSubmit` and its reply |
| `ClearState`, `ClearQueue` | `clearCheck`: the record of the answers, then the entries |
| `Lose`, `ServerDies`, `Reopen` | the faults: no answer, though the request may go on; a request lost or a process gone; the tab closed and opened again |

Nothing on the server serialises a device's requests. A request that the device has given up on stays in its `post` session and
takes its steps beside a newer one for the same item, in any order; only the session in `drain.by` is waited for. The server half is
`Checks` itself: each action of the device that reaches the server calls an action of `Checks`.

### Tickets, Intake, Sweep, ServiceDesk

`Tickets` has the five kinds of record (service requests, incidents, tasks, risks, issues) as rows of one table, told apart by their terminal and
resolved sets. `ReadStatus`/`WriteStatus` compute `closedAt` and `resolvedAt` from the status
that was *read*, and `ReadEdit`/`WriteEdit` decide about the due date from the pin that was read.
The statuses that are not terminal are one value. A task has a due date but no SLA and no pin; what completing
it does to an asset is in `WorkOrders`.
`Intake` has the submissions and intakes: `triage.convert` is one transaction (`ReadConvert`,
`CommitConvert`), while the older conversion of a public submission creates
(`CreateFromSubmission`) and then marks (`MarkSubmission`), and may die in between.
`Sweep` is `runSweep`: `Fetch` the due rows of a kind, then per row `Skip` (nobody to tell), `Claim`
the marker, `Emit`; sweeps overlap, errors are swallowed where the code swallows them
(`ClaimFails`, `EmitFails`), and a sweep may die anywhere. `ServiceDesk` is the three together:
ticket and triage requests share the sessions, sweeps run beside them.

### Deals, Cabling, Maintenance, BackOffice

Three registers that share nothing but the habit of reading before writing (`Registers` holds
their common constants). `Deals`: a quote's line items are sets of batches, a batch
standing for one submitted list and its total, so that "the value is the sum of the lines"
can be said; `DeleteLines`/`CommitLines` show what a READ COMMITTED `deleteMany` sees and what
it does not. A revision reads the quote and then its included line items, which Prisma does in two statements
(`ReadRevise`, `ReadReviseLines`): a replacement may commit in between, and the clone is then `torn`. `Cabling`: pairing reads the two ports and their old peers by two statements outside its transaction (`ReadPair`, `ReadPeer`, `CommitPair`);
a cable's update merges what it read with what it was given (`Merged`) and writes it whole; the
unique index and the foreign keys are modelled where they refuse or empty a column; `Trace` is the
two walks out of a port, a fold over hops with the visited ports as accumulator. `Maintenance`: the
change of the log and the refresh of the one or two assets it touched are separate statements.
History variables (`made`, `overtaken`, `doubled`, `crossed`, ...) are read by no guard; they let a property
say exactly which overlap excuses it.

## 3. The runs

Every property is checked by a run that some plausible bug in the code (a *mutant*,
defined beside the operator it mutates) breaks; `PROJECT.json` pairs them.

| run | instance | shows |
|---|---|---|
| `rack_placement` | 2 assets, 1 cabinet of 3 units, 2 spots, serial, no holds | `TypeOK`; `LiveDisjoint`: devices in service never share a unit of a face; `RackedOverlapOnlyByMoveOrImport`: retired kit keeps its units until pulled, except against a MOVE or an import |
| `rack_holds` | 1 asset, 2 reservations, 1 cabinet resized between 2 and 3 units, one expiry, serial | `HoldsHonoured`, `OverlapOnlyByRevival`, `SuggestionsMatchCheck` |
| `work_orders_serial` | 2 assets (one internal), 2 orders, 1 slot, serial, any request may die | the five safety properties of WorkOrders and `TypeOK` |
| `work_orders_settles` | 1 asset, 1 order, 2 sessions, failures | liveness: `HookSettles` |
| `rack_race` | as `rack_placement`, 2 sessions | **violated**: `LiveDisjoint` |
| `work_orders_race` | 1 asset, 1 order, 2 sessions | **violated**: `EffectOnlyWhenValid` |
| `work_orders_rejected` | 1 asset, 1 order, serial | **violated**: `RejectedOrderLetsGo` |
| `work_orders_closed_at` | 1 asset, 1 order, serial | **violated**: `TerminalChangeHasClosedAt` |
| `field_work_replay` | 1 device with 2 calls under way, 2 requests under way, 1 desk session, 1 item of the template and 1 added while the check runs, 2 answers, 2 queue entries, 1 fault | `FieldTypeOK`; `KeepsReviewPromise` (refinement); `FlagsKeptDuringRework`; `SyncedUnlessRaced`: an item with nothing waiting on the device has on the server the answer shown, but for refusals and the races the property names; `CopiesHaveACause`: a photo is stored twice only after a lost reply or a closed tab; `EntriesLeave` (liveness) |
| `field_work_synced` | the same, one call at a time, without faults | **violated**: `SyncedMeansOnServer` |
| `service_desk` | 2 sessions, 2 sweeps, 2 records, 2 sources, 1 fault | `DeskTypeOK`; dates and pin of a ticket (`LiveHasNoClosedAt`, `DatesFollowStatus`, `ResolvedMomentKept`, `PinHolds`); conversions (`ConvertedOnce`, `LinkIsOwn`, `SimilarOpenHaveACause`); alerts (`AlertedAtMostOnce`, `ClaimsAreTold`, and the liveness `LapsedAreAlerted`) |
| `back_office` | 2 sessions; 3 quotes, 1 opportunity; 5 ports of 2 assets, 2 cables; 2 assets, 2 log entries | `OfficeTypeOK`; quotes (`OneLiveVersion`, `PrimaryIsNewest`, `ValueIsSum`, `SentQuotesAreFrozen`, `OneEngagementPerDeal`); cabling (`PairsStayMutual`, `EndsMatch`, `TracesAgree`); `LastIsLatest` |

*Why these bounds.* A collision involves two things, so two assets, or an asset and
two holds, are enough to violate every placement property. The spots, shapes and
MOVE target contain half-depth kit of two units that stands back to back, in the same
units and with one unit in common, full-depth kit without a height that clashes with it,
and side-mounted kit; three units leave room for a free run below, between and above
occupied ones. In `rack_holds` the ranges let a hold grow over its neighbour, the
resize leaves kit and holds outside the frame, and the single tick makes one term
expire while the other reservation has none. Two orders are the fewest that can compete
for one asset, and one slot with two assets makes the assets compete for a target. The
asks include the statuses that complete, cancel and reopen an order; asset edits set an
asset back to PLANNED or retire it in `work_orders_serial` (it is installed by its work
order), and to any of the three states in the other runs. The bounds are all constants in
the `.cfg` files: the sets of ids, `MaxNow`, `FrameSizes`, `TaskAsks`, `ChangeAsks`,
`Lifecycles`, `States`, `Terms` and the sets of spots, shapes, targets and ranges. The passing runs reach between
0.2 and 1.9 million distinct states. Deadlock checking is off because ids
are not reused, the clock and the faults are bounded, and a final state is final: once every
row has been used and every request has ended nothing remains to be done.

`MCFieldWork`, `MCServiceDesk` and `MCBackOffice` add a variable `focus`, chosen at the start and never changed:
each focus frees one group of actions and bounds it tightly, so that the
instances add up within one run instead of multiplying.

The foci of `field_work_replay` and the distinct states each reaches alone: `saves` (160,566), two overlapping calls on one item, or a
call and the cached document; `items` (213,592), a call on each of two items; `requests` (27,818), a given-up request beside its
successor; `photos` (22,629); `clear` (216,386), a submission from the page, with `clearCheck`, while answers are saved; `late` (13,816), requests
under way while the check is submitted, approved and returned; `review` (45,296), everything the office does while an answer to the
added item is anywhere between its server steps. Two answers tell a newer from an older; two queue entries let an answer wait behind a
photo, be queued again after its first entry was sent, or be added twice by two calls. The races need two calls, or two requests and one fault,
or one fault alone (lost reply, closed tab, dead server, in any place); none needs two faults. In the foci that are about the device
(`saves`, `items`, `requests`, `photos`) the office starts the check and, in `items`, adds to it; `late` and `review` let it do the rest.

In the other two modules nothing is lost where the groups share no
row: the back office's registers do not meet, and what a sweep reads of a ticket is, in the focus
`alerts`, changed by steps more liberal than the ticket handlers (`DeskChanges`, on a task; the three swept kinds differ only in their turn). The foci of the
service desk are `status`, `due`, `intake`, `similar` and `alerts`; of the back office `versions`, `lines`,
`primacy`, `won`, `accepted`, `pairs`, `cables`, `trace` and `log`. (Where no lines are replaced, in `versions`, `primacy` and
`accepted`, the two reads of a revision follow each other, `ReadTogether`; `lines` takes them apart. A quote expires in `accepted` only, where it is revised as well; and `pairs` reads each pair of its three ports in one of the two orders.) Two sessions are what a stale read needs;
two similar intakes are the fewest that can be open together, by overlapping searches or by a triage that
reopens the first; three quotes are a version, its successor and
a rival; batches 1 and 2 have sums of their own, alone, together and absent; four ports on two assets make every loop of cables and pairs
with at most four hops, which the cap of the run lets through (the code's own cap is larger, and its cutting off
is the one exemption of `TracesAgree`). The clock of the service desk has the two instants before and after a due date.

*Symmetry* is used for assets, reservations and orders, and in `back_office` for sessions, work packages,
serviced assets and log entries, only in runs where neither the configuration nor a focus
tells them apart, and not with a liveness property.

*Fairness.* `WorkOrders` assumes `WF_vars(Continue(s))` for each session: an async
handler that has started runs on until it returns or throws, because the runtime
resumes every settled promise. Nothing makes a user start a request, so `Request`
steps have no fairness, and `Fail` may end a request at any of its steps. `HookSettles`
therefore concludes "let go, or the hook died, or the asset was deleted".
`FieldWork` assumes `WF_vars(DrainStep)`: a drain that is running goes on, and the server answers what it was
sent. Nothing forces a *new* drain: the code starts one on saving, on opening and on the browser's `online`
event only, so `EntriesLeave` says "every entry leaves the queue again and again, or the device stops draining for good". No focus takes
away every step of a drain that has one, so the bounds make nothing fair that was not.
`ServiceDesk` assumes, per sweeper, weak fairness of its next step, starting included: the schedule keeps starting sweeps and one that
has started goes on until it ends or dies. Users owe nothing, so ticket and triage requests are not fair.
`Rack` and `BackOffice` have no liveness property and assume no fairness.

## 4. The proofs

TLC checks instances; these theorems hold for every value of the constants (any
number of assets, cabinets, orders and sessions, any spots, shapes, frame sizes and
terms) that satisfies the assumptions the modules name (`NullAssumption`, `RackAssumption`,
`WorkOrdersAssumption`, `NullIsNoEntry`, ...: the database null is none of the values or rows, and the sets a
request draws from are of the right kind). "Serial" means that at most one request
is in flight, an explicit hypothesis of the theorems that need it; the runs
`rack_race` and `work_orders_race` show that two of them fail without it. Together the theorems
state every safety and action property that a passing run checks.

Loops are folds or recursive functions in these modules, and what they compute has to be proved without the
library's induction theorems, whose operator parameters no prover here can instantiate. The proofs go by the least
counterexample instead: the set of steps at which the function does not exist, or the loop invariant fails,
is a set of naturals, so if it is not empty it has a least element (`WFMin`, `NatLessThanWellFounded`), and the step
before it contradicts that.

**RackProofs**

- `ConflictIsSharedCell`: `findUSlotConflicts`' test is `Cells(p) \cap Cells(q) # {}`.
- `TypeCorrect`: `Spec => []TypeOK`, with any number of sessions. `TypeOK` is inductive once it
  says what each request in flight is about to write (`FlightTyped`); its last part, that a
  stored asset has a rack side unless it has been pulled and has no position, needs
  the fact that every partial update writes `side` and `u` from one row.
- `SerialLiveDisjoint`: with one session at most, `Spec => []LiveDisjoint`. `LiveDisjoint` is
  not inductive: between check and write the row to be written exists only in
  `sess`. `SerialInv` adds `FlightClear` (that row, merged into the stored one, is clear of
  all other assets in service) and states the rest with `Conflict` (`LiveApart`);
  `ConflictIsSharedCell` turns the result into cells.
- `OverlapNeedsMoveOrImport`, `HoldsOverlapByRevival`, `HoldsAreHonoured`, action properties with one request at a
  time. Here too the check is in one step and the overlap would appear in another, so the invariant (`Checked`) says what has been found free and
  still is: the units a create or an edit is about to take, but for the reservation it overrides (`SlotChecked`), and the range a
  reservation request is about to hold, if it did not hold it before (`RangeChecked`). Each way out that the properties name is a step
  for which `Checked` says nothing.

**FindSpaceProofs** (no serial hypothesis)

- `SearchAgreesWithCheck`: in every reachable state and for every size, find-space offers full-depth kit exactly the
  positions that `assertUSlotAvailable` accepts. The loop invariant of the scan is `ScanOK`: every block found so far is free
  (`BlocksFree`), the open run reaches back to the last occupied unit (`RunOpen`), and every free range seen lies
  in one block or in the open run (`RunsFound`). So a size fits in a block just when all its units are
  free (`FitsWhereFree`); and that a unit is free means the same on both sides (`SearchMeetsCheck`), since every hold has a
  position (`HoldsPositioned`, the invariant).

**WorkOrdersProofs**

- `TypeCorrect`: `Spec => []TypeOK` with any number of sessions: the pending columns are set and
  cleared together, a target goes with MOVE, and an asset waits only for an order that
  was raised for it. Inductive as `TypeInv`, which adds that an unborn order is blank
  (`OrdersFit`) and that what a request carries fits its order (`FlightFits`).
- With one request at a time, from the invariant `SerialInv`: `SerialAppliedAtMostOnce`,
  `SerialFinishedOrderLetsGo`, `SerialTaskDatesMatchStatus`, and the action properties
  `SerialEffectOnlyWhenValid` and `SerialStagedOpNotReplaced`. `SerialInv` adds to `TypeInv`:
  what the request has read still holds (`FlightCurrent`), a deleted asset waits for nothing, an order whose operation took effect
  is waited for by no asset (`EffectSpendsOrder`, why reopening an order cannot apply it
  twice), and a finished order that is still waited for is in the hands of its hook
  (`FinishedInHand`, which is `FinishedOrderLetsGo` extended to the states inside a request).
  A request that dies is covered: `Fail` is a step of the specification.

**ChecksProofs** (`ChecksAssumption`, `FieldWorkAssumption`: constants are of the right kind, null is no answer)

- `ChecksTyped`, `FieldTyped`: types, with any number of sessions and any faults.
- With one desk session, and replayed updates that all carry an answer or come one at a time (`OneEach`; either way they interleave with
  the desk), for any items and answers: `ChecksImplementReview` (`Spec => KeepsReviewPromise`, a refinement: initial states map
  to initial states, each step to a step or a stutter of `CheckReview`), `ReviewedChecksAreComplete` and `FlagsKept`. The
  invariant is `IInv`: `TypeOK`, plus, for a request in flight, that what admitted it still holds
  (`DeskHolds`), and that an answer about to be written saw the item as it stands
  (`PostHolds`). The point of the proof is the answer that arrives late: it is admitted before the
  check is locked and written afterwards, and can only close an item, never open one. The second half of `OneEach` is needed: an update
  that carries a note alone writes back the response it read, which may be none, over an answer that came in between.
- `FieldWorkUsesChecks`: whatever the device and the faults do, the composition implements `Spec` of `Checks`;
  so `FieldWorkImplementsReview` follows from the theorem above instead of being proved again.
- `PhotoCopiesAreBounded`, with any number of sessions, calls and faults. Two invariants: whatever is said of a number of the queue,
  in the store, in the drain's snapshot or by a call about to write there, is said of one matter for good (`Agree`, of
  the claims on that number, `Claim`); and an entry that may still be sent was uploaded only by requests that had trouble (`Copies`), so
  the one upload that deletes it is the only one without.
- `AnswersArrive`, with any number of desk sessions, requests, overlapping calls and faults: for every item that is neither dropped nor
  raced, the device keeps no answer, or a call is about to queue it, or the server has it and every request under way carries the same (`Settled`), or the
  *last* queued entry of the item has it and the drain holds no copy that would undo it (`Waiting`); this is `Arrivals`. It needs what the drain
  waits for (`InFlight`), that an item being added is in no other request's hands (`FreshItems`), so that no creation overwrites
  an answer, and that the device keeps answers of stored items only, in its copies too (`Grounded`). Each step that could break it is one that
  adds the item to `raced`, and the causes are those listed in section 5.

**ServiceDeskProofs** (any number of records, sources, sessions and overlapping sweeps; no serial hypothesis)

- `DeskTyped`, from `DeskInv`: types, plus that a request in flight refers to rows that exist (`FitIn`).
- `LiveWithoutClosedAt` needs no more than how `ClosedAtAfter` is computed, and that is the point: the write that
  reopens always clears the date. `DatesKept`, `ResolvedMomentStays` and `PinsHold` are action
  properties that name the one culprit, a write computed from a row that has changed since.
- `AlertsFireOnce` and `MarkersAreTold`: with any overlap, an alert about to be sent has its marker, no two
  sweeps are about to send the same one, and none that is about to be sent was sent before.

**IntakeProofs** (any number of sources, records and overlapping requests)

- `LinksAreOwn`, `ConversionsHappenOnce`. `OwnRecords`: no record is made from two sources, and a link points to a record made from that
  source. `Accounted`: what was made from a source that nobody overtook or abandoned is its link, if it is CONVERTED,
  together with the records of conversions that are between creating and marking.
- `SimilarOpenExplained`: what a search that has found nothing saw open stays closed unless it is overtaken (`SearchHolds`), because no
  triage leads back from CONVERTED or REJECTED but one computed from a status that has changed. So whatever similar intake is open at
  the store came after the search, or was overtaken. All steps of the desk that leave the intakes in peace are dealt with together (`Calm`).

**BackOfficeProofs** (any number of rows and sessions; no serial hypothesis)

- `OfficeTyped`, from `OfficeInv`, the conjunction of an invariant per register.
- `OneVersionLives` and `NewestIsPrimary`: in every chain of versions only the newest is live or primary, unless
  overtaken (`Chains`); a revision in flight either still matches the newest version or will hit the unique index on
  (reference, version). `SentQuotesStay`: content changes after DRAFT only by a request that had read a draft.
- `PairsKept`, `CablesEndAtTheirAssets` (an asset never changes under a port, and the foreign key keeps the
  merge from naming a port that is gone), `LastMaintenanceIsRight`.
- `TracesShowOnePath`: while pairs are mutual and no port has two cables, a complete trace is exactly the connected component of its port. The loop invariant of a walk (`WalkOK`) says that whatever
  is reachable from the visited ports leads back to the start (`LeadsTo`: a hop can be taken backwards, `HopReturns`), and that only the
  port it stands at, and the start itself on the first of the two walks, may have a hop not followed; when the second walk ends no hop is left (`Closed`). Two complete traces
  that share a port are then the same component. That a port has one cable is said with a cardinality, so the proof
  needs that the cables are finite at any time (`CablesFinite`: each step adds at most one).

**DealsProofs** (any number of quotes, opportunities and overlapping requests)

- `ValuesAreSums`: where nothing crossed, the lines of a quote are those of one request and its value is their sum, and so
  it is for the rows a creation or a revision in flight is about to insert (`WholeLists`). A revision that has read its quote but not yet
  the lines has a sound row; once it has read them it has one too, or is `torn`, and the clone it inserts is then marked as crossed, as
  is the clone of a quote that is.
- `DealsEngageOnce`: a deal that is not doubled has one request making its package at most, none once it is linked, and a package that
  is made is linked or about to be; one that is made or being made is of a deal that is won, unless its stage was overwritten
  (`Engagements`).

*Only model-checked.* Liveness (`HookSettles`, `EntriesLeave`, `LapsedAreAlerted`) is beyond the prover. The five
violated properties are refuted, not proved. Without their hypotheses some of the theorems are false: `rack_race` and
`work_orders_race` refute two serial ones with two sessions, and with two desk sessions a check can leave a final state.

## 5. Where code and documentation disagree

Each is a run whose counterexample TLC prints.

1. **Check-then-write race** (`rack_race`). `assets.service.ts:22-23` says the collision
   check "Runs inside the SAME transaction as the write (closes the check-then-write
   race)". At READ COMMITTED it does not: two requests check, then both write.
2. **Stale hook** (`work_orders_race`). `apply-pending.ts:41` says "Only a still-PLANNED asset
   activates; anything else just clears". The update does not repeat the test, so an asset
   retired between the hook's read and its write is set back to ACTIVE.
3. **Rejected changes keep their marker** (`work_orders_rejected`). `apply-pending.ts:130-131`
   says a REJECTED change abandons its staged operation; neither path that writes
   REJECTED calls the hook.
4. **Rejected by approval, in neither list** (`work_orders_closed_at`). `addApproval` writes
   a terminal status without `closedAt`, which the History list selects on.

5. **"Synced" while an answer is lost** (`field_work_synced`). `useCheckExecutionSync.ts:5` says "synced — queue
   empty, everything is on the server". `saveItemAnswer` coalesces an edit into the queued entry under its
   old key; a drain that is posting the older copy then deletes that key. The edit is gone from
   the queue unsent, the page says synced, and the server keeps the older answer.

The models make other disagreements visible, as the exemptions their properties name:

- *The device.* The exemptions of `SyncedUnlessRaced` are all the ways an item with nothing queued can differ between device and server,
  apart from a refusal the engineer is told of: (a) `checkState` is written whole from a copy that another call of
  `saveItemAnswer` or `cacheDoc` has changed meanwhile; (b) two saves of one item overlap; (c) a save is coalesced into an entry of which the drain
  holds an older copy; (d) a newer answer is sent while an earlier request, given up after a timeout or a lost connection, is still under way, and the
  server writes the two in any order; (e) the tab dies between the two writes of `saveItemAnswer`: on reopening it shows an answer that will never be
  sent; (f) `clearCheck` runs between those writes, or a save between its two deletions. `CheckDetailPage.tsx:888-889` says that nothing un-synced is discarded on submission, but what is
  saved while the submission is on its way is cleared by `clearCheck`. A queue left by a transient failure waits for the next save,
  opening or `online` event. A photo that is given up or whose reply is late makes a copy; the model counts it when it is given up.
- *Checks.* With two desk sessions the later of two overlapping decisions wins, over a final state too. A returned check is
  ASSIGNED again, so it can be rescheduled, although `checks.service.ts:410-413` says that a started one cannot.
- *Tickets.* `resolved-status.ts:5` states that `resolvedAt` is there exactly while the record is resolved, and the lists select on
  `closedAt`: two overlapping status writes break both, and a terminal record without `closedAt` is in neither list.
  Records made by triage get no due date, though `sla.ts:8-10` says that every client "still gets" one. Markers are not cleared
  when a due date moves or a record is reopened, so a second lapse is silent. "an ENGINEER may edit other fields but never
  reassign" (`tasks.service.ts:273`), yet an edit of a task that names no assignee writes null (285), whoever sends it.
- *Sweep.* "each alert fires exactly once" (`notification-sweep.service.ts:19-20`) fails when a sweep dies between the claim and the alert:
  at most once always holds, at least once does not. A record closed after the fetch is still alerted.
- *Quotes.* "One primary quote per opportunity" (`quotes.service.ts:92`) fails when a quote that is not primary is revised, when a draft moves to another
  opportunity, and when two are created at once. "One live version at a time" (217-218) and the derived `Quote.value` (`schema.prisma:279`) fail under
  overlapping writes; the value also when the lines of a quote are replaced between the two reads of its revision, which then
  clones the old value with the new lines (221-252).
- *Intakes.* "Similar request already exists" (`request-intakes.service.ts:45-48`) refuses no request whose twin is stored after its
  search, and a review computed from a stale status (`triage.service.ts:146-164`) reopens a rejected intake beside its successor.
- *Ports.* "Each port has ≤1 cable" (`ports.service.ts:128-129`) is enforced nowhere; `TracesAgree` assumes it.
  "Symmetric" and "can't collide" (94-97) fail when the old peers change between their read and the transaction.
- *Maintenance.* After a race or a crash the cached date stays wrong until the next change of that asset's log.

Modelled and left as exemptions, since nothing in the repository says what should
happen: the operation of an *internal* asset is never applied, because
`findWaitingAsset` filters on the order's `clientId` and an internal asset has none; a
change set to CLOSED without COMPLETED neither applies nor abandons; and MOVE
completion and CSV import ignore retired-but-racked kit and reservations.

## 6. What is not modelled

- Scope and role checks, audit rows, attachments, custom fields, wording: plain guards
  or data that no modelled rule reads.
- Within assets: DISPOSE and the deletion request/approve/reject flow change columns that placement does not
  read. Power and weight are sums of floats shown to the user, with no control flow
  beyond a comparison.
- Within find-space: ranking, and the power and weight filters.
- Within checks: templates, the pass rate, and `createFollowOn`, which changes no row of the check (it opens a
  task or an incident and then links it, without a transaction). Within the device: captions, notes without an answer, the cached
  check document itself (what writing it does to the answers is modelled), and a second tab, whose drain would run beside the first. What the page only draws holds no rule the server does not.
- Within the service desk: channels, preferences, e-mail, the inbox, comments and the events sent after a write.
- Within the back office: the later edits of work packages, and the deletion of an asset with everything that hangs on it.
- Authentication: the refresh-token hash is compared and then replaced, so of two overlapping refreshes only the later one's
  token stays valid; listed as a hazard, not modelled.
- CRM accounts, mail sync, SharePoint provisioning, Microsoft Graph, blob storage, mail: remote effects, or field updates of
  independent rows.
- Sites, rooms, device types, sensor readings, record links, clients, contacts, knowledge: create, update and delete of rows no
  rule connects.
- Reports, search, overview, SLA figures: read-only. Seeds, migrations, wiring, the screens of the web
  application: data, configuration and layout. They are most of the repository's lines.

## 7. Plan

What is left, in this order:

1. An abstract specification of the staged operation (waiting, applied, abandoned) that `WorkOrders` implements when requests are
   serial, as `CheckReview` is for `Checks`, and its refinement proof.
2. `createFollowOn` in `Checks`, and one table of tasks for `Tickets` and `WorkOrders`.
3. The DISPOSE and deletion-request flow of assets, beside the lifecycle in `WorkOrders`.
4. Refresh-token rotation and the mail-sync cursor, as two small modules.
