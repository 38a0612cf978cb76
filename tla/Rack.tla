-------------------------------- MODULE Rack --------------------------------
(***************************************************************************)
(* Racks, the assets placed in them and the advisory reservations on them: *)
(*   assets/assets.service.ts, cabinets/reservations.service.ts,           *)
(*   cabinets/cabinets.service.ts, and the MOVE branch of                  *)
(*   work-orders/apply-pending.ts.                                         *)
(*                                                                         *)
(* Requests are served by Sessions.  A handler is two steps: it reads the  *)
(* rows, runs its checks and computes what it will write (one of the       *)
(* actions below), then its UPDATE lands (Commit).  Postgres runs at READ  *)
(* COMMITTED, so a `$transaction` around both adds no isolation: whatever  *)
(* the other sessions committed in between is not seen by the check.  With *)
(* one session the two steps are a serial handler.                         *)
(*                                                                         *)
(* A handler that refuses a request writes nothing, so refusals are the    *)
(* absence of a step.  All reads of a handler are taken at one instant.    *)
(* INSTALL and DECOMMISSION work orders only change the lifecycle state    *)
(* (module WorkOrders); here they are lifecycle changes like any other.    *)
(***************************************************************************)
EXTENDS USlots

CONSTANTS
  Assets,         \* asset ids (uuids: never reused)
  Reservations,   \* reservation ids
  Cabinets,       \* cabinet ids
  Sessions,       \* concurrent requests
  Spots,          \* [cab, u, side] that create and update requests ask for
  Shapes,         \* [h, depth, zeroU] of the devices
  Targets,        \* [cab, u, side] that MOVE work orders ask for
  States,         \* lifecycle states requests ask for
  Ranges,         \* [cab, u, h, side] that reservations ask for
  Terms,          \* reservation expiries asked for: instants, or Null
  FrameSizes,     \* totalU values
  MaxNow          \* bound on the clock

LifecycleStates == {"PLANNED", "PROCUREMENT", "STAGING", "ACTIVE", "RETIRED"}

RackSpot == [cab : Cabinets \cup {Null}, u : Int \cup {Null}, side : Faces]
MoveSpot == [cab : Cabinets, u : Int, side : Faces]
Shape == [h : Int \cup {Null}, depth : Depths, zeroU : BOOLEAN]
HoldRange == [cab : Cabinets, u : Int, h : Int, side : Sides]

ASSUME RackAssumption ==
  /\ Null \notin Assets \cup Reservations \cup Cabinets
  /\ Spots \subseteq RackSpot
  /\ Targets \subseteq MoveSpot
  /\ Shapes \subseteq Shape
  /\ States \subseteq LifecycleStates
  /\ Ranges \subseteq HoldRange
  /\ Terms \subseteq Nat \cup {Null}
  /\ FrameSizes \subseteq Int \cup {Null}
  /\ MaxNow \in Nat

VARIABLES
  asset,    \* the Asset table
  res,      \* the CabinetReservation table
  totalU,   \* Cabinet.totalU
  now,      \* wall clock, in units of one reservation term
  sess      \* what each session is about to write

vars == <<asset, res, totalU, now, sess>>

----------------------------------------------------------------------------
(* Rows.  db is "unborn" before the row is inserted and "deleted" once it   *)
(* is gone; a deleted row keeps nothing else.                              *)

RowStates == {"unborn", "stored", "deleted"}

AssetRow ==
  [db : RowStates, cab : Cabinets \cup {Null}, u : Int \cup {Null}, side : Sides,
   h : Int \cup {Null}, depth : Depths, zeroU : BOOLEAN, state : LifecycleStates,
   removed : BOOLEAN,                \* physicallyRemoved
   synced : BOOLEAN,                 \* lastSyncedAt is set: a CSV row has written it
   moveTo : MoveSpot \cup {Null}]    \* pendingOp = MOVE and its pendingTarget*

NoAsset ==
  [db |-> "unborn", cab |-> Null, u |-> Null, side |-> "unset", h |-> Null,
   depth |-> "full", zeroU |-> FALSE, state |-> "PLANNED", removed |-> FALSE,
   synced |-> FALSE, moveTo |-> Null]

ResRow ==
  [db : RowStates, cab : Cabinets \cup {Null}, u : Int \cup {Null}, h : Int,
   side : Sides, expires : Nat \cup {Null}]

NoReservation ==
  [db |-> "unborn", cab |-> Null, u |-> Null, h |-> 1, side |-> "unset",
   expires |-> Null]

Stored(row) == row.db = "stored"

\* Prisma's partial update: only the named columns are written.
Merge(old, new, columns) ==
  [f \in DOMAIN old |-> IF f \in columns THEN new[f] ELSE old[f]]

SpotOf(row) == [cab |-> row.cab, u |-> row.u, side |-> row.side]
ShapeOf(row) == [h |-> row.h, depth |-> row.depth, zeroU |-> row.zeroU]

----------------------------------------------------------------------------
(* Occupancy and the collision checks.                                     *)

\* The `where` of the occupant queries: placed in the cabinet, not zero-U.
\* Retired kit counts until it is physically removed.
Occupies(row, cab) ==
  Stored(row) /\ row.cab = cab /\ row.u # Null /\ ~row.zeroU

Live(row) == row.state # "RETIRED"

\* activeReservationWhere
Active(r) == Stored(r) /\ (r.expires = Null \/ r.expires > now)

\* A reservation holds its range as if full depth.
AsPlacement(r) == [u |-> r.u, h |-> r.h, side |-> r.side, depth |-> "full"]

FreeOfAssets(p, cab, self) ==
  \A b \in Assets \ {self} : Occupies(asset[b], cab) => ~Conflict(p, asset[b])

FreeOfReservations(p, cab, but) ==
  \A r \in Reservations \ {but} :
     Active(res[r]) /\ res[r].cab = cab => ~Conflict(p, AsPlacement(res[r]))

\* Mutant of USlotAvailable: the occupant query skips retired kit.
USlotAvailableSkipsRetired(p, cab, self, override) ==
  /\ ~OutOfBounds(p, totalU[cab])
  /\ \A b \in Assets \ {self} :
        Occupies(asset[b], cab) /\ Live(asset[b]) => ~Conflict(p, asset[b])
  /\ FreeOfReservations(p, cab, override)

\* Mutant of USlotAvailable: the override waives every reservation, not one.
USlotAvailableAnyOverride(p, cab, self, override) ==
  /\ ~OutOfBounds(p, totalU[cab])
  /\ FreeOfAssets(p, cab, self)
  /\ override = Null => FreeOfReservations(p, cab, Null)

\* assertUSlotAvailable does not throw.
USlotAvailable(p, cab, self, override) ==
  /\ ~OutOfBounds(p, totalU[cab])
  /\ FreeOfAssets(p, cab, self)
  /\ FreeOfReservations(p, cab, override)

\* create and updateForClient run the check only for a racked, positioned asset.
PlacementAccepted(row, self, override) ==
  row.cab # Null /\ row.u # Null /\ ~row.zeroU =>
     USlotAvailable(row, row.cab, self, override)

\* Mutant of RangeFree: an edited range is not compared with other holds.
RangeFreeIgnoresHolds(p, cab, self) ==
  /\ ~OutOfBounds(p, totalU[cab])
  /\ FreeOfAssets(p, cab, Null)

\* ReservationsService.assertRangeFree does not throw.
RangeFree(p, cab, self) ==
  /\ ~OutOfBounds(p, totalU[cab])
  /\ FreeOfAssets(p, cab, Null)
  /\ FreeOfReservations(p, cab, self)

----------------------------------------------------------------------------
(* Sessions.                                                               *)

AssetOps == {"create", "update", "retire", "remove", "delete", "import",
             "stage", "move", "clear"}
ResOps == {"reserve", "rereserve", "release"}

Idle == [op |-> "idle"]

Session ==
  [op : {"idle"}]
  \cup [op : AssetOps, id : Assets, row : AssetRow, override : Reservations \cup {Null}]
  \cup [op : ResOps, id : Reservations, row : ResRow]

\* The columns each asset write sets.
Columns(op) ==
  CASE op \in {"create", "delete"} -> DOMAIN NoAsset
    [] op = "update" -> {"cab", "u", "side", "h", "depth", "zeroU", "state"}
    [] op = "retire" -> {"state"}
    [] op = "remove" -> {"removed", "u", "side"}
    [] op = "import" -> {"cab", "state", "side", "synced"}
    [] op \in {"stage", "clear"} -> {"moveTo"}
    [] op = "move"   -> {"cab", "u", "side", "moveTo"}

AskAsset(s, op, a, row, override) ==
  /\ sess[s].op = "idle"
  /\ sess' = [sess EXCEPT ![s] =
       [op |-> op, id |-> a, row |-> row, override |-> override]]
  /\ UNCHANGED <<asset, res, totalU, now>>

AskReservation(s, op, r, row) ==
  /\ sess[s].op = "idle"
  /\ sess' = [sess EXCEPT ![s] = [op |-> op, id |-> r, row |-> row]]
  /\ UNCHANGED <<asset, res, totalU, now>>

\* An id no row has and no request in flight is about to insert.
FreshAsset(a) ==
  /\ asset[a].db = "unborn"
  /\ \A t \in Sessions : sess[t].op \in AssetOps => sess[t].id # a

FreshReservation(r) ==
  /\ res[r].db = "unborn"
  /\ \A t \in Sessions : sess[t].op \in ResOps => sess[t].id # r

\* The overrideReservationId a request may carry: none, or an active hold.
Overrides == {Null} \cup {r \in Reservations : Active(res[r])}

\* The row create and updateForClient write for a requested spot and shape.
Placed(old, spot, shape, state) ==
  [old EXCEPT !.cab = spot.cab,
              !.u = IF shape.zeroU THEN Null ELSE spot.u,
              !.side = IF spot.side = "unset" THEN "FRONT" ELSE spot.side,
              !.h = shape.h, !.depth = shape.depth, !.zeroU = shape.zeroU,
              !.state = state]

----------------------------------------------------------------------------
(* AssetsService.                                                          *)

Create(s) ==
  \E a \in Assets, spot \in Spots, shape \in Shapes, state \in States,
     override \in Overrides :
    LET row == [Placed(NoAsset, spot, shape, state) EXCEPT !.db = "stored"]
    IN  /\ FreshAsset(a)
        /\ PlacementAccepted(row, a, override)
        /\ AskAsset(s, "create", a, row, override)

\* A field the dto leaves out takes the value read before the transaction.
UpdateForClient(s) ==
  \E a \in Assets, override \in Overrides :
    /\ Stored(asset[a])
    /\ \E spot \in Spots \cup {SpotOf(asset[a])},
          shape \in Shapes \cup {ShapeOf(asset[a])},
          state \in States \cup {asset[a].state} :
         LET row == Placed(asset[a], spot, shape, state)
         IN  /\ PlacementAccepted(row, a, override)
             /\ AskAsset(s, "update", a, row, override)

RemoveForClient(s) ==
  \E a \in Assets :
    /\ Stored(asset[a])
    /\ AskAsset(s, "delete", a, [NoAsset EXCEPT !.db = "deleted"], Null)

\* decommission, step RETIRE
Retire(s) ==
  \E a \in Assets :
    /\ Stored(asset[a]) /\ Live(asset[a])
    /\ AskAsset(s, "retire", a, [asset[a] EXCEPT !.state = "RETIRED"], Null)

\* Mutant of PullFromRack: the position is cleared but physicallyRemoved is not set.
PullFromRackUnmarked(s) ==
  \E a \in Assets :
    /\ Stored(asset[a]) /\ ~Live(asset[a]) /\ ~asset[a].removed
    /\ AskAsset(s, "remove", a, [asset[a] EXCEPT !.u = Null, !.side = "unset"], Null)

\* decommission, step REMOVE
PullFromRack(s) ==
  \E a \in Assets :
    /\ Stored(asset[a]) /\ ~Live(asset[a]) /\ ~asset[a].removed
    /\ AskAsset(s, "remove", a,
         [asset[a] EXCEPT !.removed = TRUE, !.u = Null, !.side = "unset"], Null)

\* importFromCsv, a row that matches a stored asset: cabinet and lifecycle are
\* overwritten, the position is kept, and no collision check runs.
ImportExisting(s) ==
  \E a \in Assets, cab \in Cabinets \cup {Null}, state \in States :
    /\ Stored(asset[a])
    /\ AskAsset(s, "import", a,
         [asset[a] EXCEPT !.cab = cab, !.state = state, !.synced = TRUE,
                          !.side = IF @ = "unset" THEN "FRONT" ELSE @], Null)

\* importFromCsv, a row that matches nothing: inserted without a position.
ImportNew(s) ==
  \E a \in Assets, cab \in Cabinets \cup {Null}, state \in States :
    /\ FreshAsset(a)
    /\ AskAsset(s, "create", a,
         [NoAsset EXCEPT !.db = "stored", !.cab = cab, !.state = state,
                         !.side = "FRONT", !.synced = TRUE], Null)

\* raiseWorkOrder, op MOVE: the target must be free now; it is only staged.
RaiseMove(s) ==
  \E a \in Assets, spot \in Targets :
    LET p == [u |-> spot.u, side |-> spot.side, h |-> asset[a].h, depth |-> asset[a].depth]
    IN  /\ Stored(asset[a]) /\ asset[a].state = "ACTIVE" /\ asset[a].moveTo = Null
        /\ USlotAvailable(p, spot.cab, a, Null)
        /\ AskAsset(s, "stage", a, [asset[a] EXCEPT !.moveTo = spot], Null)

\* Mutant of MoveTargetFree: the completion hook trusts the check made when the
\* work order was raised.
MoveTargetFreeAsRaised(a) == TRUE

\* The hook's fresh re-check: live assets only, no bounds, no reservations.
MoveTargetFree(a) ==
  LET t == asset[a].moveTo
      p == [u |-> t.u, side |-> t.side, h |-> asset[a].h, depth |-> asset[a].depth]
  IN  \A b \in Assets \ {a} :
        Occupies(asset[b], t.cab) /\ Live(asset[b]) => ~Conflict(p, asset[b])

\* applyCompletedWorkOrder, op MOVE, the target still free.
ApplyMove(s) ==
  \E a \in Assets :
    /\ Stored(asset[a]) /\ asset[a].moveTo # Null /\ asset[a].state = "ACTIVE"
    /\ MoveTargetFree(a)
    /\ AskAsset(s, "move", a,
         [asset[a] EXCEPT !.cab = asset[a].moveTo.cab, !.u = asset[a].moveTo.u,
                          !.side = asset[a].moveTo.side, !.moveTo = Null], Null)

\* applyCompletedWorkOrder on an asset that is no longer active or whose slot has
\* filled, and abandonWorkOrder: the staged move is dropped.
DropMove(s) ==
  \E a \in Assets :
    /\ Stored(asset[a]) /\ asset[a].moveTo # Null
    /\ AskAsset(s, "clear", a, [asset[a] EXCEPT !.moveTo = Null], Null)

----------------------------------------------------------------------------
(* ReservationsService.                                                    *)

CreateReservation(s) ==
  \E r \in Reservations, range \in Ranges, term \in Terms :
    LET row == [db |-> "stored", cab |-> range.cab, u |-> range.u, h |-> range.h,
                side |-> range.side, expires |-> term]
    IN  /\ FreshReservation(r)
        /\ RangeFree(AsPlacement(row), row.cab, r)
        /\ AskReservation(s, "reserve", r, row)

\* The range is checked only when the geometry changes; the term never is.
UpdateReservation(s) ==
  \E r \in Reservations :
    /\ Stored(res[r])
    /\ \E range \in Ranges \cup {[cab |-> res[r].cab, u |-> res[r].u,
                                  h |-> res[r].h, side |-> res[r].side]},
          term \in Terms \cup {res[r].expires} :
         LET row == [res[r] EXCEPT !.u = range.u, !.h = range.h, !.side = range.side,
                                   !.expires = term]
         IN  /\ range.cab = res[r].cab
             /\ AsPlacement(row) # AsPlacement(res[r]) =>
                  RangeFree(AsPlacement(row), row.cab, r)
             /\ AskReservation(s, "rereserve", r, row)

RemoveReservation(s) ==
  \E r \in Reservations :
    /\ Stored(res[r])
    /\ AskReservation(s, "release", r, [NoReservation EXCEPT !.db = "deleted"])

----------------------------------------------------------------------------
(* The write lands, or fails because the row is gone.                      *)

CommitAsset(s) ==
  LET q == sess[s]
  IN  /\ q.op \in AssetOps
      /\ IF asset[q.id].db = (IF q.op = "create" THEN "unborn" ELSE "stored")
           THEN asset' = [asset EXCEPT ![q.id] = Merge(asset[q.id], q.row, Columns(q.op))]
           ELSE asset' = asset
      /\ sess' = [sess EXCEPT ![s] = Idle]
      /\ UNCHANGED <<res, totalU, now>>

CommitReservation(s) ==
  LET q == sess[s]
  IN  /\ q.op \in ResOps
      /\ IF res[q.id].db = (IF q.op = "reserve" THEN "unborn" ELSE "stored")
           THEN res' = [res EXCEPT ![q.id] = q.row]
           ELSE res' = res
      /\ sess' = [sess EXCEPT ![s] = Idle]
      /\ UNCHANGED <<asset, totalU, now>>

----------------------------------------------------------------------------
(* Single-statement writes.                                                *)

\* CabinetsService.updateForSite with a totalU: nothing placed is looked at.
ResizeCabinet ==
  \E cab \in Cabinets, size \in FrameSizes \ {Null} :
    /\ size # totalU[cab]
    /\ totalU' = [totalU EXCEPT ![cab] = size]
    /\ UNCHANGED <<asset, res, now, sess>>

\* The updateMany that asset and cabinet lists run first, over one client's rows.
BackfillRackSide ==
  \E rows \in (SUBSET {a \in Assets : Stored(asset[a]) /\ asset[a].side = "unset"}) \ {{}} :
    /\ asset' = [a \in Assets |->
         IF a \in rows THEN [asset[a] EXCEPT !.side = "FRONT"] ELSE asset[a]]
    /\ UNCHANGED <<res, totalU, now, sess>>

Tick ==
  /\ now < MaxNow
  /\ now' = now + 1
  /\ UNCHANGED <<asset, res, totalU, sess>>

----------------------------------------------------------------------------

Init ==
  /\ asset = [a \in Assets |-> NoAsset]
  /\ res = [r \in Reservations |-> NoReservation]
  /\ totalU \in [Cabinets -> FrameSizes]
  /\ now = 0
  /\ sess = [s \in Sessions |-> Idle]

AssetRequest(s) ==
  \/ Create(s) \/ UpdateForClient(s) \/ RemoveForClient(s)
  \/ Retire(s) \/ PullFromRack(s)
  \/ ImportExisting(s) \/ ImportNew(s)
  \/ RaiseMove(s) \/ ApplyMove(s) \/ DropMove(s)

ReservationRequest(s) ==
  CreateReservation(s) \/ UpdateReservation(s) \/ RemoveReservation(s)

Next ==
  \/ \E s \in Sessions :
       AssetRequest(s) \/ ReservationRequest(s) \/ CommitAsset(s) \/ CommitReservation(s)
  \/ ResizeCabinet \/ BackfillRackSide \/ Tick

Spec == Init /\ [][Next]_vars

----------------------------------------------------------------------------
(* Properties.                                                             *)

\* What each request in flight is about to write fits its operation.
FlightTyped ==
  \A s \in Sessions : sess[s].op \in AssetOps =>
    LET op == sess[s].op
        row == sess[s].row
    IN  /\ op \in {"create", "update", "import", "move"} => row.side # "unset"
        /\ op = "create" => row.db = "stored"
        /\ op = "delete" => row.db = "deleted"
        /\ op = "remove" => row.removed /\ row.u = Null
        /\ op = "retire" => ~Live(row)
        /\ op = "import" => row.synced

\* The tables and the requests in flight are well formed.  A stored asset has a
\* rack side unless it has been pulled out of its rack and has no position:
\* every write path but decommission REMOVE fills the side in, and REMOVE clears
\* the position and sets physicallyRemoved with it.
TypeOK ==
  /\ asset \in [Assets -> AssetRow]
  /\ res \in [Reservations -> ResRow]
  /\ totalU \in [Cabinets -> Int \cup {Null}]
  /\ now \in 0 .. MaxNow
  /\ sess \in [Sessions -> Session]
  /\ FlightTyped
  /\ \A a \in Assets :
        /\ asset[a].db = "unborn" => asset[a] = NoAsset
        /\ Stored(asset[a]) /\ asset[a].side = "unset" =>
              asset[a].removed /\ asset[a].u = Null

\* Placed, live, and every write of it has been through a check.
InService(row, cab) == Occupies(row, cab) /\ Live(row) /\ ~row.synced

\* Two assets in service, neither of them written by a CSV import, never fill the
\* same unit of the same face: whatever the order of placing, moving, retiring,
\* pulling and bringing back into service.  (assertUSlotAvailable and the MOVE
\* re-check; needs the requests not to overlap in time.)
LiveDisjoint ==
  \A a, b \in Assets, cab \in Cabinets :
    a # b /\ InService(asset[a], cab) /\ InService(asset[b], cab) =>
      Cells(asset[a]) \cap Cells(asset[b]) = {}

BothRacked(a, b) ==
  \E cab \in Cabinets : Occupies(asset[a], cab) /\ Occupies(asset[b], cab)

PhysicallyOverlap(a, b) == BothRacked(a, b) /\ Conflict(asset[a], asset[b])

\* Kit still in the rack, in service or retired, comes to overlap other kit only by
\* the completion of a MOVE (whose re-check passes over retired kit) or by a CSV
\* row: retiring a device does not open its units to create and update requests
\* until it has been physically removed.
RackedOverlapOnlyByMoveOrImport ==
  [][\A a, b \in Assets :
       a # b /\ ~PhysicallyOverlap(a, b) /\ PhysicallyOverlap(a, b)' =>
         \E s \in Sessions : sess[s].op \in {"move", "import"} /\ sess[s].id \in {a, b}]_vars

\* Why LiveDisjoint holds: the row a request in flight will leave behind is clear
\* of all other assets in service.
FlightClear ==
  \A s \in Sessions : sess[s].op \in {"create", "update", "move"} =>
    LET id == sess[s].id
        row == Merge(asset[id], sess[s].row, Columns(sess[s].op))
    IN  \A b \in Assets \ {id}, cab \in Cabinets :
          InService(row, cab) /\ InService(asset[b], cab) => ~Conflict(row, asset[b])

LiveApart ==
  \A a, b \in Assets, cab \in Cabinets :
    a # b /\ InService(asset[a], cab) /\ InService(asset[b], cab) =>
      ~Conflict(asset[a], asset[b])

\* The inductive invariant of the serial system.
SerialInv == TypeOK /\ LiveApart /\ FlightClear

\* An expired reservation made active again.
Revived(r) == Stored(res[r]) /\ ~Active(res[r]) /\ Active(res[r])'

HoldsOverlap(q, r) ==
  /\ Active(res[q]) /\ Active(res[r]) /\ res[q].cab = res[r].cab
  /\ Conflict(AsPlacement(res[q]), AsPlacement(res[r]))

\* Two active reservations come to overlap only when an expired one has its term
\* extended: creating a hold, or moving or growing one, is always checked.
\* (ReservationsService: "Reservation-vs-asset and reservation-vs-reservation
\* overlap are both hard 400s here".)
OverlapOnlyByRevival ==
  [][\A q, r \in Reservations :
       q # r /\ ~HoldsOverlap(q, r) /\ HoldsOverlap(q, r)' => Revived(q) \/ Revived(r)]_vars

Trespasses(a, r) ==
  /\ Active(res[r]) /\ Occupies(asset[a], res[r].cab)
  /\ Conflict(asset[a], AsPlacement(res[r]))

\* An asset comes to stand in an active reservation only by a request that names
\* that reservation as its override, by the completion of a MOVE or a CSV row
\* (neither looks at reservations), or because the hold was revived over it; a
\* reservation is never laid over an asset, in service or retired.
HoldsHonoured ==
  [][\A a \in Assets, r \in Reservations :
       ~Trespasses(a, r) /\ Trespasses(a, r)' =>
         \/ Revived(r)
         \/ \E s \in Sessions :
              /\ sess[s].op \in AssetOps /\ sess[s].id = a
              /\ sess[s].op \in {"move", "import"} \/ sess[s].override = r]_vars
=============================================================================
