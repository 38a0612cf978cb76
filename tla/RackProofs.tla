----------------------------- MODULE RackProofs -----------------------------
(***************************************************************************)
(* Theorems about module Rack, for every set of assets, reservations,      *)
(* cabinets and sessions:                                                  *)
(*   - the conflict test of u-slot.util.ts is exact (ConflictIsSharedCell) *)
(*   - the tables stay well formed however requests interleave (TypeOK)    *)
(*   - with at most one request at a time no two assets in service share a *)
(*     unit of a face (LiveDisjoint), and only the steps that the          *)
(*     properties name can make placed kit overlap, holds overlap, or kit  *)
(*     stand in a hold                                                     *)
(***************************************************************************)
EXTENDS Rack, TLAPS

----------------------------------------------------------------------------
(* Geometry.                                                               *)

\* findUSlotConflicts does not care which of the two is the candidate.
LEMMA ConflictSymmetric ==
  ASSUME NEW p, NEW q, Conflict(p, q)
  PROVE  Conflict(q, p)
BY DEF Conflict, IntervalsIntersect, FacesClash

\* Two spans overlap exactly when some unit lies in both.
LEMMA SpansOverlap ==
  ASSUME NEW a \in Int, NEW b \in Int, NEW c \in Int, NEW d \in Int, a <= b, c <= d
  PROVE  a <= d /\ c <= b <=> (a .. b) \cap (c .. d) # {}
<1>1. ASSUME a <= d, c <= b PROVE (a .. b) \cap (c .. d) # {}
  <2>1. CASE a <= c
    <3>1. c \in (a .. b) \cap (c .. d)
      BY <1>1, <2>1
    <3> QED BY <3>1
  <2>2. CASE c <= a
    <3>1. a \in (a .. b) \cap (c .. d)
      BY <1>1, <2>2
    <3> QED BY <3>1
  <2> QED BY <2>1, <2>2
<1>2. ASSUME NEW n \in (a .. b) \cap (c .. d) PROVE a <= d /\ c <= b
  OBVIOUS
<1> QED BY <1>1, <1>2

\* A clash of faces is a face both things fill.
LEMMA FacesShared ==
  ASSUME NEW p, NEW q, IsPlacement(p), IsPlacement(q)
  PROVE  FacesClash(p, q) <=> FacesOf(p) \cap FacesOf(q) # {}
<1>1. FacesOf(p) = IF p.depth = "half" /\ p.side # "unset" THEN {p.side} ELSE Faces
  BY DEF FacesOf
<1>2. FacesOf(q) = IF q.depth = "half" /\ q.side # "unset" THEN {q.side} ELSE Faces
  BY DEF FacesOf
<1>3. p.side \in Sides /\ q.side \in Sides
  BY DEF IsPlacement
<1> QED BY <1>1, <1>2, <1>3 DEF FacesClash, Faces, Sides

\* The spans and faces test of findUSlotConflicts finds a conflict exactly when the
\* two things physically fill a common cell of the rack.
THEOREM ConflictIsSharedCell ==
  ASSUME NEW p, NEW q, IsPlacement(p), IsPlacement(q)
  PROVE  Conflict(p, q) <=> Cells(p) \cap Cells(q) # {}
<1>1. /\ p.u \in Int /\ Top(p) \in Int /\ p.u <= Top(p)
      /\ q.u \in Int /\ Top(q) \in Int /\ q.u <= Top(q)
  BY NullAssumption DEF IsPlacement, Top, Height
<1>2. IntervalsIntersect(p, q) <=> (p.u .. Top(p)) \cap (q.u .. Top(q)) # {}
  BY <1>1, SpansOverlap DEF IntervalsIntersect
<1>3. Cells(p) \cap Cells(q) # {} <=>
        /\ (p.u .. Top(p)) \cap (q.u .. Top(q)) # {}
        /\ FacesOf(p) \cap FacesOf(q) # {}
  <2> DEFINE U == p.u .. Top(p)
             V == q.u .. Top(q)
             F == FacesOf(p)
             G == FacesOf(q)
  <2>1. Cells(p) = U \X F /\ Cells(q) = V \X G
    BY DEF Cells
  <2> HIDE DEF U, V, F, G
  <2>2. (U \X F) \cap (V \X G) # {} <=> U \cap V # {} /\ F \cap G # {}
    <3>1. ASSUME NEW c \in (U \X F) \cap (V \X G)
          PROVE  c[1] \in U \cap V /\ c[2] \in F \cap G
      BY <3>1
    <3>2. ASSUME NEW n \in U \cap V, NEW f \in F \cap G
          PROVE  <<n, f>> \in (U \X F) \cap (V \X G)
      BY <3>2
    <3> QED BY <3>1, <3>2
  <2> QED BY <2>1, <2>2 DEF U, V, F, G
<1> QED BY <1>2, <1>3, FacesShared DEF Conflict

----------------------------------------------------------------------------
(* Partial updates.                                                        *)

AssetFields ==
  {"db", "cab", "u", "side", "h", "depth", "zeroU", "state", "removed", "synced", "moveTo"}

LEMMA AssetFieldsOf ==
  /\ DOMAIN NoAsset = AssetFields
  /\ \A row \in AssetRow : DOMAIN row = AssetFields
BY DEF NoAsset, AssetRow, AssetFields

LEMMA NoAssetTyped == NoAsset \in AssetRow
BY DEF NoAsset, AssetRow, RowStates, Sides, Depths, LifecycleStates

LEMMA MergeTyped ==
  ASSUME NEW old \in AssetRow, NEW new \in AssetRow, NEW columns
  PROVE  Merge(old, new, columns) \in AssetRow
BY AssetFieldsOf DEF AssetRow, AssetFields, Merge

LEMMA MergeFields ==
  ASSUME NEW old \in AssetRow, NEW new \in AssetRow, NEW columns, NEW f \in AssetFields
  PROVE  Merge(old, new, columns)[f] = IF f \in columns THEN new[f] ELSE old[f]
BY AssetFieldsOf DEF Merge

----------------------------------------------------------------------------
(* Type correctness, for any number of concurrent requests.                *)

\* The row create and updateForClient write always has a rack side.
LEMMA PlacedTyped ==
  ASSUME NEW old \in AssetRow, NEW shape \in Shape, NEW state \in LifecycleStates,
         NEW spot \in [cab : Cabinets \cup {Null}, u : Int \cup {Null}, side : Sides]
  PROVE  /\ Placed(old, spot, shape, state) \in AssetRow
         /\ Placed(old, spot, shape, state).side # "unset"
         /\ Placed(old, spot, shape, state).db = old.db
<1> DEFINE u == IF shape.zeroU THEN Null ELSE spot.u
           side == IF spot.side = "unset" THEN "FRONT" ELSE spot.side
           row == [old EXCEPT !.cab = spot.cab, !.u = u, !.side = side, !.h = shape.h,
                              !.depth = shape.depth, !.zeroU = shape.zeroU,
                              !.state = state]
<1>1. u \in Int \cup {Null} /\ side \in Sides /\ side # "unset"
  BY DEF Sides, Faces
<1> HIDE DEF u, side
<1>2. spot.cab \in Cabinets \cup {Null}
  OBVIOUS
<1>3. shape.h \in Int \cup {Null} /\ shape.depth \in Depths /\ shape.zeroU \in BOOLEAN
  BY DEF Shape
<1>4. row \in AssetRow /\ row.side # "unset" /\ row.db = old.db
  BY <1>1, <1>2, <1>3 DEF AssetRow
<1> QED BY <1>4 DEF u, side, Placed

LEMMA Requested ==
  ASSUME NEW row \in AssetRow
  PROVE  /\ Spots \cup {SpotOf(row)} \subseteq
              [cab : Cabinets \cup {Null}, u : Int \cup {Null}, side : Sides]
         /\ Shapes \cup {ShapeOf(row)} \subseteq Shape
         /\ States \cup {row.state} \subseteq LifecycleStates
BY RackAssumption DEF AssetRow, SpotOf, ShapeOf, Shape, RackSpot, Sides

\* The facts FlightTyped asks of one request.
FitsOp(op, row) ==
  /\ op \in {"create", "update", "import", "move"} => row.side # "unset"
  /\ op = "create" => row.db = "stored"
  /\ op = "delete" => row.db = "deleted"
  /\ op = "remove" => row.removed /\ row.u = Null
  /\ op = "retire" => ~Live(row)
  /\ op = "import" => row.synced

LEMMA AskAssetTyped ==
  ASSUME TypeOK, NEW s \in Sessions, NEW op \in AssetOps, NEW a \in Assets,
         NEW row \in AssetRow, NEW override \in Reservations \cup {Null},
         FitsOp(op, row), AskAsset(s, op, a, row, override)
  PROVE  TypeOK'
<1>1. [op |-> op, id |-> a, row |-> row, override |-> override] \in Session
  BY DEF Session
<1>2. sess' \in [Sessions -> Session]
  BY <1>1 DEF AskAsset, TypeOK
<1>3. FlightTyped'
  BY DEF FlightTyped, AskAsset, TypeOK, FitsOp
<1> QED BY <1>2, <1>3 DEF TypeOK, AskAsset, Stored

LEMMA AskReservationTyped ==
  ASSUME TypeOK, NEW s \in Sessions, NEW op \in ResOps, NEW r \in Reservations,
         NEW row \in ResRow, AskReservation(s, op, r, row)
  PROVE  TypeOK'
<1>1. [op |-> op, id |-> r, row |-> row] \in Session
  BY DEF Session
<1>2. sess' \in [Sessions -> Session]
  BY <1>1 DEF AskReservation, TypeOK
<1>3. FlightTyped'
  BY DEF FlightTyped, AskReservation, TypeOK, AssetOps, ResOps
<1> QED BY <1>2, <1>3 DEF TypeOK, AskReservation, Stored

LEMMA AssetRequestTyped ==
  ASSUME TypeOK, NEW s \in Sessions, AssetRequest(s)
  PROVE  TypeOK'
<1> USE DEF AssetOps
<1>a. \A a \in Assets : asset[a] \in AssetRow
  BY DEF TypeOK
<1>1. CASE Create(s)
  <2>1. PICK a \in Assets, spot \in Spots, shape \in Shapes, state \in States,
             override \in Overrides :
          AskAsset(s, "create", a,
                   [Placed(NoAsset, spot, shape, state) EXCEPT !.db = "stored"], override)
    BY <1>1 DEF Create
  <2>2. /\ Placed(NoAsset, spot, shape, state) \in AssetRow
        /\ Placed(NoAsset, spot, shape, state).side # "unset"
    BY NoAssetTyped, PlacedTyped, Requested
  <2> DEFINE row == [Placed(NoAsset, spot, shape, state) EXCEPT !.db = "stored"]
  <2>3. row \in AssetRow /\ FitsOp("create", row)
    BY <2>2 DEF AssetRow, RowStates, FitsOp
  <2>4. override \in Reservations \cup {Null}
    BY DEF Overrides
  <2> QED BY <2>1, <2>3, <2>4, AskAssetTyped
<1>2. CASE UpdateForClient(s)
  <2>0. PICK a \in Assets, override \in Overrides :
          \E spot \in Spots \cup {SpotOf(asset[a])},
             shape \in Shapes \cup {ShapeOf(asset[a])},
             state \in States \cup {asset[a].state} :
            AskAsset(s, "update", a, Placed(asset[a], spot, shape, state), override)
    BY <1>2 DEF UpdateForClient
  <2>1. PICK spot \in Spots \cup {SpotOf(asset[a])},
             shape \in Shapes \cup {ShapeOf(asset[a])},
             state \in States \cup {asset[a].state} :
          AskAsset(s, "update", a, Placed(asset[a], spot, shape, state), override)
    BY <2>0
  <2>2. /\ Placed(asset[a], spot, shape, state) \in AssetRow
        /\ Placed(asset[a], spot, shape, state).side # "unset"
    <3>1. asset[a] \in AssetRow
      BY <1>a
    <3>2. /\ spot \in [cab : Cabinets \cup {Null}, u : Int \cup {Null}, side : Sides]
          /\ shape \in Shape /\ state \in LifecycleStates
      BY <3>1, Requested
    <3> QED BY <3>1, <3>2, PlacedTyped
  <2>3. override \in Reservations \cup {Null}
    BY DEF Overrides
  <2> QED BY <2>1, <2>2, <2>3, AskAssetTyped DEF FitsOp
<1>3. CASE RemoveForClient(s)
  <2>1. [NoAsset EXCEPT !.db = "deleted"] \in AssetRow
    BY NoAssetTyped DEF AssetRow, RowStates
  <2>2. FitsOp("delete", [NoAsset EXCEPT !.db = "deleted"])
    BY DEF FitsOp, NoAsset
  <2> QED BY <1>3, <2>1, <2>2, AskAssetTyped DEF RemoveForClient
<1>4. CASE Retire(s)
  <2>1. PICK a \in Assets :
          AskAsset(s, "retire", a, [asset[a] EXCEPT !.state = "RETIRED"], Null)
    BY <1>4 DEF Retire
  <2> DEFINE row == [asset[a] EXCEPT !.state = "RETIRED"]
  <2>2. row \in AssetRow /\ FitsOp("retire", row)
    BY <1>a DEF AssetRow, LifecycleStates, FitsOp, Live
  <2> QED BY <2>1, <2>2, AskAssetTyped
<1>5. CASE PullFromRack(s)
  <2>1. PICK a \in Assets :
          AskAsset(s, "remove", a,
            [asset[a] EXCEPT !.removed = TRUE, !.u = Null, !.side = "unset"], Null)
    BY <1>5 DEF PullFromRack
  <2> DEFINE row == [asset[a] EXCEPT !.removed = TRUE, !.u = Null, !.side = "unset"]
  <2>2. row \in AssetRow /\ FitsOp("remove", row)
    BY <1>a DEF AssetRow, Sides, FitsOp
  <2> QED BY <2>1, <2>2, AskAssetTyped
<1>6. CASE ImportExisting(s)
  <2>1. PICK a \in Assets, cab \in Cabinets \cup {Null}, state \in States :
          AskAsset(s, "import", a,
            [asset[a] EXCEPT !.cab = cab, !.state = state, !.synced = TRUE,
                             !.side = IF @ = "unset" THEN "FRONT" ELSE @], Null)
    BY <1>6 DEF ImportExisting
  <2> DEFINE row == [asset[a] EXCEPT !.cab = cab, !.state = state, !.synced = TRUE,
                                     !.side = IF @ = "unset" THEN "FRONT" ELSE @]
  <2>2. row \in AssetRow /\ FitsOp("import", row)
    BY <1>a, RackAssumption DEF AssetRow, Sides, Faces, FitsOp
  <2> QED BY <2>1, <2>2, AskAssetTyped
<1>7. CASE ImportNew(s)
  <2>1. PICK a \in Assets, cab \in Cabinets \cup {Null}, state \in States :
          AskAsset(s, "create", a,
            [NoAsset EXCEPT !.db = "stored", !.cab = cab, !.state = state,
                            !.side = "FRONT", !.synced = TRUE], Null)
    BY <1>7 DEF ImportNew
  <2> DEFINE row == [NoAsset EXCEPT !.db = "stored", !.cab = cab, !.state = state,
                                    !.side = "FRONT", !.synced = TRUE]
  <2>2. row \in AssetRow /\ FitsOp("create", row)
    BY NoAssetTyped, RackAssumption DEF AssetRow, RowStates, Sides, Faces, FitsOp
  <2> QED BY <2>1, <2>2, AskAssetTyped
<1>8. CASE RaiseMove(s)
  <2>1. PICK a \in Assets, spot \in Targets :
          AskAsset(s, "stage", a, [asset[a] EXCEPT !.moveTo = spot], Null)
    BY <1>8 DEF RaiseMove
  <2>2. [asset[a] EXCEPT !.moveTo = spot] \in AssetRow
    BY <1>a, RackAssumption DEF AssetRow
  <2> QED BY <2>1, <2>2, AskAssetTyped DEF FitsOp
<1>9. CASE ApplyMove(s)
  <2>1. PICK a \in Assets :
          /\ asset[a].moveTo # Null
          /\ AskAsset(s, "move", a,
               [asset[a] EXCEPT !.cab = asset[a].moveTo.cab, !.u = asset[a].moveTo.u,
                                !.side = asset[a].moveTo.side, !.moveTo = Null], Null)
    BY <1>9 DEF ApplyMove
  <2> DEFINE row == [asset[a] EXCEPT !.cab = asset[a].moveTo.cab, !.u = asset[a].moveTo.u,
                                     !.side = asset[a].moveTo.side, !.moveTo = Null]
  <2>2. asset[a].moveTo \in MoveSpot
    BY <1>a, <2>1 DEF AssetRow
  <2>3. row \in AssetRow /\ FitsOp("move", row)
    BY <1>a, <2>2 DEF AssetRow, MoveSpot, Sides, Faces, FitsOp
  <2> QED BY <2>1, <2>3, AskAssetTyped
<1>10. CASE DropMove(s)
  <2>1. PICK a \in Assets :
          AskAsset(s, "clear", a, [asset[a] EXCEPT !.moveTo = Null], Null)
    BY <1>10 DEF DropMove
  <2>2. [asset[a] EXCEPT !.moveTo = Null] \in AssetRow
    BY <1>a DEF AssetRow
  <2> QED BY <2>1, <2>2, AskAssetTyped DEF FitsOp
<1> QED BY <1>1, <1>2, <1>3, <1>4, <1>5, <1>6, <1>7, <1>8, <1>9, <1>10
        DEF AssetRequest

LEMMA ReservationRequestTyped ==
  ASSUME TypeOK, NEW s \in Sessions, ReservationRequest(s)
  PROVE  TypeOK'
<1> USE DEF ResOps
<1>a. \A r \in Reservations : res[r] \in ResRow
  BY DEF TypeOK
<1>1. CASE CreateReservation(s)
  <2>1. PICK r \in Reservations, range \in Ranges, term \in Terms :
          AskReservation(s, "reserve", r,
            [db |-> "stored", cab |-> range.cab, u |-> range.u, h |-> range.h,
             side |-> range.side, expires |-> term])
    BY <1>1 DEF CreateReservation
  <2>2. range \in HoldRange /\ term \in Nat \cup {Null}
    BY RackAssumption
  <2>3. [db |-> "stored", cab |-> range.cab, u |-> range.u, h |-> range.h,
         side |-> range.side, expires |-> term] \in ResRow
    BY <2>2 DEF HoldRange, ResRow, RowStates
  <2> QED BY <2>1, <2>3, AskReservationTyped
<1>2. CASE UpdateReservation(s)
  <2>1. PICK r \in Reservations :
          \E range \in Ranges \cup {[cab |-> res[r].cab, u |-> res[r].u,
                                     h |-> res[r].h, side |-> res[r].side]},
             term \in Terms \cup {res[r].expires} :
            AskReservation(s, "rereserve", r,
              [res[r] EXCEPT !.u = range.u, !.h = range.h, !.side = range.side,
                             !.expires = term])
    BY <1>2 DEF UpdateReservation
  <2>2. PICK range \in Ranges \cup {[cab |-> res[r].cab, u |-> res[r].u,
                                     h |-> res[r].h, side |-> res[r].side]},
             term \in Terms \cup {res[r].expires} :
          AskReservation(s, "rereserve", r,
            [res[r] EXCEPT !.u = range.u, !.h = range.h, !.side = range.side,
                           !.expires = term])
    BY <2>1
  <2>3. /\ range.u \in Int \cup {Null} /\ range.h \in Int /\ range.side \in Sides
        /\ term \in Nat \cup {Null}
    BY <1>a, RackAssumption DEF HoldRange, ResRow
  <2>4. [res[r] EXCEPT !.u = range.u, !.h = range.h, !.side = range.side,
                       !.expires = term] \in ResRow
    BY <1>a, <2>3 DEF ResRow
  <2> QED BY <2>2, <2>4, AskReservationTyped
<1>3. CASE RemoveReservation(s)
  <2>1. [NoReservation EXCEPT !.db = "deleted"] \in ResRow
    BY DEF NoReservation, ResRow, RowStates, Sides
  <2> QED BY <1>3, <2>1, AskReservationTyped DEF RemoveReservation
<1> QED BY <1>1, <1>2, <1>3 DEF ReservationRequest

\* What a committed write leaves in its row.
LEMMA CommitRow ==
  ASSUME TypeOK, NEW s \in Sessions, CommitAsset(s)
  PROVE  /\ sess[s].op \in AssetOps /\ sess[s].id \in Assets /\ sess[s].row \in AssetRow
         /\ asset' = [asset EXCEPT ![sess[s].id] =
                        Merge(asset[sess[s].id], sess[s].row, Columns(sess[s].op))]
            \/ asset' = asset
         /\ asset' # asset => asset[sess[s].id].db =
                (IF sess[s].op = "create" THEN "unborn" ELSE "stored")
<1>1. sess[s] \in Session /\ sess[s].op \in AssetOps
  BY DEF TypeOK, CommitAsset
<1>2. sess[s].id \in Assets /\ sess[s].row \in AssetRow
  BY <1>1 DEF Session, AssetOps, ResOps
<1> QED BY <1>1, <1>2 DEF CommitAsset

LEMMA CommitAssetTyped ==
  ASSUME TypeOK, NEW s \in Sessions, CommitAsset(s)
  PROVE  TypeOK'
<1> DEFINE op == sess[s].op
           id == sess[s].id
           row == sess[s].row
           new == Merge(asset[id], row, Columns(op))
<1>1. op \in AssetOps /\ id \in Assets /\ row \in AssetRow
  BY CommitRow
<1>2. sess' \in [Sessions -> Session] /\ FlightTyped'
  <2>1. sess' = [sess EXCEPT ![s] = Idle]
    BY DEF CommitAsset
  <2>2. Idle \in Session /\ Idle.op \notin AssetOps
    BY DEF Idle, Session, AssetOps
  <2> QED BY <2>1, <2>2 DEF TypeOK, FlightTyped
<1>3. CASE asset' = asset
  BY <1>2, <1>3 DEF TypeOK, CommitAsset, Stored
<1>4. CASE asset' # asset
  <2>1. asset' = [asset EXCEPT ![id] = new]
    BY <1>4, CommitRow
  <2>2. asset[id].db = IF op = "create" THEN "unborn" ELSE "stored"
    BY <1>4, CommitRow
  <2>3. asset[id] \in AssetRow /\ new \in AssetRow
    BY <1>1, MergeTyped DEF TypeOK
  <2>4. FitsOp(op, row)
    BY <1>1 DEF TypeOK, FlightTyped, FitsOp
  <2>5. /\ new.db = IF "db" \in Columns(op) THEN row.db ELSE asset[id].db
        /\ new.u = IF "u" \in Columns(op) THEN row.u ELSE asset[id].u
        /\ new.side = IF "side" \in Columns(op) THEN row.side ELSE asset[id].side
        /\ new.removed = IF "removed" \in Columns(op) THEN row.removed ELSE asset[id].removed
    BY <1>1, <2>3, MergeFields DEF AssetFields
  <2>6. new.db # "unborn"
    BY <1>1, <2>2, <2>4, <2>5, AssetFieldsOf DEF FitsOp, Columns, AssetOps, AssetFields
  <2>7. Stored(new) /\ new.side = "unset" => new.removed /\ new.u = Null
    <3>1. CASE op \in {"create", "update", "import", "move"}
      BY <2>4, <2>5, <3>1, AssetFieldsOf DEF FitsOp, Columns, AssetFields
    <3>2. CASE op = "delete"
      BY <2>4, <2>5, <3>2, AssetFieldsOf DEF FitsOp, Columns, AssetFields, Stored
    <3>3. CASE op = "remove"
      BY <2>4, <2>5, <3>3 DEF FitsOp, Columns
    <3>4. CASE op \in {"retire", "stage", "clear"}
      BY <1>1, <2>2, <2>5, <3>4 DEF Columns, TypeOK, Stored
    <3> QED BY <1>1, <3>1, <3>2, <3>3, <3>4 DEF AssetOps
  <2>8. asset' \in [Assets -> AssetRow]
    BY <2>1, <2>3 DEF TypeOK
  <2>9. ASSUME NEW a \in Assets
        PROVE  /\ asset'[a].db = "unborn" => asset'[a] = NoAsset
               /\ Stored(asset'[a]) /\ asset'[a].side = "unset" =>
                     asset'[a].removed /\ asset'[a].u = Null
    <3>1. CASE a = id
      <4>1. asset'[a] = new
        BY <1>1, <2>1, <3>1 DEF TypeOK
      <4> QED BY <2>6, <2>7, <4>1
    <3>2. CASE a # id
      <4>1. asset'[a] = asset[a]
        BY <2>1, <3>2 DEF TypeOK
      <4> QED BY <4>1 DEF TypeOK
    <3> QED BY <3>1, <3>2
  <2>10. UNCHANGED <<res, totalU, now>>
    BY DEF CommitAsset
  <2> QED BY <1>2, <2>8, <2>9, <2>10 DEF TypeOK, Stored
<1> QED BY <1>3, <1>4

LEMMA CommitReservationTyped ==
  ASSUME TypeOK, NEW s \in Sessions, CommitReservation(s)
  PROVE  TypeOK'
<1>1. sess[s] \in Session /\ sess[s].op \in ResOps
  BY DEF TypeOK, CommitReservation
<1>2. sess[s].id \in Reservations /\ sess[s].row \in ResRow
  BY <1>1 DEF Session, AssetOps, ResOps
<1>3. res' \in [Reservations -> ResRow]
  BY <1>2 DEF CommitReservation, TypeOK
<1>4. sess' \in [Sessions -> Session] /\ FlightTyped'
  <2>1. sess' = [sess EXCEPT ![s] = Idle]
    BY DEF CommitReservation
  <2>2. Idle \in Session /\ Idle.op \notin AssetOps
    BY DEF Idle, Session, AssetOps
  <2> QED BY <2>1, <2>2 DEF TypeOK, FlightTyped
<1> QED BY <1>3, <1>4 DEF TypeOK, CommitReservation, Stored

\* The back-fill touches only rows that were pulled from their rack.
LEMMA BackfillTyped ==
  ASSUME TypeOK, BackfillRackSide
  PROVE  /\ TypeOK'
         /\ \A a \in Assets : asset'[a] # asset[a] =>
               /\ asset[a].u = Null
               /\ asset'[a] = [asset[a] EXCEPT !.side = "FRONT"]
<1>0. PICK rows \in SUBSET {a \in Assets : Stored(asset[a]) /\ asset[a].side = "unset"} :
        asset' = [a \in Assets |->
                   IF a \in rows THEN [asset[a] EXCEPT !.side = "FRONT"] ELSE asset[a]]
  BY DEF BackfillRackSide
<1>1. \A a \in rows : Stored(asset[a]) /\ asset[a].side = "unset"
  BY <1>0
<1>2. ASSUME NEW a \in Assets
      PROVE  /\ asset'[a] \in AssetRow
             /\ asset'[a].db = "unborn" => asset'[a] = NoAsset
             /\ Stored(asset'[a]) /\ asset'[a].side = "unset" =>
                   asset'[a].removed /\ asset'[a].u = Null
             /\ asset'[a] # asset[a] =>
                   asset[a].u = Null /\ asset'[a] = [asset[a] EXCEPT !.side = "FRONT"]
  <2>1. asset[a] \in AssetRow
    BY DEF TypeOK
  <2>2. CASE a \in rows
    <3>1. asset'[a] = [asset[a] EXCEPT !.side = "FRONT"]
      BY <1>0, <2>2
    <3>2. /\ asset'[a] \in AssetRow /\ asset'[a].side = "FRONT"
          /\ asset'[a].db = asset[a].db
      BY <2>1, <3>1 DEF AssetRow, Sides, Faces
    <3> QED BY <1>1, <2>2, <3>1, <3>2 DEF TypeOK, Stored
  <2>3. CASE a \notin rows
    <3>1. asset'[a] = asset[a]
      BY <1>0, <2>3
    <3> QED BY <2>1, <3>1 DEF TypeOK
  <2> QED BY <2>2, <2>3
<1>3. asset' \in [Assets -> AssetRow]
  BY <1>0, <1>2
<1>4. UNCHANGED <<res, totalU, now, sess>>
  BY DEF BackfillRackSide
<1>5. FlightTyped'
  BY <1>4 DEF TypeOK, FlightTyped
<1> QED BY <1>2, <1>3, <1>4, <1>5 DEF TypeOK

LEMMA NextTyped == TypeOK /\ [Next]_vars => TypeOK'
<1> SUFFICES ASSUME TypeOK, [Next]_vars PROVE TypeOK'
  OBVIOUS
<1>1. ASSUME NEW s \in Sessions, AssetRequest(s) PROVE TypeOK'
  BY <1>1, AssetRequestTyped
<1>2. ASSUME NEW s \in Sessions, ReservationRequest(s) PROVE TypeOK'
  BY <1>2, ReservationRequestTyped
<1>3. ASSUME NEW s \in Sessions, CommitAsset(s) PROVE TypeOK'
  BY <1>3, CommitAssetTyped
<1>4. ASSUME NEW s \in Sessions, CommitReservation(s) PROVE TypeOK'
  BY <1>4, CommitReservationTyped
<1>5. CASE ResizeCabinet
  <2>1. totalU' \in [Cabinets -> Int \cup {Null}]
    BY <1>5, RackAssumption DEF ResizeCabinet, TypeOK
  <2> QED BY <1>5, <2>1 DEF ResizeCabinet, TypeOK, FlightTyped, Stored
<1>6. CASE BackfillRackSide
  BY <1>6, BackfillTyped
<1>7. CASE Tick
  <2>1. now' \in 0 .. MaxNow
    BY <1>7, RackAssumption DEF Tick, TypeOK
  <2> QED BY <1>7, <2>1 DEF Tick, TypeOK, FlightTyped, Stored
<1>8. CASE UNCHANGED vars
  BY <1>8 DEF vars, TypeOK, FlightTyped, Stored
<1> QED BY <1>1, <1>2, <1>3, <1>4, <1>5, <1>6, <1>7, <1>8 DEF Next

LEMMA InitTyped == Init => TypeOK
<1> SUFFICES ASSUME Init PROVE TypeOK
  OBVIOUS
<1>1. asset \in [Assets -> AssetRow]
  BY NoAssetTyped DEF Init
<1>2. NoReservation \in ResRow
  BY DEF NoReservation, ResRow, RowStates, Sides
<1>3. totalU \in [Cabinets -> Int \cup {Null}] /\ now \in 0 .. MaxNow
  <2>1. FrameSizes \subseteq Int \cup {Null} /\ MaxNow \in Nat
    BY RackAssumption
  <2>2. totalU \in [Cabinets -> FrameSizes] /\ now = 0
    BY DEF Init
  <2>3. now \in 0 .. MaxNow
    BY <2>1, <2>2
  <2> QED BY <2>1, <2>2, <2>3
<1>4. sess \in [Sessions -> Session] /\ FlightTyped
  BY DEF Init, Idle, Session, FlightTyped, AssetOps
<1> QED BY <1>1, <1>2, <1>3, <1>4 DEF Init, TypeOK, Stored, NoAsset

\* The tables and the requests in flight are well formed in every reachable state,
\* however many requests are served at once; in particular the only stored assets
\* without a rack side are those decommission REMOVE took out of their rack.
THEOREM TypeCorrect == Spec => []TypeOK
BY InitTyped, NextTyped, PTL DEF Spec

----------------------------------------------------------------------------
(* One request at a time: assets in service stay apart.                    *)

Serial == \A s, t \in Sessions : s = t

\* A row with another row's position, shape, cabinet and status fields.
LEMMA SameFootprint ==
  ASSUME NEW p, NEW q, NEW b, p.u = q.u, p.h = q.h, p.side = q.side, p.depth = q.depth
  PROVE  Conflict(p, b) <=> Conflict(q, b)
BY DEF Conflict, IntervalsIntersect, FacesClash, Top, Height

LEMMA MergedRow ==
  ASSUME NEW old \in AssetRow, NEW row \in AssetRow, NEW op \in AssetOps
  PROVE  LET new == Merge(old, row, Columns(op))
         IN  /\ op \in {"create", "delete"} => new = row
             /\ op \in {"update", "move"} =>
                  /\ new.cab = row.cab /\ new.u = row.u /\ new.side = row.side
                  /\ new.db = old.db /\ new.synced = old.synced
             /\ op = "update" =>
                  /\ new.h = row.h /\ new.depth = row.depth /\ new.zeroU = row.zeroU
                  /\ new.state = row.state
             /\ op = "move" =>
                  /\ new.h = old.h /\ new.depth = old.depth /\ new.zeroU = old.zeroU
                  /\ new.state = old.state
<1> DEFINE new == Merge(old, row, Columns(op))
<1>1. \A f \in AssetFields : new[f] = IF f \in Columns(op) THEN row[f] ELSE old[f]
  BY MergeFields
<1>2. new \in AssetRow
  BY MergeTyped
<1>3. CASE op \in {"create", "delete"}
  <2>1. \A f \in AssetFields : new[f] = row[f]
    BY <1>1, <1>3, AssetFieldsOf DEF Columns
  <2>2. new = row
    BY <1>2, <2>1, AssetFieldsOf DEF AssetRow, AssetFields
  <2> QED BY <1>3, <2>2
<1>4. CASE op = "update"
  BY <1>1, <1>4 DEF Columns, AssetFields
<1>5. CASE op = "move"
  BY <1>1, <1>5 DEF Columns, AssetFields
<1> QED BY <1>3, <1>4, <1>5

\* A check made against the rows as they are makes the row to be written clear.
LEMMA CheckedRowClear ==
  ASSUME NEW a \in Assets, NEW row, NEW new,
         new.cab = row.cab, new.u = row.u, new.side = row.side,
         new.h = row.h, new.depth = row.depth, new.zeroU = row.zeroU,
         Null \notin Cabinets,
         row.cab # Null /\ row.u # Null /\ ~row.zeroU =>
           \A b \in Assets \ {a} :
             Occupies(asset[b], row.cab) /\ Live(asset[b]) => ~Conflict(row, asset[b]),
         NEW b \in Assets \ {a}, NEW cab \in Cabinets,
         InService(new, cab), InService(asset[b], cab)
  PROVE  ~Conflict(new, asset[b])
<1>1. row.cab = cab /\ cab # Null /\ row.u # Null /\ ~row.zeroU
  BY DEF InService, Occupies
<1>2. Occupies(asset[b], row.cab) /\ Live(asset[b])
  BY <1>1 DEF InService
<1>3. ~Conflict(row, asset[b])
  BY <1>1, <1>2
<1> QED BY <1>3, SameFootprint

\* A request that asks for a row clear of everything in service.
LEMMA AskClear ==
  ASSUME TypeOK, Serial, NEW s \in Sessions, NEW op \in AssetOps, NEW a \in Assets,
         NEW row \in AssetRow, NEW override, AskAsset(s, op, a, row, override),
         op \in {"create", "update", "move"} =>
           \A b \in Assets \ {a}, cab \in Cabinets :
             /\ InService(Merge(asset[a], row, Columns(op)), cab)
             /\ InService(asset[b], cab)
             => ~Conflict(Merge(asset[a], row, Columns(op)), asset[b])
  PROVE  FlightClear'
<1>1. /\ asset' = asset
      /\ sess'[s].op = op /\ sess'[s].id = a /\ sess'[s].row = row
  BY DEF AskAsset, TypeOK
<1>2. \A t \in Sessions : t = s
  BY DEF Serial
<1> QED BY <1>1, <1>2 DEF FlightClear

LEMMA AssetRequestClear ==
  ASSUME TypeOK, Serial, NEW s \in Sessions, AssetRequest(s)
  PROVE  FlightClear'
<1> USE DEF AssetOps
<1>a. \A a \in Assets : asset[a] \in AssetRow
  BY DEF TypeOK
<1>n. Null \notin Cabinets
  BY RackAssumption
<1>1. CASE Create(s)
  <2>1. PICK a \in Assets, spot \in Spots, shape \in Shapes, state \in States,
             override \in Overrides :
          LET row == [Placed(NoAsset, spot, shape, state) EXCEPT !.db = "stored"]
          IN  /\ PlacementAccepted(row, a, override)
              /\ AskAsset(s, "create", a, row, override)
    BY <1>1 DEF Create
  <2>2. Placed(NoAsset, spot, shape, state) \in AssetRow
    BY NoAssetTyped, PlacedTyped, Requested
  <2> DEFINE row == [Placed(NoAsset, spot, shape, state) EXCEPT !.db = "stored"]
             new == Merge(asset[a], row, Columns("create"))
  <2>3. row \in AssetRow
    BY <2>2 DEF AssetRow, RowStates
  <2> HIDE DEF row
  <2>4. new = row
    BY <1>a, <2>3, MergedRow
  <2>5. PlacementAccepted(row, a, override) /\ AskAsset(s, "create", a, row, override)
    BY <2>1 DEF row
  <2>6. ASSUME NEW b \in Assets \ {a}, NEW cab \in Cabinets,
               InService(new, cab), InService(asset[b], cab)
        PROVE  ~Conflict(new, asset[b])
    <3>1. row.cab # Null /\ row.u # Null /\ ~row.zeroU =>
            \A d \in Assets \ {a} :
              Occupies(asset[d], row.cab) /\ Live(asset[d]) => ~Conflict(row, asset[d])
      BY <2>5 DEF PlacementAccepted, USlotAvailable, FreeOfAssets
    <3> QED BY <1>n, <2>4, <2>6, <3>1, CheckedRowClear
  <2> QED BY <2>3, <2>5, <2>6, AskClear
<1>2. CASE UpdateForClient(s)
  <2>1. PICK a \in Assets, override \in Overrides :
          \E spot \in Spots \cup {SpotOf(asset[a])},
             shape \in Shapes \cup {ShapeOf(asset[a])},
             state \in States \cup {asset[a].state} :
            /\ PlacementAccepted(Placed(asset[a], spot, shape, state), a, override)
            /\ AskAsset(s, "update", a, Placed(asset[a], spot, shape, state), override)
    BY <1>2 DEF UpdateForClient
  <2>2. PICK spot \in Spots \cup {SpotOf(asset[a])},
             shape \in Shapes \cup {ShapeOf(asset[a])},
             state \in States \cup {asset[a].state} :
          /\ PlacementAccepted(Placed(asset[a], spot, shape, state), a, override)
          /\ AskAsset(s, "update", a, Placed(asset[a], spot, shape, state), override)
    BY <2>1
  <2> DEFINE row == Placed(asset[a], spot, shape, state)
             new == Merge(asset[a], row, Columns("update"))
  <2>3. row \in AssetRow
    <3>1. asset[a] \in AssetRow
      BY <1>a
    <3>2. /\ spot \in [cab : Cabinets \cup {Null}, u : Int \cup {Null}, side : Sides]
          /\ shape \in Shape /\ state \in LifecycleStates
      BY <3>1, Requested
    <3> QED BY <3>1, <3>2, PlacedTyped
  <2> HIDE DEF row
  <2>4. /\ new.cab = row.cab /\ new.u = row.u /\ new.side = row.side
        /\ new.h = row.h /\ new.depth = row.depth /\ new.zeroU = row.zeroU
    BY <1>a, <2>3, MergedRow
  <2>5. PlacementAccepted(row, a, override) /\ AskAsset(s, "update", a, row, override)
    BY <2>2 DEF row
  <2>6. ASSUME NEW b \in Assets \ {a}, NEW cab \in Cabinets,
               InService(new, cab), InService(asset[b], cab)
        PROVE  ~Conflict(new, asset[b])
    <3>1. row.cab # Null /\ row.u # Null /\ ~row.zeroU =>
            \A d \in Assets \ {a} :
              Occupies(asset[d], row.cab) /\ Live(asset[d]) => ~Conflict(row, asset[d])
      BY <2>5 DEF PlacementAccepted, USlotAvailable, FreeOfAssets
    <3> QED BY <1>n, <2>4, <2>6, <3>1, CheckedRowClear
  <2> QED BY <2>3, <2>5, <2>6, AskClear
<1>3. CASE ApplyMove(s)
  <2>1. PICK a \in Assets :
          /\ asset[a].moveTo # Null /\ MoveTargetFree(a)
          /\ AskAsset(s, "move", a,
               [asset[a] EXCEPT !.cab = asset[a].moveTo.cab, !.u = asset[a].moveTo.u,
                                !.side = asset[a].moveTo.side, !.moveTo = Null], Null)
    BY <1>3 DEF ApplyMove
  <2> DEFINE row == [asset[a] EXCEPT !.cab = asset[a].moveTo.cab, !.u = asset[a].moveTo.u,
                                     !.side = asset[a].moveTo.side, !.moveTo = Null]
             new == Merge(asset[a], row, Columns("move"))
             p == [u |-> asset[a].moveTo.u, side |-> asset[a].moveTo.side,
                   h |-> asset[a].h, depth |-> asset[a].depth]
  <2>2. asset[a].moveTo \in MoveSpot
    BY <1>a, <2>1 DEF AssetRow
  <2>3. /\ row \in AssetRow
        /\ row.cab = asset[a].moveTo.cab /\ row.u = p.u /\ row.side = p.side
        /\ row.h = p.h /\ row.depth = p.depth
    BY <1>a, <2>2 DEF AssetRow, MoveSpot, Sides, Faces
  <2>4. \A b \in Assets \ {a} :
          Occupies(asset[b], asset[a].moveTo.cab) /\ Live(asset[b]) => ~Conflict(p, asset[b])
    BY <2>1 DEF MoveTargetFree
  <2>5. AskAsset(s, "move", a, row, Null)
    BY <2>1
  <2> HIDE DEF row
  <2>6. /\ new.cab = row.cab /\ new.u = row.u /\ new.side = row.side
        /\ new.h = asset[a].h /\ new.depth = asset[a].depth
    BY <1>a, <2>3, MergedRow
  <2> HIDE DEF new
  <2>7. ASSUME NEW b \in Assets \ {a}, NEW cab \in Cabinets,
               InService(new, cab), InService(asset[b], cab)
        PROVE  ~Conflict(new, asset[b])
    <3>1. cab = asset[a].moveTo.cab
      BY <2>3, <2>6, <2>7 DEF InService, Occupies
    <3>2. ~Conflict(p, asset[b])
      BY <2>4, <2>7, <3>1 DEF InService
    <3>3. new.u = p.u /\ new.h = p.h /\ new.side = p.side /\ new.depth = p.depth
      BY <2>3, <2>6
    <3> QED BY <3>2, <3>3, SameFootprint
  <2> QED BY <2>3, <2>5, <2>7, AskClear DEF new
<1>4. CASE ImportNew(s)
  <2>1. PICK a \in Assets, cab \in Cabinets \cup {Null}, state \in States :
          AskAsset(s, "create", a,
            [NoAsset EXCEPT !.db = "stored", !.cab = cab, !.state = state,
                            !.side = "FRONT", !.synced = TRUE], Null)
    BY <1>4 DEF ImportNew
  <2> DEFINE row == [NoAsset EXCEPT !.db = "stored", !.cab = cab, !.state = state,
                                    !.side = "FRONT", !.synced = TRUE]
  <2>2. row \in AssetRow /\ row.u = Null
    BY NoAssetTyped, RackAssumption DEF AssetRow, RowStates, Sides, Faces, NoAsset
  <2>3. Merge(asset[a], row, Columns("create")) = row
    BY <1>a, <2>2, MergedRow
  <2> HIDE DEF row
  <2> QED BY <2>1, <2>2, <2>3, AskClear DEF InService, Occupies, row
<1>5. CASE RemoveForClient(s) \/ Retire(s) \/ PullFromRack(s) \/ ImportExisting(s)
           \/ RaiseMove(s) \/ DropMove(s)
  <2>1. PICK op \in {"delete", "retire", "remove", "import", "stage", "clear"},
             a \in Assets : \E row : AskAsset(s, op, a, row, Null)
    BY <1>5 DEF RemoveForClient, Retire, PullFromRack, ImportExisting, RaiseMove, DropMove
  <2>2. sess'[s].op = op
    BY <2>1 DEF AskAsset, TypeOK
  <2>3. \A t \in Sessions : t = s
    BY DEF Serial
  <2> QED BY <2>2, <2>3 DEF FlightClear
<1> QED BY <1>1, <1>2, <1>3, <1>4, <1>5 DEF AssetRequest

LEMMA OtherRequestClear ==
  ASSUME TypeOK, Serial, NEW s \in Sessions,
         ReservationRequest(s) \/ CommitAsset(s) \/ CommitReservation(s)
  PROVE  FlightClear'
<1>1. sess'[s].op \in ResOps \cup {"idle"}
  <2>1. CASE ReservationRequest(s)
    <3>1. \E op \in ResOps : \E r, row : AskReservation(s, op, r, row)
      <4>1. CASE CreateReservation(s)
        BY <4>1 DEF CreateReservation, ResOps
      <4>2. CASE UpdateReservation(s)
        BY <4>2 DEF UpdateReservation, ResOps
      <4>3. CASE RemoveReservation(s)
        BY <4>3 DEF RemoveReservation, ResOps
      <4> QED BY <2>1, <4>1, <4>2, <4>3 DEF ReservationRequest
    <3> QED BY <3>1 DEF AskReservation, TypeOK
  <2>2. CASE CommitAsset(s) \/ CommitReservation(s)
    BY <2>2 DEF CommitAsset, CommitReservation, Idle, TypeOK
  <2> QED BY <2>1, <2>2
<1>2. \A t \in Sessions : t = s
  BY DEF Serial
<1> QED BY <1>1, <1>2 DEF FlightClear, ResOps

\* A landed write keeps the assets in service apart: the row it leaves either was
\* clear of the others (FlightClear), or occupies nothing it did not occupy before.
LEMMA CommitApart ==
  ASSUME SerialInv, NEW s \in Sessions, CommitAsset(s)
  PROVE  LiveApart'
<1> DEFINE op == sess[s].op
           id == sess[s].id
           row == sess[s].row
           new == Merge(asset[id], row, Columns(op))
<1>1. TypeOK /\ LiveApart /\ FlightClear
  BY DEF SerialInv
<1>2. op \in AssetOps /\ id \in Assets /\ row \in AssetRow
  BY <1>1, CommitRow
<1>3. CASE asset' = asset
  BY <1>1, <1>3 DEF LiveApart
<1>4. CASE asset' # asset
  <2>1. asset' = [asset EXCEPT ![id] = new]
    BY <1>1, <1>4, CommitRow
  <2>2. asset[id].db = IF op = "create" THEN "unborn" ELSE "stored"
    BY <1>1, <1>4, CommitRow
  <2>3. asset[id] \in AssetRow
    BY <1>1, <1>2 DEF TypeOK
  <2>4. \A f \in AssetFields : new[f] = IF f \in Columns(op) THEN row[f] ELSE asset[id][f]
    BY <1>2, <2>3, MergeFields
  <2>5. FitsOp(op, row)
    BY <1>1, <1>2 DEF TypeOK, FlightTyped, FitsOp
  <2>6. ASSUME NEW b \in Assets \ {id}, NEW cab \in Cabinets,
               InService(new, cab), InService(asset[b], cab)
        PROVE  ~Conflict(new, asset[b])
    <3>1. CASE op \in {"create", "update", "move"}
      BY <1>1, <2>6, <3>1 DEF FlightClear
    <3>2. CASE op \in {"retire", "stage", "clear"}
      <4>1. /\ new.db = asset[id].db /\ new.cab = asset[id].cab /\ new.u = asset[id].u
            /\ new.side = asset[id].side /\ new.h = asset[id].h
            /\ new.depth = asset[id].depth /\ new.zeroU = asset[id].zeroU
            /\ new.synced = asset[id].synced
        BY <2>4, <3>2 DEF Columns, AssetFields
      <4>2. Live(asset[id])
        <5>1. op = "retire" => new.state = row.state
          BY <2>4 DEF Columns, AssetFields
        <5>2. op # "retire" => new.state = asset[id].state
          BY <2>4, <3>2 DEF Columns, AssetFields
        <5>3. Live(new)
          BY <2>6 DEF InService
        <5> QED BY <2>5, <5>1, <5>2, <5>3 DEF Live, FitsOp
      <4>3. InService(asset[id], cab)
        BY <2>6, <4>1, <4>2 DEF InService, Occupies, Stored
      <4>4. ~Conflict(asset[id], asset[b])
        BY <1>1, <1>2, <2>6, <4>3 DEF LiveApart
      <4> QED BY <4>1, <4>4, SameFootprint
    <3>3. CASE op = "delete"
      BY <2>4, <2>5, <2>6, <3>3, AssetFieldsOf
         DEF Columns, AssetFields, FitsOp, InService, Occupies, Stored
    <3>4. CASE op = "remove"
      BY <2>4, <2>5, <2>6, <3>4 DEF Columns, AssetFields, FitsOp, InService, Occupies
    <3>5. CASE op = "import"
      BY <2>4, <2>5, <2>6, <3>5 DEF Columns, AssetFields, FitsOp, InService
    <3> QED BY <1>2, <3>1, <3>2, <3>3, <3>4, <3>5 DEF AssetOps
  <2> HIDE DEF new
  <2>7. /\ asset'[id] = new
        /\ \A b \in Assets \ {id} : asset'[b] = asset[b]
    BY <1>1, <1>2, <2>1 DEF TypeOK
  <2>8. ASSUME NEW a \in Assets, NEW b \in Assets, NEW cab \in Cabinets, a # b,
               InService(asset'[a], cab), InService(asset'[b], cab)
        PROVE  ~Conflict(asset'[a], asset'[b])
    <3>1. CASE a = id
      BY <2>6, <2>7, <2>8, <3>1
    <3>2. CASE b = id
      <4>1. ~Conflict(asset'[b], asset'[a])
        BY <2>6, <2>7, <2>8, <3>2
      <4> QED BY <4>1, ConflictSymmetric
    <3>3. CASE a # id /\ b # id
      BY <1>1, <2>7, <2>8, <3>3 DEF LiveApart
    <3> QED BY <3>1, <3>2, <3>3
  <2> QED BY <2>8 DEF LiveApart, InService, Occupies, Live, Stored
<1> QED BY <1>3, <1>4

LEMMA UndisturbedClear ==
  ASSUME SerialInv, UNCHANGED <<asset, sess>>
  PROVE  LiveApart' /\ FlightClear'
BY DEF SerialInv, LiveApart, FlightClear

\* The back-fill sets the side of rows that are placed nowhere, and every write in
\* flight that would place one carries a side of its own.
LEMMA BackfillClear ==
  ASSUME SerialInv, BackfillRackSide
  PROVE  LiveApart' /\ FlightClear'
<1>1. TypeOK /\ LiveApart /\ FlightClear
  BY DEF SerialInv
<1>2. sess' = sess
  BY DEF BackfillRackSide
<1>3. TypeOK' /\ \A a \in Assets : asset'[a] # asset[a] =>
        asset[a].u = Null /\ asset'[a] = [asset[a] EXCEPT !.side = "FRONT"]
  BY <1>1, BackfillTyped
<1>4. ASSUME NEW a \in Assets, NEW cab \in Cabinets, InService(asset'[a], cab)
      PROVE  asset'[a] = asset[a]
  <2>1. SUFFICES ASSUME asset'[a] # asset[a] PROVE FALSE
    OBVIOUS
  <2>2. asset'[a].u = Null
    BY <1>1, <1>3, <2>1 DEF TypeOK, AssetRow
  <2> QED BY <1>4, <2>2 DEF InService, Occupies
<1>5. LiveApart'
  <2> SUFFICES ASSUME NEW a \in Assets, NEW b \in Assets, NEW cab \in Cabinets, a # b,
                      InService(asset'[a], cab), InService(asset'[b], cab)
               PROVE  ~Conflict(asset'[a], asset'[b])
    BY DEF LiveApart, InService, Occupies, Live, Stored
  <2>1. asset'[a] = asset[a] /\ asset'[b] = asset[b]
    BY <1>4
  <2> QED BY <1>1, <2>1 DEF LiveApart
<1>6. ASSUME NEW s \in Sessions, sess[s].op \in {"create", "update", "move"},
             NEW b \in Assets \ {sess[s].id}, NEW cab \in Cabinets,
             InService(Merge(asset'[sess[s].id], sess[s].row, Columns(sess[s].op)), cab),
             InService(asset'[b], cab)
      PROVE  ~Conflict(Merge(asset'[sess[s].id], sess[s].row, Columns(sess[s].op)), asset'[b])
  <2> DEFINE id == sess[s].id
             row == sess[s].row
             op == sess[s].op
             old == Merge(asset[id], row, Columns(op))
             new == Merge(asset'[id], row, Columns(op))
  <2>1. sess[s] \in Session
    BY <1>1 DEF TypeOK
  <2>2. id \in Assets /\ row \in AssetRow /\ op \in AssetOps
    BY <1>6, <2>1 DEF Session, AssetOps, ResOps
  <2>3. asset[id] \in AssetRow /\ asset'[id] \in AssetRow
    BY <1>1, <1>3, <2>2 DEF TypeOK
  <2>4. asset'[id] # asset[id] => asset'[id] = [asset[id] EXCEPT !.side = "FRONT"]
    BY <1>3, <2>2
  <2>5. \A f \in AssetFields \ {"side"} : asset'[id][f] = asset[id][f]
    BY <2>3, <2>4, AssetFieldsOf
  <2>6. "side" \in Columns(op)
    BY <1>6, AssetFieldsOf DEF Columns, AssetFields
  <2>7. \A f \in AssetFields : old[f] = IF f \in Columns(op) THEN row[f] ELSE asset[id][f]
    BY <2>2, <2>3, MergeFields
  <2>8. \A f \in AssetFields : new[f] = IF f \in Columns(op) THEN row[f] ELSE asset'[id][f]
    BY <2>2, <2>3, MergeFields
  <2>9. \A f \in AssetFields : new[f] = old[f]
    BY <2>5, <2>6, <2>7, <2>8
  <2>10. new \in AssetRow /\ old \in AssetRow
    BY <2>2, <2>3, MergeTyped
  <2>11. new = old
    BY <2>9, <2>10, AssetFieldsOf DEF AssetRow, AssetFields
  <2>12. asset'[b] = asset[b]
    BY <1>4, <1>6
  <2> HIDE DEF new, old
  <2>13. InService(old, cab) /\ InService(asset[b], cab)
    BY <1>6, <2>11, <2>12 DEF new
  <2>14. ~Conflict(old, asset[b])
    BY <1>1, <1>6, <2>13 DEF FlightClear, old
  <2> QED BY <2>11, <2>12, <2>14 DEF new
<1>7. FlightClear'
  BY <1>2, <1>6 DEF FlightClear, InService, Occupies, Live, Stored
<1> QED BY <1>5, <1>7

LEMMA SerialNext ==
  ASSUME Serial, SerialInv, [Next]_vars
  PROVE  SerialInv'
<1>1. TypeOK /\ TypeOK'
  BY NextTyped DEF SerialInv
<1>2. ASSUME NEW s \in Sessions, AssetRequest(s) PROVE LiveApart' /\ FlightClear'
  <2>1. asset' = asset
    BY <1>2 DEF AssetRequest, Create, UpdateForClient, RemoveForClient, Retire, PullFromRack,
                ImportExisting, ImportNew, RaiseMove, ApplyMove, DropMove, AskAsset
  <2>2. LiveApart'
    BY <2>1 DEF SerialInv, LiveApart
  <2> QED BY <1>1, <1>2, <2>2, AssetRequestClear
<1>3. ASSUME NEW s \in Sessions, ReservationRequest(s) \/ CommitReservation(s)
      PROVE  LiveApart' /\ FlightClear'
  <2>1. asset' = asset
    BY <1>3 DEF ReservationRequest, CreateReservation, UpdateReservation,
                RemoveReservation, AskReservation, CommitReservation
  <2>2. LiveApart'
    BY <2>1 DEF SerialInv, LiveApart
  <2> QED BY <1>1, <1>3, <2>2, OtherRequestClear
<1>4. ASSUME NEW s \in Sessions, CommitAsset(s) PROVE LiveApart' /\ FlightClear'
  BY <1>1, <1>4, CommitApart, OtherRequestClear
<1>5. ASSUME BackfillRackSide PROVE LiveApart' /\ FlightClear'
  BY <1>5, BackfillClear
<1>6. ASSUME ResizeCabinet \/ Tick \/ UNCHANGED vars PROVE LiveApart' /\ FlightClear'
  <2>1. UNCHANGED <<asset, sess>>
    BY <1>6 DEF ResizeCabinet, Tick, vars
  <2> QED BY <2>1, UndisturbedClear
<1>7. LiveApart' /\ FlightClear'
  BY <1>2, <1>3, <1>4, <1>5, <1>6 DEF Next
<1> QED BY <1>1, <1>7 DEF SerialInv

LEMMA SerialInit == Init => SerialInv
<1> SUFFICES ASSUME Init PROVE SerialInv
  OBVIOUS
<1>1. TypeOK
  BY InitTyped
<1>2. LiveApart
  BY DEF Init, LiveApart, InService, Occupies, Stored, NoAsset
<1>3. FlightClear
  BY DEF Init, FlightClear, Idle
<1> QED BY <1>1, <1>2, <1>3 DEF SerialInv

LEMMA ApartIsDisjoint == SerialInv => LiveDisjoint
<1> SUFFICES ASSUME SerialInv, NEW a \in Assets, NEW b \in Assets, NEW cab \in Cabinets, a # b,
                    InService(asset[a], cab), InService(asset[b], cab)
             PROVE  Cells(asset[a]) \cap Cells(asset[b]) = {}
  BY DEF LiveDisjoint
<1>1. asset[a] \in AssetRow /\ asset[b] \in AssetRow
  BY DEF SerialInv, TypeOK
<1>2. IsPlacement(asset[a]) /\ IsPlacement(asset[b])
  BY <1>1 DEF InService, Occupies, AssetRow, IsPlacement
<1>3. ~Conflict(asset[a], asset[b])
  BY DEF SerialInv, LiveApart
<1> QED BY <1>2, <1>3, ConflictIsSharedCell

\* With at most one request at a time, no two assets in service share a unit of a
\* face of a rack, however they came to be placed, moved, retired, pulled, revived
\* or re-shaped and whatever becomes of the racks and the reservations.
THEOREM SerialLiveDisjoint ==
  ASSUME Serial
  PROVE  Spec => []LiveDisjoint
<1>1. SerialInv /\ [Next]_vars => SerialInv'
  BY SerialNext
<1> QED BY <1>1, SerialInit, ApartIsDisjoint, PTL DEF Spec

----------------------------------------------------------------------------
(* One request at a time: which steps can make placed kit overlap, active  *)
(* reservations overlap, or kit stand in a reservation.  A request in      *)
(* flight was checked against the tables as they still are.                *)

Positioned(row) == row.cab # Null /\ row.u # Null /\ ~row.zeroU

\* What create and updateForClient are about to write has been found free, but for
\* the reservation they override.
SlotChecked ==
  \A s \in Sessions :
    sess[s].op \in {"create", "update"} /\ Positioned(sess[s].row) =>
      /\ FreeOfAssets(sess[s].row, sess[s].row.cab, sess[s].id)
      /\ FreeOfReservations(sess[s].row, sess[s].row.cab, sess[s].override)

\* A reservation is created, or moved or grown.
NewRange(q) ==
  \/ q.op = "reserve"
  \/ q.op = "rereserve" /\ AsPlacement(q.row) # AsPlacement(res[q.id])

\* What a reservation request is about to write stays in its cabinet, and a range it
\* did not hold before has been found free.
RangeChecked ==
  \A s \in Sessions :
    /\ sess[s].op = "release" => sess[s].row.db = "deleted"
    /\ sess[s].op = "reserve" => sess[s].row.cab \in Cabinets
    /\ sess[s].op = "rereserve" => sess[s].row.cab = res[sess[s].id].cab
    /\ NewRange(sess[s]) =>
         /\ FreeOfAssets(AsPlacement(sess[s].row), sess[s].row.cab, Null)
         /\ FreeOfReservations(AsPlacement(sess[s].row), sess[s].row.cab, sess[s].id)

\* A hold is always on a cabinet.
HoldsPlaced == \A r \in Reservations : Stored(res[r]) => res[r].cab \in Cabinets

Checked == SlotChecked /\ RangeChecked /\ HoldsPlaced

\* One session, whose request is replaced.
LEMMA OneSession ==
  ASSUME TypeOK, Serial, NEW s \in Sessions, NEW q, sess' = [sess EXCEPT ![s] = q]
  PROVE  /\ sess'[s] = q
         /\ \A t \in Sessions : t = s
BY DEF TypeOK, Serial

LEMMA IdleChecked ==
  ASSUME TypeOK, Serial, NEW s \in Sessions, sess' = [sess EXCEPT ![s] = Idle], HoldsPlaced'
  PROVE  Checked'
<1>1. Idle.op = "idle"
  BY DEF Idle
<1>2. sess'[s] = Idle /\ \A t \in Sessions : t = s
  BY OneSession
<1>3. \A t \in Sessions : sess'[t].op = "idle"
  BY <1>1, <1>2
<1> QED BY <1>3 DEF Checked, SlotChecked, RangeChecked, NewRange

LEMMA AskedAssetChecked ==
  ASSUME TypeOK, Serial, HoldsPlaced, NEW s \in Sessions, NEW op \in AssetOps,
         NEW a, NEW row, NEW override,
         AskAsset(s, op, a, row, override),
         op \in {"create", "update"} => PlacementAccepted(row, a, override)
  PROVE  Checked'
<1>1. UNCHANGED <<asset, res, now>>
  BY DEF AskAsset
<1>2. /\ sess'[s].op = op /\ sess'[s].id = a /\ sess'[s].row = row
      /\ sess'[s].override = override
      /\ \A t \in Sessions : t = s
  BY DEF AskAsset, TypeOK, Serial
<1>3. SlotChecked'
  BY <1>1, <1>2 DEF SlotChecked, Positioned, PlacementAccepted, USlotAvailable,
                    FreeOfAssets, FreeOfReservations, Active
<1>4. RangeChecked'
  BY <1>2 DEF RangeChecked, NewRange, AssetOps
<1> QED BY <1>1, <1>3, <1>4 DEF Checked, HoldsPlaced

LEMMA AskedRangeChecked ==
  ASSUME TypeOK, Serial, HoldsPlaced, NEW s \in Sessions, NEW op \in ResOps,
         NEW r \in Reservations, NEW row,
         AskReservation(s, op, r, row),
         op = "release" => row.db = "deleted",
         op = "reserve" => row.cab \in Cabinets,
         op = "rereserve" => row.cab = res[r].cab,
         op = "reserve" \/ (op = "rereserve" /\ AsPlacement(row) # AsPlacement(res[r])) =>
           RangeFree(AsPlacement(row), row.cab, r)
  PROVE  Checked'
<1>1. UNCHANGED <<asset, res, now>>
  BY DEF AskReservation
<1>2. /\ sess'[s].op = op /\ sess'[s].id = r /\ sess'[s].row = row
      /\ \A t \in Sessions : t = s
  BY DEF AskReservation, TypeOK, Serial
<1>3. SlotChecked'
  BY <1>2 DEF SlotChecked, ResOps
<1>4. NewRange(sess[s])' => RangeFree(AsPlacement(row), row.cab, r)
  BY <1>1, <1>2 DEF NewRange
<1>5. RangeChecked'
  BY <1>1, <1>2, <1>4
     DEF RangeChecked, RangeFree, FreeOfAssets, FreeOfReservations, Active
<1> QED BY <1>1, <1>3, <1>5 DEF Checked, HoldsPlaced

\* Kit that occupies a cabinet stays as it is, and no reservation becomes active.
LEMMA StillChecked ==
  ASSUME Checked, UNCHANGED <<sess, res>>,
         \A b \in Assets, cab \in Cabinets \cup {Null} :
           Occupies(asset'[b], cab) => asset'[b] = asset[b],
         \A r \in Reservations : Active(res[r])' => Active(res[r]),
         TypeOK
  PROVE  Checked'
<1>1. ASSUME NEW p, NEW cab \in Cabinets \cup {Null}, NEW self, FreeOfAssets(p, cab, self)
      PROVE  \A b \in Assets \ {self} : Occupies(asset'[b], cab) => ~Conflict(p, asset'[b])
  BY <1>1 DEF FreeOfAssets
<1>2. ASSUME NEW p, NEW cab \in Cabinets \cup {Null}, NEW but, FreeOfReservations(p, cab, but)
      PROVE  \A r \in Reservations \ {but} :
               Active(res[r])' /\ res[r].cab = cab => ~Conflict(p, AsPlacement(res[r]))
  BY <1>2 DEF FreeOfReservations
<1>3. ASSUME NEW s \in Sessions, sess[s].op # "idle" PROVE sess[s].row.cab \in Cabinets \cup {Null}
  BY <1>3 DEF TypeOK, Session, AssetRow, ResRow
<1>4. SlotChecked'
  <2> SUFFICES ASSUME NEW s \in Sessions, sess[s].op \in {"create", "update"},
                      Positioned(sess[s].row)
               PROVE  /\ FreeOfAssets(sess[s].row, sess[s].row.cab, sess[s].id)'
                      /\ FreeOfReservations(sess[s].row, sess[s].row.cab, sess[s].override)'
    BY DEF SlotChecked, Positioned
  <2>1. /\ FreeOfAssets(sess[s].row, sess[s].row.cab, sess[s].id)
        /\ FreeOfReservations(sess[s].row, sess[s].row.cab, sess[s].override)
    BY DEF Checked, SlotChecked
  <2>2. sess[s].row.cab \in Cabinets \cup {Null}
    BY <1>3
  <2> QED BY <1>1, <1>2, <2>1, <2>2 DEF FreeOfAssets, FreeOfReservations, Occupies, Stored
<1>5. RangeChecked'
  <2> SUFFICES ASSUME NEW s \in Sessions, NewRange(sess[s])
               PROVE  /\ FreeOfAssets(AsPlacement(sess[s].row), sess[s].row.cab, Null)'
                      /\ FreeOfReservations(AsPlacement(sess[s].row), sess[s].row.cab,
                                            sess[s].id)'
    BY DEF Checked, RangeChecked, NewRange
  <2>1. /\ FreeOfAssets(AsPlacement(sess[s].row), sess[s].row.cab, Null)
        /\ FreeOfReservations(AsPlacement(sess[s].row), sess[s].row.cab, sess[s].id)
    BY DEF Checked, RangeChecked
  <2>2. sess[s].row.cab \in Cabinets \cup {Null}
    BY <1>3 DEF NewRange
  <2> QED BY <1>1, <1>2, <2>1, <2>2 DEF FreeOfAssets, FreeOfReservations, Occupies, Stored
<1> QED BY <1>4, <1>5 DEF Checked, HoldsPlaced

\* What create and updateForClient write has been through assertUSlotAvailable; a new
\* CSV row has no position.
LEMMA AssetRequestChecked ==
  ASSUME TypeOK, Serial, Checked, NEW s \in Sessions, AssetRequest(s)
  PROVE  Checked'
<1> USE DEF AssetOps
<1>h. HoldsPlaced
  BY DEF Checked
<1>1. CASE Create(s)
  <2>1. PICK a \in Assets, spot \in Spots, shape \in Shapes, state \in States,
             override \in Overrides :
          LET row == [Placed(NoAsset, spot, shape, state) EXCEPT !.db = "stored"]
          IN  /\ PlacementAccepted(row, a, override)
              /\ AskAsset(s, "create", a, row, override)
    BY <1>1 DEF Create
  <2> QED BY <1>h, <2>1, AskedAssetChecked
<1>2. CASE UpdateForClient(s)
  <2>1. PICK a \in Assets, override \in Overrides :
          \E spot \in Spots \cup {SpotOf(asset[a])},
             shape \in Shapes \cup {ShapeOf(asset[a])},
             state \in States \cup {asset[a].state} :
            /\ PlacementAccepted(Placed(asset[a], spot, shape, state), a, override)
            /\ AskAsset(s, "update", a, Placed(asset[a], spot, shape, state), override)
    BY <1>2 DEF UpdateForClient
  <2>2. PICK row : /\ PlacementAccepted(row, a, override)
                   /\ AskAsset(s, "update", a, row, override)
    BY <2>1
  <2> QED BY <1>h, <2>2, AskedAssetChecked
<1>3. CASE ImportNew(s)
  <2>1. PICK a \in Assets, cab \in Cabinets \cup {Null}, state \in States :
          AskAsset(s, "create", a,
            [NoAsset EXCEPT !.db = "stored", !.cab = cab, !.state = state,
                            !.side = "FRONT", !.synced = TRUE], Null)
    BY <1>3 DEF ImportNew
  <2> DEFINE row == [NoAsset EXCEPT !.db = "stored", !.cab = cab, !.state = state,
                                    !.side = "FRONT", !.synced = TRUE]
  <2>2. row.u = Null
    BY DEF NoAsset
  <2>3. PlacementAccepted(row, a, Null)
    BY <2>2 DEF PlacementAccepted
  <2> HIDE DEF row
  <2> QED BY <1>h, <2>1, <2>3, AskedAssetChecked DEF row
<1>4. CASE RemoveForClient(s) \/ Retire(s) \/ PullFromRack(s) \/ ImportExisting(s)
           \/ RaiseMove(s) \/ ApplyMove(s) \/ DropMove(s)
  <2>1. PICK op \in AssetOps \ {"create", "update"}, a \in Assets :
          \E row : AskAsset(s, op, a, row, Null)
    BY <1>4 DEF RemoveForClient, Retire, PullFromRack, ImportExisting, RaiseMove, ApplyMove,
                DropMove
  <2> QED BY <1>h, <2>1, AskedAssetChecked
<1> QED BY <1>1, <1>2, <1>3, <1>4 DEF AssetRequest

\* A new or changed range has been through assertRangeFree.
LEMMA ReservationRequestChecked ==
  ASSUME TypeOK, Serial, Checked, NEW s \in Sessions, ReservationRequest(s)
  PROVE  Checked'
<1> USE DEF ResOps
<1>h. HoldsPlaced
  BY DEF Checked
<1>1. CASE CreateReservation(s)
  <2>1. PICK r \in Reservations, range \in Ranges, term \in Terms :
          LET row == [db |-> "stored", cab |-> range.cab, u |-> range.u, h |-> range.h,
                      side |-> range.side, expires |-> term]
          IN  RangeFree(AsPlacement(row), row.cab, r) /\ AskReservation(s, "reserve", r, row)
    BY <1>1 DEF CreateReservation
  <2>2. range.cab \in Cabinets
    BY RackAssumption DEF HoldRange
  <2>3. PICK row : /\ row.cab \in Cabinets /\ RangeFree(AsPlacement(row), row.cab, r)
                   /\ AskReservation(s, "reserve", r, row)
    BY <2>1, <2>2
  <2> QED BY <1>h, <2>3, AskedRangeChecked
<1>2. CASE UpdateReservation(s)
  <2>1. PICK r \in Reservations :
          \E range \in Ranges \cup {[cab |-> res[r].cab, u |-> res[r].u,
                                     h |-> res[r].h, side |-> res[r].side]},
             term \in Terms \cup {res[r].expires} :
            LET row == [res[r] EXCEPT !.u = range.u, !.h = range.h, !.side = range.side,
                                      !.expires = term]
            IN  /\ AsPlacement(row) # AsPlacement(res[r]) =>
                     RangeFree(AsPlacement(row), row.cab, r)
                /\ AskReservation(s, "rereserve", r, row)
    BY <1>2 DEF UpdateReservation
  <2>2. PICK range, term :
          LET row == [res[r] EXCEPT !.u = range.u, !.h = range.h, !.side = range.side,
                                    !.expires = term]
          IN  /\ AsPlacement(row) # AsPlacement(res[r]) =>
                   RangeFree(AsPlacement(row), row.cab, r)
              /\ AskReservation(s, "rereserve", r, row)
    BY <2>1
  <2> DEFINE row == [res[r] EXCEPT !.u = range.u, !.h = range.h, !.side = range.side,
                                   !.expires = term]
  <2>3. row.cab = res[r].cab
    BY DEF TypeOK, ResRow
  <2>4. /\ AsPlacement(row) # AsPlacement(res[r]) => RangeFree(AsPlacement(row), row.cab, r)
        /\ AskReservation(s, "rereserve", r, row)
    BY <2>2
  <2> HIDE DEF row
  <2> QED BY <1>h, <2>3, <2>4, AskedRangeChecked
<1>3. CASE RemoveReservation(s)
  <2>1. PICK r \in Reservations :
          AskReservation(s, "release", r, [NoReservation EXCEPT !.db = "deleted"])
    BY <1>3 DEF RemoveReservation
  <2> DEFINE row == [NoReservation EXCEPT !.db = "deleted"]
  <2>2. row.db = "deleted"
    BY DEF NoReservation
  <2>3. AskReservation(s, "release", r, row)
    BY <2>1
  <2> HIDE DEF row
  <2> QED BY <1>h, <2>2, <2>3, AskedRangeChecked
<1> QED BY <1>1, <1>2, <1>3 DEF ReservationRequest

\* What a landed reservation write leaves.
LEMMA CommitHold ==
  ASSUME TypeOK, Checked, NEW s \in Sessions, CommitReservation(s)
  PROVE  LET q == sess[s]
         IN  /\ q.op \in ResOps /\ q.id \in Reservations
             /\ UNCHANGED <<asset, now>>
             /\ \A r \in Reservations \ {q.id} : res'[r] = res[r]
             /\ \/ res'[q.id] = res[q.id]
                \/ /\ res'[q.id] = q.row
                   /\ q.op # "reserve" => Stored(res[q.id])
<1>1. sess[s] \in Session /\ sess[s].op \in ResOps
  BY DEF TypeOK, CommitReservation
<1>2. sess[s].id \in Reservations
  BY <1>1 DEF Session, AssetOps, ResOps
<1> QED BY <1>1, <1>2 DEF CommitReservation, TypeOK, Stored

LEMMA CommitChecked ==
  ASSUME TypeOK, Serial, Checked, NEW s \in Sessions, CommitAsset(s) \/ CommitReservation(s)
  PROVE  Checked'
<1>1. sess' = [sess EXCEPT ![s] = Idle]
  BY DEF CommitAsset, CommitReservation
<1>2. HoldsPlaced'
  <2>1. CASE CommitAsset(s)
    BY <2>1 DEF CommitAsset, Checked, HoldsPlaced
  <2>2. CASE CommitReservation(s)
    <3> DEFINE q == sess[s]
    <3>1. /\ q.op \in ResOps /\ q.id \in Reservations
          /\ \A r \in Reservations \ {q.id} : res'[r] = res[r]
          /\ \/ res'[q.id] = res[q.id]
             \/ res'[q.id] = q.row /\ (q.op # "reserve" => Stored(res[q.id]))
      BY <2>2, CommitHold
    <3>2. Stored(q.row) /\ (q.op # "reserve" => Stored(res[q.id])) => q.row.cab \in Cabinets
      BY <3>1 DEF Checked, RangeChecked, HoldsPlaced, ResOps, Stored
    <3>3. HoldsPlaced
      BY DEF Checked
    <3> HIDE DEF q
    <3> QED BY <3>1, <3>2, <3>3 DEF HoldsPlaced, Stored
  <2> QED BY <2>1, <2>2
<1> QED BY <1>1, <1>2, IdleChecked

\* The back-fill writes no row that stands in a rack.
LEMMA BackfillStill ==
  ASSUME TypeOK, BackfillRackSide, NEW b \in Assets, NEW cab, Occupies(asset'[b], cab)
  PROVE  asset'[b] = asset[b]
<1>1. SUFFICES ASSUME asset'[b] # asset[b] PROVE FALSE
  OBVIOUS
<1>2. asset[b].u = Null /\ asset'[b] = [asset[b] EXCEPT !.side = "FRONT"]
  BY <1>1, BackfillTyped
<1>3. asset'[b].u = Null
  BY <1>2 DEF TypeOK, AssetRow
<1> QED BY <1>3 DEF Occupies

\* Time only ends reservations.
LEMMA TickExpires ==
  ASSUME TypeOK, Tick, NEW r \in Reservations, Active(res[r])'
  PROVE  Active(res[r])
<1>1. now \in Nat /\ now' = now + 1 /\ res' = res
  BY RackAssumption DEF TypeOK, Tick
<1>2. res[r].expires \in Nat \cup {Null}
  BY DEF TypeOK, ResRow
<1> QED BY <1>1, <1>2, NullAssumption DEF Active, Stored

LEMMA CheckedNext ==
  ASSUME Serial, TypeOK, Checked, [Next]_vars
  PROVE  Checked'
<1>1. ASSUME NEW s \in Sessions,
             AssetRequest(s) \/ ReservationRequest(s) \/ CommitAsset(s) \/ CommitReservation(s)
      PROVE  Checked'
  BY <1>1, AssetRequestChecked, ReservationRequestChecked, CommitChecked
<1>2. CASE BackfillRackSide
  <2>1. UNCHANGED <<res, now, sess>>
    BY <1>2 DEF BackfillRackSide
  <2>2. \A r \in Reservations : Active(res[r])' => Active(res[r])
    BY <2>1 DEF Active
  <2> QED BY <1>2, <2>1, <2>2, BackfillStill, StillChecked
<1>3. CASE Tick
  <2>1. UNCHANGED <<asset, res, sess>>
    BY <1>3 DEF Tick
  <2> QED BY <1>3, <2>1, TickExpires, StillChecked
<1>4. CASE ResizeCabinet \/ UNCHANGED vars
  <2>1. UNCHANGED <<asset, res, now, sess>>
    BY <1>4 DEF ResizeCabinet, vars
  <2>2. \A r \in Reservations : Active(res[r])' => Active(res[r])
    BY <2>1 DEF Active
  <2> QED BY <2>1, <2>2, StillChecked
<1> QED BY <1>1, <1>2, <1>3, <1>4 DEF Next

LEMMA CheckedInit == Init => Checked
<1> SUFFICES ASSUME Init PROVE Checked
  OBVIOUS
<1>1. Idle.op = "idle"
  BY DEF Idle
<1>2. \A s \in Sessions : sess[s].op = "idle"
  BY <1>1 DEF Init
<1>3. HoldsPlaced
  BY DEF Init, HoldsPlaced, NoReservation, Stored
<1> QED BY <1>2, <1>3 DEF Checked, SlotChecked, RangeChecked, NewRange

----------------------------------------------------------------------------
(* What a landed write can do to the places of things.                     *)

SamePlace(p, q) ==
  /\ p.cab = q.cab /\ p.u = q.u /\ p.side = q.side
  /\ p.h = q.h /\ p.depth = q.depth /\ p.zeroU = q.zeroU

\* The four ways an asset write can leave its row.
LEMMA CommitPlace ==
  ASSUME TypeOK, NEW s \in Sessions, CommitAsset(s)
  PROVE  LET q == sess[s]
             new == asset'[q.id]
         IN  /\ q.op \in AssetOps /\ q.id \in Assets
             /\ UNCHANGED <<res, now>>
             /\ \A b \in Assets \ {q.id} : asset'[b] = asset[b]
             /\ \/ q.op \in {"move", "import"}
                \/ q.op \in {"create", "update"} /\ SamePlace(new, q.row)
                \/ SamePlace(new, asset[q.id]) /\ new.db = asset[q.id].db
                \/ \A cab : ~Occupies(new, cab)
<1> DEFINE op == sess[s].op
           id == sess[s].id
           row == sess[s].row
           new == Merge(asset[id], row, Columns(op))
<1>1. op \in AssetOps /\ id \in Assets /\ row \in AssetRow
  BY CommitRow
<1>2. UNCHANGED <<res, now>>
  BY DEF CommitAsset
<1>3. CASE asset' = asset
  BY <1>1, <1>2, <1>3 DEF SamePlace
<1>4. CASE asset' # asset
  <2>1. asset' = [asset EXCEPT ![id] = new]
    BY <1>4, CommitRow
  <2>2. asset[id] \in AssetRow
    BY <1>1 DEF TypeOK
  <2>3. \A f \in AssetFields : new[f] = IF f \in Columns(op) THEN row[f] ELSE asset[id][f]
    BY <1>1, <2>2, MergeFields
  <2>4. FitsOp(op, row)
    BY <1>1 DEF TypeOK, FlightTyped, FitsOp
  <2> HIDE DEF new
  <2>5. op \in {"create", "update"} => SamePlace(new, row)
    BY <2>3, AssetFieldsOf DEF Columns, AssetFields, SamePlace
  <2>6. op \in {"retire", "stage", "clear"} =>
          SamePlace(new, asset[id]) /\ new.db = asset[id].db
    BY <2>3 DEF Columns, AssetFields, SamePlace
  <2>7. op = "remove" => new.u = Null
    BY <2>3, <2>4 DEF Columns, AssetFields, FitsOp
  <2>8. op = "delete" => new.db = "deleted"
    BY <2>3, <2>4, AssetFieldsOf DEF Columns, AssetFields, FitsOp
  <2>9. \/ op \in {"move", "import"}
        \/ op \in {"create", "update"} /\ SamePlace(new, row)
        \/ SamePlace(new, asset[id]) /\ new.db = asset[id].db
        \/ \A cab : ~Occupies(new, cab)
    BY <1>1, <2>5, <2>6, <2>7, <2>8 DEF AssetOps, Occupies, Stored
  <2>10. asset'[id] = new /\ \A b \in Assets \ {id} : asset'[b] = asset[b]
    BY <1>1, <2>1 DEF TypeOK
  <2> QED BY <1>1, <1>2, <2>9, <2>10
<1> QED BY <1>3, <1>4

\* Kit that does not move into other kit stands in it only where it already did.
LEMMA CommitApartFromAssets ==
  ASSUME TypeOK, Checked, NEW s \in Sessions, CommitAsset(s),
         sess[s].op \notin {"move", "import"},
         NEW b \in Assets \ {sess[s].id}, NEW cab \in Cabinets,
         Occupies(asset'[sess[s].id], cab), Occupies(asset[b], cab),
         Conflict(asset'[sess[s].id], asset[b])
  PROVE  Occupies(asset[sess[s].id], cab) /\ Conflict(asset[sess[s].id], asset[b])
<1> DEFINE id == sess[s].id
           row == sess[s].row
<1>1. \/ sess[s].op \in {"create", "update"} /\ SamePlace(asset'[id], row)
      \/ SamePlace(asset'[id], asset[id]) /\ asset'[id].db = asset[id].db
  BY CommitPlace
<1>2. CASE sess[s].op \in {"create", "update"} /\ SamePlace(asset'[id], row)
  <2>1. Positioned(row) /\ row.cab = cab
    BY <1>2, RackAssumption DEF Positioned, SamePlace, Occupies
  <2>2. ~Conflict(row, asset[b])
    BY <1>2, <2>1 DEF Checked, SlotChecked, FreeOfAssets
  <2> QED BY <1>2, <2>2, SameFootprint DEF SamePlace
<1>3. CASE SamePlace(asset'[id], asset[id]) /\ asset'[id].db = asset[id].db
  BY <1>3, SameFootprint DEF SamePlace, Occupies, Stored
<1> QED BY <1>1, <1>2, <1>3

\* Kit comes to stand in a hold only by naming it, or unchecked.
LEMMA CommitApartFromHolds ==
  ASSUME TypeOK, Checked, NEW s \in Sessions, CommitAsset(s),
         sess[s].op \notin {"move", "import"},
         NEW r \in Reservations, sess[s].override # r,
         Active(res[r]), Occupies(asset'[sess[s].id], res[r].cab),
         Conflict(asset'[sess[s].id], AsPlacement(res[r]))
  PROVE  Trespasses(sess[s].id, r)
<1> DEFINE id == sess[s].id
           row == sess[s].row
<1>1. \/ sess[s].op \in {"create", "update"} /\ SamePlace(asset'[id], row)
      \/ SamePlace(asset'[id], asset[id]) /\ asset'[id].db = asset[id].db
  BY CommitPlace
<1>2. CASE sess[s].op \in {"create", "update"} /\ SamePlace(asset'[id], row)
  <2>1. res[r].cab \in Cabinets
    BY DEF Checked, HoldsPlaced, Active
  <2>2. Positioned(row) /\ row.cab = res[r].cab
    BY <1>2, <2>1, RackAssumption DEF Positioned, SamePlace, Occupies
  <2>3. ~Conflict(row, AsPlacement(res[r]))
    BY <1>2, <2>2 DEF Checked, SlotChecked, FreeOfReservations
  <2> QED BY <1>2, <2>3, SameFootprint DEF SamePlace
<1>3. CASE SamePlace(asset'[id], asset[id]) /\ asset'[id].db = asset[id].db
  BY <1>3, SameFootprint DEF SamePlace, Occupies, Stored, Trespasses
<1> QED BY <1>1, <1>2, <1>3

\* A reservation write leaves a range found free, or the range it had, or no hold.
LEMMA CommitRange ==
  ASSUME TypeOK, Checked, NEW s \in Sessions, CommitReservation(s),
         NEW id, id = sess[s].id, Active(res[id])', ~Revived(id)
  PROVE  \/ /\ FreeOfAssets(AsPlacement(res'[id]), res'[id].cab, Null)
            /\ FreeOfReservations(AsPlacement(res'[id]), res'[id].cab, id)
         \/ /\ Active(res[id])
            /\ AsPlacement(res'[id]) = AsPlacement(res[id])
            /\ res'[id].cab = res[id].cab
<1> DEFINE q == sess[s]
<1>1. /\ q.op \in ResOps /\ id \in Reservations
      /\ UNCHANGED <<asset, now>>
      /\ \/ res'[id] = res[id]
         \/ res'[id] = q.row /\ (q.op # "reserve" => Stored(res[id]))
  BY CommitHold
<1>2. CASE res'[id] = res[id]
  BY <1>1, <1>2 DEF Active
<1>3. CASE res'[id] = q.row /\ (q.op # "reserve" => Stored(res[id]))
  <2>1. CASE NewRange(q)
    BY <1>3, <2>1 DEF Checked, RangeChecked
  <2>2. CASE ~NewRange(q)
    <3>1. q.op # "release"
      BY <1>3 DEF Checked, RangeChecked, Active, Stored
    <3>2. q.op = "rereserve"
      BY <1>1, <2>2, <3>1 DEF ResOps, NewRange
    <3>3. AsPlacement(q.row) = AsPlacement(res[id]) /\ q.row.cab = res[id].cab
      BY <2>2, <3>2 DEF NewRange, Checked, RangeChecked
    <3>4. Active(res[id])
      BY <1>3, <3>2 DEF Revived
    <3> QED BY <1>3, <3>3, <3>4
  <2> QED BY <2>1, <2>2
<1> QED BY <1>1, <1>2, <1>3

----------------------------------------------------------------------------
(* The theorems.                                                           *)

PlacementInv == TypeOK /\ Checked

LEMMA PlacementInit == Init => PlacementInv
BY InitTyped, CheckedInit DEF PlacementInv

LEMMA PlacementNext ==
  ASSUME Serial
  PROVE  PlacementInv /\ [Next]_vars => PlacementInv'
BY NextTyped, CheckedNext DEF PlacementInv

\* A request only takes a session; the steps that touch each table are few.
LEMMA RequestSteps ==
  ASSUME NEW s \in Sessions, AssetRequest(s) \/ ReservationRequest(s)
  PROVE  UNCHANGED <<asset, res, now>>
<1>1. CASE AssetRequest(s)
  BY <1>1 DEF AssetRequest, Create, UpdateForClient, RemoveForClient, Retire, PullFromRack,
              ImportExisting, ImportNew, RaiseMove, ApplyMove, DropMove, AskAsset
<1>2. CASE ReservationRequest(s)
  BY <1>2 DEF ReservationRequest, CreateReservation, UpdateReservation, RemoveReservation,
              AskReservation
<1> QED BY <1>1, <1>2

LEMMA TableSteps ==
  ASSUME Next
  PROVE  \/ UNCHANGED <<asset, res, now>>
         \/ \E s \in Sessions : CommitAsset(s)
         \/ \E s \in Sessions : CommitReservation(s)
         \/ BackfillRackSide
         \/ Tick
BY RequestSteps DEF Next, ResizeCabinet

\* With at most one request at a time, kit still in a rack, in service or retired, comes
\* to overlap other kit only by the completion of a MOVE or by a CSV row.
THEOREM OverlapNeedsMoveOrImport ==
  ASSUME Serial
  PROVE  Spec => RackedOverlapOnlyByMoveOrImport
<1>1. ASSUME PlacementInv, Next, NEW a \in Assets, NEW b \in Assets, a # b,
             ~PhysicallyOverlap(a, b), PhysicallyOverlap(a, b)'
      PROVE  \E s \in Sessions : sess[s].op \in {"move", "import"} /\ sess[s].id \in {a, b}
  <2>0. TypeOK /\ Checked
    BY <1>1 DEF PlacementInv
  <2>1. PICK cab \in Cabinets : Occupies(asset'[a], cab) /\ Occupies(asset'[b], cab)
    BY <1>1 DEF PhysicallyOverlap, BothRacked, Occupies, Stored
  <2>2. Conflict(asset'[a], asset'[b]) /\ Conflict(asset'[b], asset'[a])
    BY <1>1, ConflictSymmetric DEF PhysicallyOverlap
  <2>3. asset'[a] # asset[a] \/ asset'[b] # asset[b]
    BY <1>1, <2>1, <2>2 DEF PhysicallyOverlap, BothRacked
  <2>4. ~BackfillRackSide
    BY <2>0, <2>1, <2>3, BackfillStill
  <2>5. PICK s \in Sessions : CommitAsset(s)
    BY <1>1, <2>3, <2>4, TableSteps DEF CommitReservation, Tick
  <2>6. \A d \in Assets \ {sess[s].id} : asset'[d] = asset[d]
    BY <2>0, <2>5, CommitPlace
  <2>7. sess[s].id \in {a, b}
    BY <2>3, <2>6
  <2>8. SUFFICES ASSUME sess[s].op \notin {"move", "import"} PROVE FALSE
    BY <2>7
  <2>9. CASE sess[s].id = a
    <3>1. asset'[b] = asset[b]
      BY <1>1, <2>6, <2>9
    <3>2. Occupies(asset[a], cab) /\ Conflict(asset[a], asset[b])
      BY <1>1, <2>0, <2>1, <2>2, <2>5, <2>8, <2>9, <3>1, CommitApartFromAssets
    <3> QED BY <1>1, <2>1, <3>1, <3>2 DEF PhysicallyOverlap, BothRacked
  <2>10. CASE sess[s].id = b
    <3>1. asset'[a] = asset[a]
      BY <1>1, <2>6, <2>10
    <3>2. Occupies(asset[b], cab) /\ Conflict(asset[b], asset[a])
      BY <1>1, <2>0, <2>1, <2>2, <2>5, <2>8, <2>10, <3>1, CommitApartFromAssets
    <3>3. Conflict(asset[a], asset[b])
      BY <3>2, ConflictSymmetric
    <3> QED BY <1>1, <2>1, <3>1, <3>2, <3>3 DEF PhysicallyOverlap, BothRacked
  <2> QED BY <2>7, <2>9, <2>10
<1>2. PlacementInv /\ [Next]_vars =>
        [\A a, b \in Assets :
           a # b /\ ~PhysicallyOverlap(a, b) /\ PhysicallyOverlap(a, b)' =>
             \E s \in Sessions : sess[s].op \in {"move", "import"} /\ sess[s].id \in {a, b}]_vars
  BY <1>1
<1> QED BY <1>2, PlacementInit, PlacementNext, PTL DEF Spec, RackedOverlapOnlyByMoveOrImport

\* With at most one request at a time, two active reservations come to overlap only when
\* an expired one has its term extended.
THEOREM HoldsOverlapByRevival ==
  ASSUME Serial
  PROVE  Spec => OverlapOnlyByRevival
<1>1. ASSUME PlacementInv, Next, NEW q \in Reservations, NEW r \in Reservations, q # r,
             ~HoldsOverlap(q, r), HoldsOverlap(q, r)', ~Revived(q), ~Revived(r)
      PROVE  FALSE
  <2>0. TypeOK /\ Checked
    BY <1>1 DEF PlacementInv
  <2>1. /\ Active(res[q])' /\ Active(res[r])' /\ res'[q].cab = res'[r].cab
        /\ Conflict(AsPlacement(res'[q]), AsPlacement(res'[r]))
        /\ Conflict(AsPlacement(res'[r]), AsPlacement(res'[q]))
    <3>1. Conflict(AsPlacement(res'[q]), AsPlacement(res'[r]))
      BY <1>1 DEF HoldsOverlap, AsPlacement, Conflict, IntervalsIntersect, FacesClash, Top, Height
    <3>2. Conflict(AsPlacement(res'[r]), AsPlacement(res'[q]))
      BY <3>1, ConflictSymmetric
    <3> QED BY <1>1, <3>1, <3>2 DEF HoldsOverlap
  <2>2. ~Tick
    <3>1. SUFFICES ASSUME Tick PROVE FALSE
      OBVIOUS
    <3>2. Active(res[q]) /\ Active(res[r]) /\ res' = res
      BY <2>0, <2>1, <3>1, TickExpires DEF Tick
    <3> QED BY <1>1, <2>1, <3>2 DEF HoldsOverlap
  <2>3. ~UNCHANGED <<res, now>>
    BY <1>1, <2>1 DEF HoldsOverlap, Active, Stored
  <2>4. PICK s \in Sessions : CommitReservation(s)
    BY <1>1, <2>2, <2>3, TableSteps DEF CommitAsset, BackfillRackSide
  <2>5. /\ now' = now
        /\ \A d \in Reservations \ {sess[s].id} : res'[d] = res[d]
    BY <2>0, <2>4, CommitHold
  <2>6. ASSUME NEW id \in {q, r}, NEW other \in {q, r}, id # other, sess[s].id = id,
               ~Revived(id), Active(res[id])', Active(res[other])',
               res'[id].cab = res'[other].cab,
               Conflict(AsPlacement(res'[id]), AsPlacement(res'[other]))
        PROVE  HoldsOverlap(id, other)
    <3>1. other \in Reservations \ {id} /\ res'[other] = res[other]
      BY <2>5, <2>6
    <3>2. Active(res[other])
      BY <2>5, <2>6, <3>1 DEF Active, Stored
    <3>3. \/ FreeOfReservations(AsPlacement(res'[id]), res'[id].cab, id)
          \/ /\ Active(res[id])
             /\ AsPlacement(res'[id]) = AsPlacement(res[id])
             /\ res'[id].cab = res[id].cab
      BY <2>0, <2>4, <2>6, CommitRange
    <3>4. ~FreeOfReservations(AsPlacement(res'[id]), res'[id].cab, id)
      BY <2>6, <3>1, <3>2 DEF FreeOfReservations
    <3> QED BY <2>6, <3>1, <3>2, <3>3, <3>4 DEF HoldsOverlap
  <2>7. HoldsOverlap(r, q) => HoldsOverlap(q, r)
    BY ConflictSymmetric DEF HoldsOverlap
  <2>8. sess[s].id # q /\ sess[s].id # r
    BY <1>1, <2>1, <2>6, <2>7
  <2>9. res'[q] = res[q] /\ res'[r] = res[r]
    BY <2>5, <2>8
  <2> QED BY <1>1, <2>1, <2>5, <2>9 DEF HoldsOverlap, Active, Stored
<1>2. PlacementInv /\ [Next]_vars =>
        [\A q, r \in Reservations :
           q # r /\ ~HoldsOverlap(q, r) /\ HoldsOverlap(q, r)' => Revived(q) \/ Revived(r)]_vars
  BY <1>1
<1> QED BY <1>2, PlacementInit, PlacementNext, PTL DEF Spec, OverlapOnlyByRevival

\* With at most one request at a time, kit comes to stand in an active reservation only
\* by a request that names it, by a MOVE or a CSV row, or because the hold was revived.
THEOREM HoldsAreHonoured ==
  ASSUME Serial
  PROVE  Spec => HoldsHonoured
<1>1. ASSUME PlacementInv, Next, NEW a \in Assets, NEW r \in Reservations,
             ~Trespasses(a, r), Trespasses(a, r)', ~Revived(r)
      PROVE  \E s \in Sessions :
               /\ sess[s].op \in AssetOps /\ sess[s].id = a
               /\ sess[s].op \in {"move", "import"} \/ sess[s].override = r
  <2>0. TypeOK /\ Checked
    BY <1>1 DEF PlacementInv
  <2>1. /\ Active(res[r])' /\ Occupies(asset'[a], res'[r].cab)
        /\ Conflict(asset'[a], AsPlacement(res'[r]))
    <3>1. Conflict(asset'[a], AsPlacement(res'[r]))
      BY <1>1 DEF Trespasses, AsPlacement, Conflict, IntervalsIntersect, FacesClash, Top, Height
    <3> QED BY <1>1, <3>1 DEF Trespasses, Occupies, Stored
  <2>2. ~Tick
    <3>1. SUFFICES ASSUME Tick PROVE FALSE
      OBVIOUS
    <3>2. Active(res[r]) /\ res' = res /\ asset' = asset
      BY <2>0, <2>1, <3>1, TickExpires DEF Tick
    <3> QED BY <1>1, <2>1, <3>2 DEF Trespasses
  <2>3. ~UNCHANGED <<asset, res, now>>
    BY <1>1, <2>1 DEF Trespasses, Active, Stored
  <2>4. ~BackfillRackSide
    <3>1. SUFFICES ASSUME BackfillRackSide PROVE FALSE
      OBVIOUS
    <3>2. asset'[a] = asset[a] /\ res' = res /\ now' = now
      BY <2>0, <2>1, <3>1, BackfillStill DEF BackfillRackSide
    <3> QED BY <1>1, <2>1, <3>2 DEF Trespasses, Active, Stored
  <2>5. ASSUME NEW s \in Sessions, CommitReservation(s) PROVE FALSE
    <3>1. /\ asset' = asset /\ now' = now
          /\ \A d \in Reservations \ {sess[s].id} : res'[d] = res[d]
      BY <2>0, <2>5, CommitHold
    <3>2. sess[s].id = r
      BY <1>1, <2>1, <3>1 DEF Trespasses, Active, Stored
    <3>3. \/ FreeOfAssets(AsPlacement(res'[r]), res'[r].cab, Null)
          \/ /\ Active(res[r])
             /\ AsPlacement(res'[r]) = AsPlacement(res[r])
             /\ res'[r].cab = res[r].cab
      BY <1>1, <2>0, <2>1, <2>5, <3>2, CommitRange
    <3>4. ~FreeOfAssets(AsPlacement(res'[r]), res'[r].cab, Null)
      <4>1. Conflict(AsPlacement(res'[r]), asset[a]) /\ Occupies(asset[a], res'[r].cab)
        BY <2>1, <3>1, ConflictSymmetric
      <4> QED BY <4>1, RackAssumption DEF FreeOfAssets
    <3> QED BY <1>1, <2>1, <3>1, <3>3, <3>4 DEF Trespasses
  <2>6. PICK s \in Sessions : CommitAsset(s)
    BY <1>1, <2>2, <2>3, <2>4, <2>5, TableSteps
  <2>7. /\ sess[s].op \in AssetOps /\ UNCHANGED <<res, now>>
        /\ \A d \in Assets \ {sess[s].id} : asset'[d] = asset[d]
    BY <2>0, <2>6, CommitPlace
  <2>8. Active(res[r])
    BY <2>1, <2>7 DEF Active, Stored
  <2>9. sess[s].id = a
    BY <1>1, <2>1, <2>7, <2>8 DEF Trespasses
  <2>10. sess[s].op \in {"move", "import"} \/ sess[s].override = r
    BY <1>1, <2>0, <2>1, <2>6, <2>7, <2>8, <2>9, CommitApartFromHolds
  <2> QED BY <2>7, <2>9, <2>10
<1>2. PlacementInv /\ [Next]_vars =>
        [\A a \in Assets, r \in Reservations :
           ~Trespasses(a, r) /\ Trespasses(a, r)' =>
             \/ Revived(r)
             \/ \E s \in Sessions :
                  /\ sess[s].op \in AssetOps /\ sess[s].id = a
                  /\ sess[s].op \in {"move", "import"} \/ sess[s].override = r]_vars
  BY <1>1
<1> QED BY <1>2, PlacementInit, PlacementNext, PTL DEF Spec, HoldsHonoured
=============================================================================
