------------------------------- MODULE USlots -------------------------------
(***************************************************************************)
(* U-slot geometry: apps/api/src/cabinets/u-slot.util.ts.                  *)
(*                                                                         *)
(* A placement is any record with the fields                               *)
(*   u      lowest unit (uPosition)                                        *)
(*   h      height in units, Null when the column is null                  *)
(*   side   "FRONT", "REAR" or "unset" (a null rackSide)                   *)
(*   depth  "half" for isFullDepth = false, "full" for true and for null   *)
(* Asset rows and reservations both carry these fields, so the operators   *)
(* below take either.                                                      *)
(***************************************************************************)
EXTENDS Integers

CONSTANT Null                      \* the database null

ASSUME NullAssumption == Null \notin Int

Faces == {"FRONT", "REAR"}
Sides == Faces \cup {"unset"}
Depths == {"full", "half"}

Height(h) == IF h = Null \/ h < 1 THEN 1 ELSE h

Top(p) == p.u + Height(p.h) - 1

IntervalsIntersect(p, q) == p.u <= Top(q) /\ q.u <= Top(p)

\* Mutant of FacesClash: one half-depth unit is enough to make room behind it.
FacesClashEitherHalf(p, q) ==
  \/ p.depth # "half" /\ q.depth # "half"
  \/ p.side = "unset" \/ q.side = "unset"
  \/ p.side = q.side

FacesClash(p, q) ==
  \/ p.depth # "half" \/ q.depth # "half"
  \/ p.side = "unset" \/ q.side = "unset"
  \/ p.side = q.side

\* findUSlotConflicts, for one occupant.
Conflict(p, q) == IntervalsIntersect(p, q) /\ FacesClash(p, q)

\* uSlotOutOfBounds; no endpoint writes startingUnit, so it keeps its default.
StartingUnit == 1

OutOfBounds(p, totalU) ==
  \/ p.u < StartingUnit
  \/ totalU # Null /\ Top(p) > StartingUnit + totalU - 1

(***************************************************************************)
(* The reference the code is held against: the cells of the rack, a unit   *)
(* on a face, that the placed thing physically fills.                      *)
(***************************************************************************)
FacesOf(p) == IF p.depth = "half" /\ p.side # "unset" THEN {p.side} ELSE Faces

Cells(p) == (p.u .. Top(p)) \X FacesOf(p)

\* A thing that is somewhere: both asset rows and reservations qualify.
IsPlacement(p) ==
  /\ p.u \in Int /\ p.h \in Int \cup {Null}
  /\ p.side \in Sides /\ p.depth \in Depths
=============================================================================
