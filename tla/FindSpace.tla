----------------------------- MODULE FindSpace ------------------------------
(***************************************************************************)
(* The Place-or-Reserve search (dcim/capacity.service.ts findSpace) on the *)
(* racks of module Rack: which blocks it suggests, against what            *)
(* assertUSlotAvailable would then accept.  The two are separate code over *)
(* the same tables.                                                        *)
(***************************************************************************)
EXTENDS Rack, Capacity, FiniteSets

\* Mutant of PhysicallyOccupied: the accounting rule of computeSpace, in which
\* retired kit has already freed its units.
PhysicallyOccupiedByAccounting(cab) ==
  (UNION {Units(asset[a]) : a \in {b \in Assets : Occupies(asset[b], cab) /\ Live(asset[b])}})
  \cup (UNION {Units(res[r]) : r \in {q \in Reservations :
                 Active(res[q]) /\ res[q].cab = cab}})

\* The occupied set computePlaceableBlocks builds: retired-but-racked kit and
\* active reservations included.
PhysicallyOccupied(cab) ==
  (UNION {Units(asset[a]) : a \in {b \in Assets : Occupies(asset[b], cab)}})
  \cup (UNION {Units(res[r]) : r \in {q \in Reservations :
                 Active(res[q]) /\ res[q].cab = cab}})

\* computePlaceableBlocks
PlaceableBlocks(cab) == ScanBlocks(PhysicallyOccupied(cab), totalU[cab])

\* The units at which findSpace offers cabinet cab to a device of uSize units.
Suggested(cab, uSize) ==
  LET blocks == PlaceableBlocks(cab)
  IN  {n \in StartingUnit .. totalU[cab] : FitsInBlock(blocks, n, uSize)}

\* The search and the write path agree on full-depth kit: a position is offered
\* exactly when assertUSlotAvailable accepts it, whatever mix of live, retired,
\* half-depth and reserved units the rack holds and however it was resized.
SuggestionsMatchCheck ==
  \A cab \in Cabinets : totalU[cab] # Null =>
    \A uSize \in 1 .. totalU[cab] + 1 :
      Suggested(cab, uSize) =
        {n \in 0 .. totalU[cab] + 1 :
           USlotAvailable([u |-> n, h |-> uSize, side |-> "FRONT", depth |-> "full"],
                          cab, Null, Null)}
=============================================================================
