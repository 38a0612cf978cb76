------------------------------- MODULE MCRack -------------------------------
(* Small instances of Rack and FindSpace for TLC. *)
EXTENDS FindSpace, TLC

CONSTANTS a1, a2, r1, r2, c1

\* The two faces of the bottom unit, and a MOVE to the front of the unit above it:
\* half-depth devices of two units stand back to back in the same units or with one
\* unit in common, and anything full depth clashes there.
MCRear == {[cab |-> c1, u |-> 1, side |-> "REAR"]}
MCSpots == MCRear \cup {[cab |-> c1, u |-> 1, side |-> "FRONT"]}
MCTargets == {[cab |-> c1, u |-> 2, side |-> "FRONT"]}

\* A full-depth device without a height, and a half-depth one of two units.
MCShapes == {[h |-> Null, depth |-> "full", zeroU |-> FALSE],
             [h |-> 2, depth |-> "half", zeroU |-> FALSE]}

\* With a side-mounted (zero-U) device.
MCShapesWithZeroU == MCShapes \cup {[h |-> Null, depth |-> "full", zeroU |-> TRUE]}
MCStates == {"ACTIVE"}

\* A hold on unit 2, and one grown downwards over both units of the smaller frame.
MCRanges == {[cab |-> c1, u |-> 2, h |-> 1, side |-> "unset"],
             [cab |-> c1, u |-> 1, h |-> 2, side |-> "unset"]}
MCTerms == {1, Null}

AssetSymmetry == Permutations(Assets)
ReservationSymmetry == Permutations(Reservations)
=============================================================================
