------------------------------ MODULE Capacity ------------------------------
(***************************************************************************)
(* Free-space arithmetic: apps/api/src/dcim/capacity.util.ts.              *)
(*                                                                         *)
(* computePlaceableBlocks scans the frame bottom-up with a `runStart`      *)
(* register and emits a block when a run of free units ends; the scan is a *)
(* fold over the units, its state [runStart, blocks].                      *)
(***************************************************************************)
EXTENDS USlots, Sequences, SequencesExt

NoRun == -1

\* The units an occupant fills, on either face.
Units(p) == p.u .. Top(p)

\* One iteration of the scan, for unit n of a frame whose top unit is topU.
ScanStep(free, topU, acc, n) ==
  LET isFree == n \in free
      start  == IF isFree /\ acc.runStart < 0 THEN n ELSE acc.runStart
      closes == (~isFree \/ n = topU) /\ start >= 0
      end    == IF isFree THEN n ELSE n - 1
  IN  IF closes
        THEN [runStart |-> NoRun,
              blocks   |-> Append(acc.blocks, [start |-> start, size |-> end - start + 1])]
        ELSE [acc EXCEPT !.runStart = start]

\* Mutant of ScanBlocks: a run that reaches the top unit is not emitted.
ScanBlocksDropsTop(occupied, totalU) ==
  LET topU == StartingUnit + totalU - 1
      free == (StartingUnit .. topU) \ occupied
  IN  FoldLeft(LAMBDA acc, n : ScanStep(free, topU + 1, acc, n),
               [runStart |-> NoRun, blocks |-> <<>>],
               [i \in 1 .. (topU - StartingUnit + 1) |-> StartingUnit + i - 1]).blocks

\* The loop of computeSpace and of computePlaceableBlocks, bottom to top.
ScanBlocks(occupied, totalU) ==
  LET topU == StartingUnit + totalU - 1
      free == (StartingUnit .. topU) \ occupied
  IN  FoldLeft(LAMBDA acc, n : ScanStep(free, topU, acc, n),
               [runStart |-> NoRun, blocks |-> <<>>],
               [i \in 1 .. (topU - StartingUnit + 1) |-> StartingUnit + i - 1]).blocks

\* A device of height h at unit n fits inside one of the blocks.
FitsInBlock(blocks, n, h) ==
  \E i \in DOMAIN blocks :
     blocks[i].start <= n /\ n + h <= blocks[i].start + blocks[i].size
=============================================================================
