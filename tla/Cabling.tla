------------------------------ MODULE Cabling ------------------------------
(***************************************************************************)
(* Ports, the pass-through pairs of patch panels, the cables between       *)
(* ports, and the cable trace.                                             *)
(*   ports.service.ts, connections.service.ts, schema.prisma (Port,        *)
(*   Connection)                                                           *)
(*                                                                         *)
(* A port's asset never changes, and an id is never given twice: a port    *)
(* that comes again comes on its own asset.  Pairing and unpairing read    *)
(* the ports and then write in one transaction, whose first statement      *)
(* locks every row it will write: the transaction is one step.  A cable's  *)
(* update reads the row, merges and checks, and writes.  The unique index  *)
(* on throughPortId and the foreign keys refuse what would break them;     *)
(* deleting a port empties the columns that point to it.                   *)
(* Left out: names, types and positions of ports, descriptors of cables,   *)
(* client scope, and the deletion of an asset, which takes its ports, pairs *)
(* and cables with it whole.                                               *)
(***************************************************************************)
EXTENDS Registers, Naturals, FiniteSets

CONSTANTS
  Assets,
  Ports,      \* ids of the ports there may be
  Cables,     \* ids of the connections there may be
  Home,       \* the asset each port is created on
  HopCap      \* TRACE_HOP_CAP

ASSUME CablingAssumption ==
  /\ HopCap \in Nat \ {0} /\ Home \in [Ports -> Assets]
  /\ {Null, Keep} \cap (Assets \cup Ports) = {} /\ Null # Keep

VARIABLES
  port,       \* ports; Null for one that does not exist
  cable,      \* connections; Null for one that does not exist
  wiring      \* the request each session serves

cablingVars == <<port, cable, wiring>>

PortRow == [assetId : Assets, throughPortId : Ports \cup {Null}]

CableRow ==
  [fromAssetId : Assets, toAssetId : Assets,
   fromPortId : Ports \cup {Null}, toPortId : Ports \cup {Null}]

ASSUME NullIsNoPort == Null \notin PortRow \cup CableRow

HasPort(p) == port[p] # Null
HasCable(c) == cable[c] # Null

WiringRequest ==
  [op : {"idle"}]
  \cup [op : {"pairing"}, a : Ports, b : Ports, peerOfA : Ports \cup {Null}]
  \cup [op : {"pair"}, a : Ports, b : Ports, peerOfA : Ports \cup {Null},
        peerOfB : Ports \cup {Null}]
  \cup [op : {"clear"}, a : Ports, peerOfA : Ports \cup {Null}]
  \cup [op : {"cable"}, c : Cables, row : CableRow]

Wire(s, request) ==
  /\ wiring[s] = Idle
  /\ wiring' = [wiring EXCEPT ![s] = request]

Unwire(s) == wiring' = [wiring EXCEPT ![s] = Idle]

----------------------------------------------------------------------------
(* Ports and pairs.                                                        *)

CreatePort(p) ==
  /\ ~HasPort(p)
  /\ port' = [port EXCEPT ![p] = [assetId |-> Home[p], throughPortId |-> Null]]
  /\ UNCHANGED <<cable, wiring>>

Emptied(column, p) == IF column = p THEN Null ELSE column

\* The peer and the cables lose the port.
RemovePort(p) ==
  /\ HasPort(p)
  /\ port' = [q \in Ports |->
       IF q = p \/ ~HasPort(q) THEN Null
       ELSE [port[q] EXCEPT !.throughPortId = Emptied(@, p)]]
  /\ cable' = [c \in Cables |->
       IF ~HasCable(c) THEN Null
       ELSE [cable[c] EXCEPT !.fromPortId = Emptied(@, p), !.toPortId = Emptied(@, p)]]
  /\ UNCHANGED wiring

\* The peers to release, unless the two are each other's.
OldPeers(r) == {r.peerOfA, r.peerOfB} \ {Null, r.a, r.b}

\* The two ports are read by two statements at once, in either order; a is the one
\* read first, whichever the request names first.
ReadPair(s, a, b) ==
  /\ a # b /\ HasPort(a)
  /\ Wire(s, [op |-> "pairing", a |-> a, b |-> b, peerOfA |-> port[a].throughPortId])
  /\ UNCHANGED <<port, cable>>

ReadPeer(s) ==
  LET r == wiring[s] IN
  /\ r.op = "pairing"
  /\ HasPort(r.b) /\ port[r.b].assetId = Home[r.a]
  /\ wiring' = [wiring EXCEPT ![s] =
       [op |-> "pair", a |-> r.a, b |-> r.b,
        peerOfA |-> r.peerOfA, peerOfB |-> port[r.b].throughPortId]]
  /\ UNCHANGED <<port, cable>>

Through(p) == IF HasPort(p) THEN port[p].throughPortId ELSE Null

\* The row of p when those in freed are unpaired and a and b paired.
Paired(p, a, b, freed) ==
  [port[p] EXCEPT !.throughPortId =
     CASE p = a -> b
       [] p = b -> a
       [] p \in freed -> Null
       [] OTHER -> @]

\* Refused when a port is gone, or when one that is not released still points to
\* either port.
CommitPair(s) ==
  LET r == wiring[s] IN
  /\ r.op = "pair"
  /\ HasPort(r.a) /\ HasPort(r.b)
  /\ \A p \in Ports \ ({r.a, r.b} \cup OldPeers(r)) : Through(p) \notin {r.a, r.b}
  /\ port' = [p \in Ports |-> IF HasPort(p) THEN Paired(p, r.a, r.b, OldPeers(r)) ELSE Null]
  /\ Unwire(s)
  /\ UNCHANGED cable

ReadClear(s, p) ==
  /\ HasPort(p)
  /\ Wire(s, [op |-> "clear", a |-> p, peerOfA |-> port[p].throughPortId])
  /\ UNCHANGED <<port, cable>>

\* Mutant of Cleared: the peer keeps pointing to the port.
ClearedAlone(r) == {r.a}

Cleared(r) == {r.a, r.peerOfA}

CommitClear(s) ==
  LET r == wiring[s] IN
  /\ r.op = "clear"
  /\ port' = [p \in Ports |->
       IF HasPort(p) /\ p \in Cleared(r)
       THEN [port[p] EXCEPT !.throughPortId = Null] ELSE port[p]]
  /\ Unwire(s)
  /\ UNCHANGED cable

----------------------------------------------------------------------------
(* Cables.                                                                 *)

\* ensurePortOnAsset
OnAsset(p, a) == p # Null => (HasPort(p) /\ port[p].assetId = a)

CreateCable(c, row) ==
  /\ ~HasCable(c)
  /\ row.fromAssetId # row.toAssetId
  /\ OnAsset(row.fromPortId, row.fromAssetId) /\ OnAsset(row.toPortId, row.toAssetId)
  /\ cable' = [cable EXCEPT ![c] = row]
  /\ UNCHANGED <<port, wiring>>

Given(value, present) == IF value = Keep THEN present ELSE value

\* What an update asks of a cable; Keep for what it leaves alone.
Patch ==
  [fromAssetId : Assets \cup {Keep}, toAssetId : Assets \cup {Keep},
   fromPortId : Ports \cup {Null, Keep}, toPortId : Ports \cup {Null, Keep}]

Merged(row, patch) ==
  [column \in DOMAIN row |-> Given(patch[column], row[column])]

\* Mutant of Fits: only the ports the update names are checked.
FitsWhereGiven(row, patch) ==
  /\ row.fromAssetId # row.toAssetId
  /\ patch.fromPortId # Keep => OnAsset(row.fromPortId, row.fromAssetId)
  /\ patch.toPortId # Keep => OnAsset(row.toPortId, row.toAssetId)

\* The merged row is checked, not the update.
Fits(row, patch) ==
  /\ row.fromAssetId # row.toAssetId
  /\ OnAsset(row.fromPortId, row.fromAssetId) /\ OnAsset(row.toPortId, row.toAssetId)

ReadCable(s, c, patch) ==
  LET row == Merged(cable[c], patch) IN
  /\ HasCable(c)
  /\ Fits(row, patch)
  /\ Wire(s, [op |-> "cable", c |-> c, row |-> row])
  /\ UNCHANGED <<port, cable>>

\* The whole merged row is written; a port deleted meanwhile breaks its key.
WriteCable(s) ==
  LET r == wiring[s] IN
  /\ r.op = "cable"
  /\ HasCable(r.c)
  /\ \A p \in {r.row.fromPortId, r.row.toPortId} \ {Null} : HasPort(p)
  /\ cable' = [cable EXCEPT ![r.c] = r.row]
  /\ Unwire(s)
  /\ UNCHANGED port

RemoveCable(c) ==
  /\ HasCable(c)
  /\ cable' = [cable EXCEPT ![c] = Null]
  /\ UNCHANGED <<port, wiring>>

\* A request is refused, its transaction rolls back, or its process dies.
FailWiring(s) ==
  /\ wiring[s] # Idle
  /\ Unwire(s)
  /\ UNCHANGED <<port, cable>>

----------------------------------------------------------------------------
(* The trace.                                                              *)

From(p) == {c \in Cables : HasCable(c) /\ cable[c].fromPortId = p}
To(p) == {c \in Cables : HasCable(c) /\ cable[c].toPortId = p}

\* Mutant of CableHop: a cable is followed from its first end only.
CableHopForward(p) ==
  IF From(p) # {} THEN <<cable[CHOOSE c \in From(p) : TRUE].toPortId>> ELSE <<>>

\* The far end of the port's cable, Null when it is an asset; <<>> for no cable.
CableHop(p) ==
  IF From(p) # {} THEN <<cable[CHOOSE c \in From(p) : TRUE].toPortId>>
  ELSE IF To(p) # {} THEN <<cable[CHOOSE c \in To(p) : TRUE].fromPortId>>
  ELSE <<>>

ThroughHop(p) == IF Through(p) = Null THEN <<>> ELSE <<Through(p)>>

Other(step) == IF step = "cable" THEN "through" ELSE "cable"

\* One hop of a walk: the walk ends at a dead end, at an asset, at a port it or
\* the walk before it has visited, or at the cap.
Hop(w) ==
  LET hop == IF w.step = "cable" THEN CableHop(w.at) ELSE ThroughHop(w.at) IN
  IF w.ended \/ hop = <<>> \/ (hop # <<>> /\ hop[1] \in w.visited \cup {Null})
  THEN [w EXCEPT !.ended = TRUE]
  ELSE [at |-> hop[1], step |-> Other(w.step), visited |-> w.visited \cup {hop[1]},
        hops |-> w.hops + 1, ended |-> w.hops + 1 >= HopCap,
        truncated |-> w.hops + 1 >= HopCap]

Walk(p, first, visited) ==
  LET walk[n \in 0..HopCap] ==
        IF n = 0 THEN [at |-> p, step |-> first, visited |-> visited,
                       hops |-> 0, ended |-> FALSE, truncated |-> FALSE]
        ELSE Hop(walk[n - 1])
  IN  walk[HopCap]

\* Both ways out of a port: along its cable, then through its pair.
Trace(p) ==
  LET right == Walk(p, "cable", {p})
      left == Walk(p, "through", right.visited)
  IN  [ports |-> left.visited, truncated |-> left.truncated \/ right.truncated]

----------------------------------------------------------------------------

CablingStep ==
  \/ \E p \in Ports : CreatePort(p) \/ RemovePort(p)
  \/ \E c \in Cables : RemoveCable(c) \/ \E row \in CableRow : CreateCable(c, row)
  \/ \E s \in Sessions, a \in Ports :
       ReadClear(s, a) \/ \E b \in Ports : ReadPair(s, a, b)
  \/ \E s \in Sessions, c \in Cables, patch \in Patch : ReadCable(s, c, patch)
  \/ \E s \in Sessions :
       ReadPeer(s) \/ CommitPair(s) \/ CommitClear(s) \/ WriteCable(s) \/ FailWiring(s)

CablingInit ==
  /\ port = [p \in Ports |-> Null]
  /\ cable = [c \in Cables |-> Null]
  /\ wiring = [s \in Sessions |-> Idle]

CablingTypeOK ==
  /\ port \in [Ports -> PortRow \cup {Null}]
  /\ cable \in [Cables -> CableRow \cup {Null}]
  /\ wiring \in [Sessions -> WiringRequest]

----------------------------------------------------------------------------
(* Properties.                                                             *)

Mutual == \A p \in Ports : Through(p) # Null => Through(Through(p)) = p

StalePairing ==
  \E s \in Sessions :
    /\ wiring'[s] = Idle
    /\ \/ wiring[s].op \in {"pair", "clear"} /\ wiring[s].peerOfA # Through(wiring[s].a)
       \/ wiring[s].op = "pair" /\ wiring[s].peerOfB # Through(wiring[s].b)

\* Pass-through is symmetric and one to one (schema.prisma, Port): pairing over
\* older pairs, unpairing and deleting leave no port pointing to one that does not
\* point back, unless the pair changed between a request's read and its write.
PairsStayMutual == [][Mutual /\ ~StalePairing => Mutual']_cablingVars

\* A cable ends at two different assets, and at ports of those: updates that
\* overlap, each naming one column of an end, and deletions of ports never leave
\* a cable on the port of another asset.
EndsMatch ==
  \A c \in Cables : HasCable(c) =>
    /\ cable[c].fromAssetId # cable[c].toAssetId
    /\ OnAsset(cable[c].fromPortId, cable[c].fromAssetId)
    /\ OnAsset(cable[c].toPortId, cable[c].toAssetId)

OneCableEach == \A p \in Ports : Cardinality(From(p) \cup To(p)) <= 1

\* The path is one, wherever it is traced from (ports.service.ts, trace): while
\* pairs are mutual and no port has two cables, a port on the trace of another has
\* that one on its own, when the cap cuts off neither.
TracesAgree ==
  Mutual /\ OneCableEach =>
    LET trace == [p \in {q \in Ports : HasPort(q)} |-> Trace(p)] IN
    \A p, q \in DOMAIN trace :
      /\ q \in trace[p].ports
      /\ ~trace[p].truncated /\ ~trace[q].truncated
      => p \in trace[q].ports
=============================================================================
