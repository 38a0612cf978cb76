-------------------------- MODULE BackOfficeProofs --------------------------
(***************************************************************************)
(* BackOffice: types, the versions and the content of quotes, pairs and    *)
(* cables, the trace, and the last maintenance, for any number of rows and *)
(* sessions.                                                               *)
(***************************************************************************)
EXTENDS BackOffice, FiniteSetTheorems, WellFoundedInduction, TLAPS

----------------------------------------------------------------------------
(* The maintenance log.                                                    *)

LogInv == LogTypeOK /\ LastIsLatest

LEMMA LogTypes ==
  ASSUME LogTypeOK, LogStep PROVE LogTypeOK'
<1> USE DEF LogTypeOK
<1>1. PICK s \in Sessions :
        \/ \E l \in Logs, a \in Machines, at \in Dates : CreateLog(s, l, a, at)
        \/ \E l \in Logs, a \in Machines \cup {Keep}, at \in Dates \cup {Keep} :
             ReadUpdate(s, l, a, at)
        \/ \E l \in Logs : ReadRemove(s, l)
        \/ WriteUpdate(s) \/ DeleteLog(s) \/ ReadLatest(s) \/ StoreLatest(s) \/ FailLog(s)
  BY DEF LogStep
<1>2. logging[s] \in LogRequest
  OBVIOUS
<1>3. ASSUME NEW l \in Logs, NEW a \in Machines, NEW at \in Dates, CreateLog(s, l, a, at)
      PROVE LogTypeOK'
  BY <1>3 DEF CreateLog, LogRow, TakeLog, Refresh, LogRequest
<1>4. ASSUME NEW l \in Logs, NEW a \in Machines \cup {Keep}, NEW at \in Dates \cup {Keep},
             ReadUpdate(s, l, a, at)
      PROVE LogTypeOK'
  <2>1. log[l] \in LogRow
    BY <1>4 DEF ReadUpdate, HasLog
  <2>2. [assetId |-> Chosen(a, log[l].assetId), performedAt |-> Chosen(at, log[l].performedAt)]
          \in LogRow
    BY <2>1 DEF LogRow, Chosen
  <2> QED BY <1>4, <2>1, <2>2 DEF ReadUpdate, TakeLog, LogRow, LogRequest
<1>5. ASSUME NEW l \in Logs, ReadRemove(s, l) PROVE LogTypeOK'
  BY <1>5 DEF ReadRemove, HasLog, LogRow, TakeLog, LogRequest
<1>6. CASE WriteUpdate(s)
  <2>1. /\ logging[s].l \in Logs /\ logging[s].was \in Machines
        /\ logging[s].row \in LogRow /\ log[logging[s].l] \in LogRow
    BY <1>2, <1>6 DEF WriteUpdate, LogRequest, HasLog
  <2>2. RefreshAfter(logging[s].was, logging[s].row.assetId) \in LogRequest
    BY <2>1 DEF RefreshAfter, Refresh, LogRequest, LogRow
  <2> QED BY <1>6, <2>1, <2>2 DEF WriteUpdate, TakeLog, Unnoticed, LogRow
<1>7. CASE DeleteLog(s)
  <2>1. /\ logging[s].l \in Logs /\ logging[s].was \in Machines
        /\ log[logging[s].l] \in LogRow
    BY <1>2, <1>7 DEF DeleteLog, LogRequest, HasLog
  <2>2. Refresh(logging[s].was, Null) \in LogRequest
    BY <2>1 DEF Refresh, LogRequest
  <2> QED BY <1>7, <2>1, <2>2 DEF DeleteLog, TakeLog, Unnoticed, LogRow
<1>8. CASE ReadLatest(s)
  BY <1>2, <1>8 DEF ReadLatest, TakeLog, LogRequest
<1>9. CASE StoreLatest(s)
  <2>1. /\ logging[s].now \in Machines /\ logging[s].next \in Machines \cup {Null}
        /\ logging[s].latest \in Dates \cup {Null}
    BY <1>2, <1>9 DEF StoreLatest, LogRequest
  <2>2. (IF logging[s].next = Null THEN Idle ELSE Refresh(logging[s].next, Null)) \in LogRequest
    BY <2>1 DEF Refresh, Idle, LogRequest
  <2> QED BY <1>9, <2>1, <2>2 DEF StoreLatest, TakeLog
<1>10. CASE FailLog(s)
  BY <1>2, <1>10 DEF FailLog, TakeLog, Pending, LogRequest, Idle
<1> QED BY <1>1, <1>3, <1>4, <1>5, <1>6, <1>7, <1>8, <1>9, <1>10

\* What a step leaves latest: the assets it neither touches nor leaves pending.
Shown(a) == a \notin astray /\ \A s \in Sessions : a \notin Pending(s)

LEMMA OtherEntries ==
  ASSUME NEW a, \A l \in Logs : \/ log'[l] = log[l]
                                \/ /\ HasLog(l) => log[l].assetId # a
                                   /\ HasLog(l)' => log'[l].assetId # a
  PROVE Entries(a)' = Entries(a)
BY DEF Entries, HasLog

LEMMA LatestKept ==
  ASSUME LogInv, LogStep PROVE LastIsLatest'
<1> USE DEF LogInv
<1> SUFFICES ASSUME NEW a \in Machines, a \notin astray',
                    \A t \in Sessions : a \notin Pending(t)'
             PROVE IsLatest(last'[a], Entries(a)')
  BY DEF LastIsLatest
<1>1. PICK s \in Sessions :
        \/ \E l \in Logs, b \in Machines, at \in Dates : CreateLog(s, l, b, at)
        \/ \E l \in Logs, b \in Machines \cup {Keep}, at \in Dates \cup {Keep} :
             ReadUpdate(s, l, b, at)
        \/ \E l \in Logs : ReadRemove(s, l)
        \/ WriteUpdate(s) \/ DeleteLog(s) \/ ReadLatest(s) \/ StoreLatest(s) \/ FailLog(s)
  BY DEF LogStep
<1>2. logging[s] \in LogRequest /\ logging \in [Sessions -> LogRequest] /\ a # Null
  BY MaintenanceAssumption DEF LogTypeOK
<1>3. ASSUME a \notin astray, a \notin Pending(s), last'[a] = last[a],
             \A t \in Sessions \ {s} : logging'[t] = logging[t],
             \A l \in Logs : \/ log'[l] = log[l]
                             \/ /\ HasLog(l) => log[l].assetId # a
                                /\ HasLog(l)' => log'[l].assetId # a
      PROVE IsLatest(last'[a], Entries(a)')
  <2>1. \A t \in Sessions : a \notin Pending(t)
    BY <1>3 DEF Pending
  <2>2. IsLatest(last[a], Entries(a))
    BY <2>1, <1>3 DEF LastIsLatest
  <2>3. Entries(a)' = Entries(a)
    BY <1>3, OtherEntries
  <2> QED BY <1>3, <2>2, <2>3
<1>4. ASSUME NEW l \in Logs, NEW b \in Machines, NEW at \in Dates, CreateLog(s, l, b, at)
      PROVE IsLatest(last'[a], Entries(a)')
  <2>1. b \in Pending(s)'
    BY <1>2, <1>4, MaintenanceAssumption DEF CreateLog, TakeLog, Refresh, Pending
  <2>2. a # b
    BY <2>1
  <2>3. \A k \in Logs : k # l => log'[k] = log[k]
    BY <1>4 DEF CreateLog, LogTypeOK
  <2>4. ~HasLog(l) /\ log'[l].assetId = b
    BY <1>4 DEF CreateLog, LogTypeOK
  <2> QED BY <1>2, <1>3, <1>4, <2>2, <2>3, <2>4 DEF CreateLog, TakeLog, Pending, Idle
<1>5. ASSUME NEW l \in Logs, NEW b \in Machines \cup {Keep}, NEW at \in Dates \cup {Keep},
             ReadUpdate(s, l, b, at)
      PROVE IsLatest(last'[a], Entries(a)')
  BY <1>2, <1>3, <1>5 DEF ReadUpdate, TakeLog, Pending, Idle
<1>6. ASSUME NEW l \in Logs, ReadRemove(s, l) PROVE IsLatest(last'[a], Entries(a)')
  BY <1>2, <1>3, <1>6 DEF ReadRemove, TakeLog, Pending, Idle
<1>7. CASE WriteUpdate(s)
  <2> DEFINE r == logging[s]
  <2>1. /\ r.l \in Logs /\ r.was \in Machines /\ r.row \in LogRow /\ log[r.l] \in LogRow
    BY <1>2, <1>7 DEF WriteUpdate, LogRequest, LogTypeOK, HasLog
  <2>2. Pending(s)' = {r.was, r.row.assetId}
    BY <1>2, <1>7, <2>1, MaintenanceAssumption
    DEF WriteUpdate, TakeLog, RefreshAfter, Refresh, Pending, LogRow
  <2>3. a # r.was /\ a # r.row.assetId /\ a # log[r.l].assetId
    BY <1>7, <2>2 DEF WriteUpdate, Unnoticed
  <2>4. log' = [log EXCEPT ![r.l] = r.row]
    BY <1>7 DEF WriteUpdate
  <2>5. \A k \in Logs : k # r.l => log'[k] = log[k]
    BY <2>1, <2>4 DEF LogTypeOK
  <2>6. log'[r.l] = r.row
    BY <2>1, <2>4 DEF LogTypeOK
  <2> QED BY <1>2, <1>3, <1>7, <2>3, <2>5, <2>6 DEF WriteUpdate, TakeLog, Pending
<1>8. CASE DeleteLog(s)
  <2> DEFINE r == logging[s]
  <2>1. r.l \in Logs /\ r.was \in Machines
    BY <1>2, <1>8 DEF DeleteLog, LogRequest
  <2>2. r.was \in Pending(s)'
    BY <1>2, <1>8, <2>1, MaintenanceAssumption DEF DeleteLog, TakeLog, Refresh, Pending
  <2>3. a # log[r.l].assetId
    BY <1>8, <2>2 DEF DeleteLog, Unnoticed
  <2>4. \A k \in Logs : k # r.l => log'[k] = log[k]
    BY <1>8 DEF DeleteLog, LogTypeOK
  <2>5. log'[r.l] = Null
    BY <1>8, <2>1 DEF DeleteLog, LogTypeOK
  <2>6. \A l \in Logs : \/ log'[l] = log[l]
                       \/ /\ HasLog(l) => log[l].assetId # a
                          /\ HasLog(l)' => log'[l].assetId # a
    BY <2>3, <2>4, <2>5 DEF HasLog
  <2> QED BY <1>2, <1>3, <1>8, <2>6 DEF DeleteLog, TakeLog, Pending
<1>9. CASE ReadLatest(s)
  <2>1. Pending(s)' = Pending(s)
    BY <1>2, <1>9 DEF ReadLatest, TakeLog, Pending
  <2> QED BY <1>2, <1>3, <1>9, <2>1 DEF ReadLatest, TakeLog
<1>10. CASE StoreLatest(s)
  <2> DEFINE r == logging[s]
  <2>1. /\ r.now \in Machines /\ r.next \in Machines \cup {Null}
        /\ Pending(s) = {r.now, r.next} \ {Null}
        /\ log' = log /\ last' = [last EXCEPT ![r.now] = r.latest]
    BY <1>2, <1>10 DEF StoreLatest, LogRequest, Pending
  <2>2. a # r.next
    <3>1. r.next # Null => Pending(s)' = {r.next}
      BY <1>2, <1>10, <2>1 DEF StoreLatest, TakeLog, Refresh, Pending
    <3> QED BY <2>1, <3>1, <1>2
  <2>3. CASE a = r.now
    <3>1. IsLatest(r.latest, Entries(a)) /\ last'[a] = r.latest
      BY <1>10, <2>1, <2>3 DEF StoreLatest, LogTypeOK
    <3>2. Entries(a)' = Entries(a)
      BY <2>1, OtherEntries
    <3> QED BY <3>1, <3>2
  <2>4. CASE a # r.now
    <3>1. last'[a] = last[a] /\ a \notin Pending(s) /\ a \notin astray
      BY <1>10, <2>1, <2>2, <2>4 DEF StoreLatest, LogTypeOK
    <3>2. \A t \in Sessions \ {s} : logging'[t] = logging[t]
      BY <1>2, <1>10 DEF StoreLatest, TakeLog
    <3> QED BY <1>3, <2>1, <3>1, <3>2
  <2> QED BY <2>3, <2>4
<1>11. CASE FailLog(s)
  BY <1>2, <1>3, <1>11 DEF FailLog, TakeLog
<1> QED BY <1>1, <1>4, <1>5, <1>6, <1>7, <1>8, <1>9, <1>10, <1>11

----------------------------------------------------------------------------
(* Ports and cables.                                                       *)

\* The ends of a row are on the assets the ports are created on.
AtHome(row) ==
  /\ row.fromAssetId # row.toAssetId
  /\ row.fromPortId # Null => Home[row.fromPortId] = row.fromAssetId
  /\ row.toPortId # Null => Home[row.toPortId] = row.toAssetId

CablingInv ==
  /\ CablingTypeOK
  /\ \A p \in Ports : HasPort(p) => port[p].assetId = Home[p]
  /\ \A s \in Sessions : wiring[s].op = "cable" => AtHome(wiring[s].row)
  /\ EndsMatch

LEMMA OnAssetIsHome ==
  ASSUME CablingInv, NEW row \in CableRow
  PROVE (row.fromAssetId # row.toAssetId /\ OnAsset(row.fromPortId, row.fromAssetId)
          /\ OnAsset(row.toPortId, row.toAssetId))
        <=> (AtHome(row) /\ \A p \in {row.fromPortId, row.toPortId} \ {Null} : HasPort(p))
BY DEF CablingInv, OnAsset, AtHome, CableRow

\* The three parts of a step's proof that depend on what it changes.
LEMMA WiringEnds ==
  ASSUME CablingInv, NEW s \in Sessions, wiring' = [wiring EXCEPT ![s] = Idle]
  PROVE /\ wiring' \in [Sessions -> WiringRequest]
        /\ \A t \in Sessions : wiring'[t].op = "cable" => AtHome(wiring'[t].row)
BY DEF CablingInv, CablingTypeOK, WiringRequest, Idle

LEMMA WiringTakes ==
  ASSUME CablingInv, NEW s \in Sessions, NEW r \in WiringRequest, Wire(s, r),
         r.op = "cable" => AtHome(r.row)
  PROVE /\ wiring' \in [Sessions -> WiringRequest]
        /\ \A t \in Sessions : wiring'[t].op = "cable" => AtHome(wiring'[t].row)
BY DEF CablingInv, CablingTypeOK, Wire

\* Cables keep their ends while they and the ports that exist stay.
LEMMA EndsStay ==
  ASSUME CablingInv, UNCHANGED cable,
         \A p \in Ports : HasPort(p) => HasPort(p)' /\ port'[p].assetId = port[p].assetId
  PROVE EndsMatch'
<1> SUFFICES ASSUME NEW c \in Cables, HasCable(c)'
             PROVE /\ cable'[c].fromAssetId # cable'[c].toAssetId
                   /\ OnAsset(cable[c].fromPortId, cable[c].fromAssetId)'
                   /\ OnAsset(cable[c].toPortId, cable[c].toAssetId)'
  BY DEF EndsMatch
<1>1. /\ cable[c] \in CableRow
      /\ cable[c].fromAssetId # cable[c].toAssetId
      /\ OnAsset(cable[c].fromPortId, cable[c].fromAssetId)
      /\ OnAsset(cable[c].toPortId, cable[c].toAssetId)
  BY DEF CablingInv, CablingTypeOK, EndsMatch, HasCable
<1>2. cable[c].fromPortId \in Ports \cup {Null} /\ cable[c].toPortId \in Ports \cup {Null}
  BY <1>1 DEF CableRow
<1> QED BY <1>1, <1>2 DEF OnAsset

LEMMA PortsStep ==
  ASSUME CablingInv, NEW p \in Ports, CreatePort(p) \/ RemovePort(p)
  PROVE CablingInv'
<1>1. UNCHANGED wiring
  BY DEF CreatePort, RemovePort
<1>2. CASE CreatePort(p)
  <2>1. port' \in [Ports -> PortRow \cup {Null}]
        /\ \A q \in Ports : HasPort(q)' => port'[q].assetId = Home[q]
    BY <1>2, CablingAssumption DEF CreatePort, CablingInv, CablingTypeOK, PortRow, HasPort
  <2>2. \A q \in Ports : HasPort(q) => HasPort(q)' /\ port'[q].assetId = port[q].assetId
    BY <1>2 DEF CreatePort, CablingInv, CablingTypeOK, HasPort
  <2>3. EndsMatch' /\ UNCHANGED cable
    BY <1>2, <2>2, EndsStay DEF CreatePort
  <2> QED BY <1>1, <2>1, <2>3 DEF CablingInv, CablingTypeOK
<1>3. CASE RemovePort(p)
  <2>1. port' \in [Ports -> PortRow \cup {Null}]
        /\ \A q \in Ports : HasPort(q)' => port'[q].assetId = Home[q]
    <3> SUFFICES ASSUME NEW q \in Ports
                 PROVE port'[q] \in PortRow \cup {Null}
                       /\ (port'[q] # Null => port'[q].assetId = Home[q])
      BY <1>3 DEF RemovePort, HasPort
    <3>1. CASE q = p \/ ~HasPort(q)
      BY <1>3, <3>1 DEF RemovePort
    <3>2. CASE q # p /\ HasPort(q)
      <4>1. port[q] \in PortRow /\ port[q].assetId = Home[q]
        BY <3>2 DEF CablingInv, CablingTypeOK, HasPort
      <4>2. port'[q] = [port[q] EXCEPT !.throughPortId = Emptied(@, p)]
        BY <1>3, <3>2 DEF RemovePort
      <4> QED BY <4>1, <4>2 DEF PortRow, Emptied
    <3> QED BY <3>1, <3>2
  <2>2. ASSUME NEW c \in Cables
        PROVE /\ cable'[c] \in CableRow \cup {Null}
              /\ HasCable(c)' =>
                   /\ cable'[c].fromAssetId # cable'[c].toAssetId
                   /\ OnAsset(cable[c].fromPortId, cable[c].fromAssetId)'
                   /\ OnAsset(cable[c].toPortId, cable[c].toAssetId)'
    <3>1. CASE ~HasCable(c)
      BY <1>3, <3>1 DEF RemovePort, HasCable
    <3>2. CASE HasCable(c)
      <4>1. /\ cable[c] \in CableRow
            /\ cable[c].fromAssetId # cable[c].toAssetId
            /\ OnAsset(cable[c].fromPortId, cable[c].fromAssetId)
            /\ OnAsset(cable[c].toPortId, cable[c].toAssetId)
        BY <3>2 DEF CablingInv, CablingTypeOK, EndsMatch, HasCable
      <4>2. cable'[c] = [cable[c] EXCEPT !.fromPortId = Emptied(@, p), !.toPortId = Emptied(@, p)]
        BY <1>3, <3>2 DEF RemovePort
      <4>3. /\ cable'[c] \in CableRow
            /\ cable'[c].fromAssetId = cable[c].fromAssetId
            /\ cable'[c].toAssetId = cable[c].toAssetId
            /\ cable'[c].fromPortId = Emptied(cable[c].fromPortId, p)
            /\ cable'[c].toPortId = Emptied(cable[c].toPortId, p)
        BY <4>1, <4>2 DEF CableRow, Emptied
      <4>4. \A q \in Ports : HasPort(q) /\ q # p =>
              HasPort(q)' /\ port'[q].assetId = port[q].assetId
        <5> SUFFICES ASSUME NEW q \in Ports, HasPort(q), q # p
                     PROVE port'[q] # Null /\ port'[q].assetId = port[q].assetId
          BY DEF HasPort
        <5>1. port[q] \in PortRow
          BY DEF CablingInv, CablingTypeOK, HasPort
        <5>2. port'[q] = [port[q] EXCEPT !.throughPortId = Emptied(@, p)]
          BY <1>3 DEF RemovePort
        <5>3. port'[q] \in PortRow
          BY <5>1, <5>2 DEF PortRow, Emptied
        <5>4. port'[q].assetId = port[q].assetId
          BY <5>1, <5>2 DEF PortRow
        <5>5. port'[q] # Null
          BY <5>3, NullIsNoPort
        <5> QED BY <5>4, <5>5
      <4>5. cable[c].fromPortId \in Ports \cup {Null} /\ cable[c].toPortId \in Ports \cup {Null}
        BY <4>1 DEF CableRow
      <4>6. OnAsset(cable[c].fromPortId, cable[c].fromAssetId)'
        BY <4>1, <4>3, <4>4, <4>5 DEF OnAsset, Emptied
      <4>7. OnAsset(cable[c].toPortId, cable[c].toAssetId)'
        BY <4>1, <4>3, <4>4, <4>5 DEF OnAsset, Emptied
      <4> QED BY <4>1, <4>3, <4>6, <4>7
    <3> QED BY <3>1, <3>2
  <2>3. cable' \in [Cables -> CableRow \cup {Null}] /\ EndsMatch'
    BY <1>3, <2>2 DEF RemovePort, EndsMatch
  <2> QED BY <1>1, <2>1, <2>3 DEF CablingInv, CablingTypeOK
<1> QED BY <1>2, <1>3

\* A step that writes pass-throughs alone.
LEMMA PairsStep ==
  ASSUME CablingInv, NEW s \in Sessions, CommitPair(s) \/ CommitClear(s)
  PROVE CablingInv'
<1>1. \A p \in Ports : /\ port'[p] \in PortRow \cup {Null}
                       /\ HasPort(p) <=> HasPort(p)'
                       /\ HasPort(p) => port'[p].assetId = port[p].assetId
  <2> SUFFICES ASSUME NEW p \in Ports
               PROVE /\ port'[p] \in PortRow \cup {Null}
                     /\ port[p] # Null <=> port'[p] # Null
                     /\ port[p] # Null => port'[p].assetId = port[p].assetId
    BY DEF HasPort
  <2>1. port[p] \in PortRow \cup {Null}
    BY DEF CablingInv, CablingTypeOK
  <2>2. CASE CommitPair(s)
    <3>1. wiring[s].a \in Ports /\ wiring[s].b \in Ports
      BY <2>2 DEF CommitPair, CablingInv, CablingTypeOK, WiringRequest
    <3>2. CASE port[p] # Null
      <4>1. port'[p] = Paired(p, wiring[s].a, wiring[s].b, OldPeers(wiring[s]))
        BY <2>2, <3>2 DEF CommitPair, HasPort
      <4>2. port'[p] \in PortRow /\ port'[p].assetId = port[p].assetId
        BY <2>1, <3>1, <3>2, <4>1 DEF Paired, PortRow
      <4> QED BY <3>2, <4>2, NullIsNoPort
    <3>3. CASE port[p] = Null
      BY <2>2, <3>3 DEF CommitPair, HasPort
    <3> QED BY <3>2, <3>3
  <2>3. CASE CommitClear(s)
    <3>1. port'[p] \in {port[p], [port[p] EXCEPT !.throughPortId = Null]}
          /\ (port[p] = Null => port'[p] = Null)
      BY <2>3 DEF CommitClear, HasPort
    <3> QED BY <2>1, <3>1, NullIsNoPort DEF PortRow
  <2> QED BY <2>2, <2>3
<1>2. UNCHANGED cable /\ wiring' = [wiring EXCEPT ![s] = Idle]
      /\ port' \in [Ports -> PortRow \cup {Null}]
  BY <1>1 DEF CommitPair, CommitClear, Unwire, CablingInv, CablingTypeOK
<1>3. EndsMatch'
  BY <1>1, <1>2, EndsStay
<1> QED BY <1>1, <1>2, <1>3, WiringEnds DEF CablingInv, CablingTypeOK

\* A step that writes one cable with a row that fits.
LEMMA CablePut ==
  ASSUME CablingInv, NEW c \in Cables, NEW row \in CableRow, UNCHANGED port,
         AtHome(row), \A p \in {row.fromPortId, row.toPortId} \ {Null} : HasPort(p),
         cable' = [cable EXCEPT ![c] = row]
  PROVE cable' \in [Cables -> CableRow \cup {Null}] /\ EndsMatch'
<1>1. /\ row.fromAssetId # row.toAssetId
      /\ OnAsset(row.fromPortId, row.fromAssetId)
      /\ OnAsset(row.toPortId, row.toAssetId)
  BY OnAssetIsHome
<1>2. cable \in [Cables -> CableRow \cup {Null}]
  BY DEF CablingInv, CablingTypeOK
<1>3. ASSUME NEW k \in Cables, HasCable(k)'
      PROVE /\ cable'[k].fromAssetId # cable'[k].toAssetId
            /\ OnAsset(cable[k].fromPortId, cable[k].fromAssetId)'
            /\ OnAsset(cable[k].toPortId, cable[k].toAssetId)'
  <2>1. CASE k = c
    BY <1>1, <1>2, <2>1 DEF OnAsset, HasPort
  <2>2. CASE k # c
    BY <1>2, <1>3, <2>2 DEF CablingInv, EndsMatch, OnAsset, HasPort, HasCable
  <2> QED BY <2>1, <2>2
<1> QED BY <1>2, <1>3 DEF EndsMatch

LEMMA CablesStep ==
  ASSUME CablingInv, NEW c \in Cables,
         \/ RemoveCable(c)
         \/ \E row \in CableRow : CreateCable(c, row)
         \/ \E s \in Sessions : WriteCable(s)
  PROVE CablingInv'
<1>1. CASE RemoveCable(c)
  <2>1. cable' \in [Cables -> CableRow \cup {Null}] /\ UNCHANGED <<port, wiring>>
    BY <1>1 DEF RemoveCable, CablingInv, CablingTypeOK
  <2>2. EndsMatch'
    BY <1>1, <2>1 DEF RemoveCable, CablingInv, CablingTypeOK, EndsMatch, OnAsset, HasPort, HasCable
  <2> QED BY <2>1, <2>2 DEF CablingInv, CablingTypeOK, HasPort
<1>2. ASSUME NEW row \in CableRow, CreateCable(c, row) PROVE CablingInv'
  <2>1. AtHome(row) /\ \A p \in {row.fromPortId, row.toPortId} \ {Null} : HasPort(p)
    BY <1>2, OnAssetIsHome DEF CreateCable
  <2>2. UNCHANGED <<port, wiring>> /\ cable' = [cable EXCEPT ![c] = row]
    BY <1>2 DEF CreateCable
  <2>3. cable' \in [Cables -> CableRow \cup {Null}] /\ EndsMatch'
    BY <2>1, <2>2, CablePut
  <2> QED BY <2>2, <2>3 DEF CablingInv, CablingTypeOK, HasPort
<1>3. ASSUME NEW s \in Sessions, WriteCable(s) PROVE CablingInv'
  <2> DEFINE r == wiring[s]
  <2>1. r.c \in Cables /\ r.row \in CableRow /\ AtHome(r.row)
    BY <1>3 DEF WriteCable, CablingInv, CablingTypeOK, WiringRequest
  <2>2. /\ UNCHANGED port /\ wiring' = [wiring EXCEPT ![s] = Idle]
        /\ cable' = [cable EXCEPT ![r.c] = r.row]
        /\ \A p \in {r.row.fromPortId, r.row.toPortId} \ {Null} : HasPort(p)
    BY <1>3 DEF WriteCable, Unwire
  <2>3. cable' \in [Cables -> CableRow \cup {Null}] /\ EndsMatch'
    BY <2>1, <2>2, CablePut
  <2> QED BY <2>2, <2>3, WiringEnds DEF CablingInv, CablingTypeOK, HasPort
<1> QED BY <1>1, <1>2, <1>3

\* Taking up a request, or losing it.
LEMMA WiringStep ==
  ASSUME CablingInv, NEW s \in Sessions,
         \/ \E a \in Ports : ReadClear(s, a) \/ \E b \in Ports : ReadPair(s, a, b)
         \/ \E c \in Cables, patch \in Patch : ReadCable(s, c, patch)
         \/ ReadPeer(s) \/ FailWiring(s)
  PROVE CablingInv'
<1>1. ASSUME UNCHANGED <<port, cable>>, wiring' \in [Sessions -> WiringRequest],
             \A t \in Sessions : wiring'[t].op = "cable" => AtHome(wiring'[t].row)
      PROVE CablingInv'
  BY <1>1 DEF CablingInv, CablingTypeOK, HasPort, EndsMatch, OnAsset, HasCable
<1>2. ASSUME NEW a \in Ports, ReadClear(s, a) PROVE CablingInv'
  <2> DEFINE r == [op |-> "clear", a |-> a, peerOfA |-> port[a].throughPortId]
  <2>1. r \in WiringRequest
    BY <1>2 DEF ReadClear, HasPort, CablingInv, CablingTypeOK, PortRow, WiringRequest
  <2> QED BY <1>1, <1>2, <2>1, WiringTakes DEF ReadClear
<1>3. ASSUME NEW a \in Ports, NEW b \in Ports, ReadPair(s, a, b) PROVE CablingInv'
  <2> DEFINE r == [op |-> "pairing", a |-> a, b |-> b, peerOfA |-> port[a].throughPortId]
  <2>1. r \in WiringRequest
    BY <1>3 DEF ReadPair, HasPort, CablingInv, CablingTypeOK, PortRow, WiringRequest
  <2> QED BY <1>1, <1>3, <2>1, WiringTakes DEF ReadPair
<1>4. ASSUME NEW c \in Cables, NEW patch \in Patch, ReadCable(s, c, patch) PROVE CablingInv'
  <2> DEFINE row == Merged(cable[c], patch)
  <2>1. cable[c] \in CableRow
    BY <1>4 DEF ReadCable, HasCable, CablingInv, CablingTypeOK
  <2>2. row = [fromAssetId |-> Given(patch.fromAssetId, cable[c].fromAssetId),
               toAssetId |-> Given(patch.toAssetId, cable[c].toAssetId),
               fromPortId |-> Given(patch.fromPortId, cable[c].fromPortId),
               toPortId |-> Given(patch.toPortId, cable[c].toPortId)]
    BY <2>1 DEF Merged, CableRow
  <2>3. row \in CableRow
    BY <2>1, <2>2 DEF CableRow, Patch, Given
  <2>4. AtHome(row)
    BY <1>4, <2>3, OnAssetIsHome DEF ReadCable, Fits
  <2>5. [op |-> "cable", c |-> c, row |-> row] \in WiringRequest
    BY <2>3 DEF WiringRequest
  <2>6. Wire(s, [op |-> "cable", c |-> c, row |-> row]) /\ UNCHANGED <<port, cable>>
    BY <1>4 DEF ReadCable
  <2> HIDE DEF row
  <2> QED BY <1>1, <2>4, <2>5, <2>6, WiringTakes
<1>5. CASE ReadPeer(s)
  <2> DEFINE q == wiring[s]
             r == [op |-> "pair", a |-> q.a, b |-> q.b,
                   peerOfA |-> q.peerOfA, peerOfB |-> port[q.b].throughPortId]
  <2>1. q.a \in Ports /\ q.b \in Ports /\ q.peerOfA \in Ports \cup {Null}
    BY <1>5 DEF ReadPeer, CablingInv, CablingTypeOK, WiringRequest
  <2>2. port[q.b].throughPortId \in Ports \cup {Null}
    BY <1>5, <2>1 DEF ReadPeer, HasPort, CablingInv, CablingTypeOK, PortRow
  <2>3. UNCHANGED <<port, cable>> /\ wiring' = [wiring EXCEPT ![s] = r]
    BY <1>5 DEF ReadPeer
  <2> HIDE DEF q
  <2>4. r \in WiringRequest /\ r.op # "cable"
    BY <2>1, <2>2 DEF WiringRequest
  <2> HIDE DEF r
  <2> QED BY <1>1, <2>3, <2>4 DEF CablingInv, CablingTypeOK
<1>6. CASE FailWiring(s)
  BY <1>1, <1>6, WiringEnds DEF FailWiring, Unwire
<1> QED BY <1>2, <1>3, <1>4, <1>5, <1>6

LEMMA CablingKept ==
  ASSUME CablingInv, CablingStep PROVE CablingInv'
<1>1. ASSUME NEW s \in Sessions, WriteCable(s) PROVE CablingInv'
  <2>1. wiring[s].c \in Cables
    BY <1>1 DEF WriteCable, CablingInv, CablingTypeOK, WiringRequest
  <2> QED BY <1>1, <2>1, CablesStep
<1> QED BY <1>1, PortsStep, PairsStep, CablesStep, WiringStep DEF CablingStep

\* What a port is paired with after each step that writes pairs.
LEMMA MutualAfterPorts ==
  ASSUME CablingInv, Mutual, NEW p \in Ports, CreatePort(p) \/ RemovePort(p) PROVE Mutual'
<1>1. Null \notin Ports
  BY CablingAssumption
<1>2. CASE CreatePort(p)
  <2>1. \A q \in Ports : Through(q)' = Through(q)
    BY <1>2 DEF CreatePort, CablingInv, CablingTypeOK, Through, HasPort
  <2>2. \A q \in Ports : Through(q) \in Ports \cup {Null}
    BY DEF CablingInv, CablingTypeOK, Through, HasPort, PortRow
  <2> QED BY <2>1, <2>2 DEF Mutual
<1>3. CASE RemovePort(p)
  <2>1. \A q \in Ports : Through(q) \in Ports \cup {Null}
    BY DEF CablingInv, CablingTypeOK, Through, HasPort, PortRow
  <2>2. ASSUME NEW q \in Ports
        PROVE Through(q)' = IF q = p \/ Through(q) = p THEN Null ELSE Through(q)
    <3>1. CASE q = p \/ ~HasPort(q)
      BY <1>1, <1>3, <3>1 DEF RemovePort, Through, HasPort
    <3>2. CASE q # p /\ HasPort(q)
      <4>1. port[q] \in PortRow
        BY <3>2 DEF CablingInv, CablingTypeOK, HasPort
      <4>2. port'[q] = [port[q] EXCEPT !.throughPortId = Emptied(@, p)]
        BY <1>3, <3>2 DEF RemovePort
      <4>3. port'[q] \in PortRow /\ port'[q].throughPortId = Emptied(port[q].throughPortId, p)
        BY <4>1, <4>2 DEF PortRow, Emptied
      <4> QED BY <3>2, <4>3, NullIsNoPort DEF Through, HasPort, Emptied
    <3> QED BY <3>1, <3>2
  <2> QED BY <1>1, <2>1, <2>2 DEF Mutual
<1> QED BY <1>2, <1>3

LEMMA MutualAfterPair ==
  ASSUME CablingInv, Mutual, ~StalePairing, NEW s \in Sessions, CommitPair(s)
  PROVE Mutual'
<1> DEFINE a == wiring[s].a
           b == wiring[s].b
           T(q) == Through(q)
<1>1. /\ a \in Ports /\ b \in Ports /\ Null \notin Ports /\ HasPort(a) /\ HasPort(b)
      /\ wiring'[s] = Idle
  BY CablingAssumption DEF CommitPair, Unwire, CablingInv, CablingTypeOK, WiringRequest
<1>2. wiring[s].peerOfA = T(a) /\ wiring[s].peerOfB = T(b)
  BY <1>1 DEF StalePairing, CommitPair
<1>3. \A q \in Ports : T(q) \in Ports \cup {Null} /\ (T(q) # Null => T(T(q)) = q)
  BY DEF CablingInv, CablingTypeOK, Through, HasPort, PortRow, Mutual
<1>4. ASSUME NEW q \in Ports
      PROVE Through(q)' = IF q = a THEN b ELSE IF q = b THEN a
                          ELSE IF q \in {T(a), T(b)} THEN Null ELSE T(q)
  <2>1. CASE ~HasPort(q)
    <3>1. ~HasPort(q)' /\ T(q) = Null
      BY <2>1 DEF CommitPair, Through, HasPort
    <3> QED BY <1>1, <2>1, <3>1 DEF Through
  <2>2. CASE HasPort(q)
    <3>1. port[q] \in PortRow
      BY <2>2 DEF CablingInv, CablingTypeOK, HasPort
    <3>2. port'[q] = Paired(q, a, b, OldPeers(wiring[s]))
      BY <2>2 DEF CommitPair
    <3>3. port'[q] \in PortRow
          /\ port'[q].throughPortId = CASE q = a -> b
                                        [] q = b -> a
                                        [] q \in OldPeers(wiring[s]) -> Null
                                        [] OTHER -> port[q].throughPortId
      BY <1>1, <3>1, <3>2 DEF Paired, PortRow
    <3>4. port'[q] # Null /\ T(q) = port[q].throughPortId
      BY <2>2, <3>3, NullIsNoPort DEF Through
    <3>5. Through(q)' = port'[q].throughPortId
      BY <3>4 DEF Through, HasPort
    <3>6. q \in OldPeers(wiring[s]) <=> q \in {T(a), T(b)} /\ q # a /\ q # b
      BY <1>1, <1>2 DEF OldPeers
    <3> HIDE DEF a, b, T
    <3> QED BY <1>1, <3>3, <3>4, <3>5, <3>6
  <2> QED BY <2>1, <2>2
<1>5. SUFFICES ASSUME NEW q \in Ports, Through(q)' # Null
               PROVE \E r \in Ports : r = Through(q)' /\ Through(r)' = q
  BY DEF Mutual
<1> HIDE DEF a, b, T
<1> QED BY <1>1, <1>3, <1>4, <1>5

LEMMA MutualAfterClear ==
  ASSUME CablingInv, Mutual, ~StalePairing, NEW s \in Sessions, CommitClear(s)
  PROVE Mutual'
<1> DEFINE a == wiring[s].a
           T(q) == Through(q)
<1>1. a \in Ports /\ Null \notin Ports /\ wiring'[s] = Idle
  BY CablingAssumption DEF CommitClear, Unwire, CablingInv, CablingTypeOK, WiringRequest
<1>2. wiring[s].peerOfA = T(a)
  BY <1>1 DEF StalePairing, CommitClear
<1>3. \A q \in Ports : T(q) \in Ports \cup {Null} /\ (T(q) # Null => T(T(q)) = q)
  BY DEF CablingInv, CablingTypeOK, Through, HasPort, PortRow, Mutual
<1>4. ASSUME NEW q \in Ports
      PROVE Through(q)' = IF q = a \/ q = T(a) THEN Null ELSE T(q)
  <2>1. port[q] \in PortRow \cup {Null}
    BY DEF CablingInv, CablingTypeOK
  <2>2. port'[q] = IF HasPort(q) /\ q \in {a, T(a)}
                   THEN [port[q] EXCEPT !.throughPortId = Null] ELSE port[q]
    BY <1>2 DEF CommitClear, Cleared
  <2> QED BY <1>1, <2>1, <2>2, NullIsNoPort DEF Through, HasPort, PortRow
<1>5. SUFFICES ASSUME NEW q \in Ports, Through(q)' # Null
               PROVE \E r \in Ports : r = Through(q)' /\ Through(r)' = q
  BY DEF Mutual
<1> HIDE DEF a, T
<1> QED BY <1>1, <1>3, <1>4, <1>5

LEMMA MutualKept ==
  ASSUME CablingInv, Mutual, ~StalePairing, CablingStep PROVE Mutual'
<1>1. ASSUME UNCHANGED port PROVE Mutual'
  BY <1>1 DEF Mutual, Through, HasPort
<1>2. \/ \E p \in Ports : CreatePort(p) \/ RemovePort(p)
      \/ \E s \in Sessions : CommitPair(s) \/ CommitClear(s)
      \/ UNCHANGED port
  BY DEF CablingStep, RemoveCable, CreateCable, ReadClear, ReadPair, ReadPeer, ReadCable,
         WriteCable, FailWiring
<1> QED BY <1>1, <1>2, MutualAfterPorts, MutualAfterPair, MutualAfterClear

----------------------------------------------------------------------------
(* Deals.                                                                  *)

\* What a request that was admitted relies on until it writes.
FitDeal(qt, r) ==
  /\ r.op = "edit" =>
       /\ qt[r.d] # Null
       /\ r.to # Keep => r.to \in Transitions(r.was)
       /\ r.opportunityId # Keep => r.was = "DRAFT"
  /\ r.op \in {"lines", "replace"} => qt[r.d] # Null /\ r.was = "DRAFT"
  /\ r.op = "create" =>
       r.row.version = 1 /\ r.row.isPrimary /\ \A q \in r.sees : qt[q] # Null
  /\ r.op \in {"read", "revise"} =>
       /\ qt[r.d] # Null /\ r.row.version < MaxVersion
       /\ r.row.version = qt[r.d].version /\ r.row.reference = qt[r.d].reference
       /\ r.row.status \in {"SENT", "REJECTED", "EXPIRED"}
  /\ r.op \in {"engage", "link"} /\ r.d \in Quotes => qt[r.d] # Null

DealsFit ==
  /\ DealsTypeOK
  /\ \A s \in Sessions : FitDeal(quote, dealing[s])
  /\ \A s \in Sessions :
       /\ dealing[s].op = "stage" => HasOpp(dealing[s].d)
       /\ dealing[s].op \in {"engage", "link"} /\ dealing[s].d \in Opportunities =>
            HasOpp(dealing[s].d)

\* Taken, of a given table of quotes.
TakenIn(qt, reference, version) ==
  \E q \in Quotes :
    qt[q] # Null /\ qt[q].reference = reference /\ qt[q].version = version

\* Every version has all the earlier ones, and only the newest is live, but for
\* those whose status was overwritten.
Chains ==
  /\ \A q \in Quotes : HasQuote(q) =>
       \A n \in 1..quote[q].version : TakenIn(quote, quote[q].reference, n)
  /\ PrimaryIsNewest
  /\ \A q1, q2 \in Quotes :
       /\ HasQuote(q1) /\ HasQuote(q2) /\ SameChain(q1, q2)
       /\ quote[q1].version < quote[q2].version
       => ~Live(q1) \/ q1 \in overtaken

DealsInv == DealsFit /\ Chains

\* What every step keeps of rows that exist.
Same ==
  /\ \A q \in Quotes : HasQuote(q) =>
       /\ HasQuote(q)'
       /\ quote'[q].version = quote[q].version
       /\ quote'[q].reference = quote[q].reference
  /\ \A o \in Opportunities : HasOpp(o) => HasOpp(o)'

LEMMA RequestParts ==
  ASSUME NEW r \in DealRequest
  PROVE /\ r.op = "stage" => r.d \in Opportunities /\ r.was \in Stages /\ r.to \in Stages
        /\ r.op = "edit" => /\ r.d \in Quotes /\ r.was \in QuoteStatuses
                            /\ r.to \in QuoteStatuses \cup {Keep}
                            /\ r.opportunityId \in Opportunities \cup {Null, Keep}
        /\ r.op = "create" => r.d \in Quotes /\ r.row \in QuoteRow /\ r.sees \subseteq Quotes
        /\ r.op = "lines" => r.d \in Quotes /\ r.was \in QuoteStatuses /\ r.batch \in Batches
        /\ r.op = "replace" => r.d \in Quotes /\ r.batch \in Batches
        /\ r.op \in {"read", "revise"} => r.d \in Quotes /\ r.row \in QuoteRow
        /\ r.op = "engage" => r.d \in AllDeals
        /\ r.op = "link" => r.d \in AllDeals /\ r.p \in Packages
BY DEF DealRequest

LEMMA SameFits ==
  ASSUME DealsFit, Same, NEW s \in Sessions PROVE FitDeal(quote', dealing[s])
<1>1. dealing[s] \in DealRequest /\ FitDeal(quote, dealing[s])
  BY DEF DealsFit, DealsTypeOK
<1>2. /\ dealing[s].op \in {"edit", "lines", "replace", "read", "revise"} => dealing[s].d \in Quotes
      /\ dealing[s].op = "create" => dealing[s].sees \subseteq Quotes
  BY <1>1, RequestParts
<1> QED BY <1>1, <1>2 DEF Same, FitDeal, HasQuote

\* A session that takes up, goes on with or ends a request.
LEMMA ServeNext ==
  ASSUME DealsFit, Same, NEW s \in Sessions, NEW r \in DealRequest, FitDeal(quote', r),
         dealing' = [dealing EXCEPT ![s] = r],
         r.op \in {"stage", "engage", "link"} /\ r.d \in Opportunities => opp'[r.d] # Null,
         opp' \in [Opportunities -> OppRow \cup {Null}],
         quote' \in [Quotes -> QuoteRow \cup {Null}],
         made' \in [AllDeals -> SUBSET Packages],
         overtaken' \subseteq AllDeals, doubled' \subseteq AllDeals, crossed' \subseteq Quotes
  PROVE DealsFit'
<1>1. ASSUME NEW t \in Sessions
      PROVE /\ FitDeal(quote', dealing'[t])
            /\ dealing'[t].op = "stage" => opp'[dealing'[t].d] # Null
            /\ dealing'[t].op \in {"engage", "link"} /\ dealing'[t].d \in Opportunities =>
                 opp'[dealing'[t].d] # Null
  <2>1. CASE t = s
    BY <2>1, RequestParts DEF DealsFit, DealsTypeOK
  <2>2. CASE t # s
    <3>1. dealing'[t] = dealing[t] /\ dealing[t] \in DealRequest
      BY <2>2 DEF DealsFit, DealsTypeOK
    <3>2. FitDeal(quote', dealing'[t])
      BY <3>1, SameFits
    <3> QED BY <3>1, <3>2, RequestParts DEF DealsFit, Same, HasOpp
  <2> QED BY <2>1, <2>2
<1>2. dealing' \in [Sessions -> DealRequest]
  BY DEF DealsFit, DealsTypeOK
<1> QED BY <1>1, <1>2 DEF DealsFit, DealsTypeOK, HasOpp

LEMMA IdleDeal == Idle \in DealRequest /\ FitDeal(quote', Idle) /\ Idle.op = "idle"
BY DEF Idle, DealRequest, FitDeal

LEMMA ServeEnds ==
  ASSUME DealsFit, Same, NEW s \in Sessions, Finish(s),
         opp' \in [Opportunities -> OppRow \cup {Null}],
         quote' \in [Quotes -> QuoteRow \cup {Null}],
         made' \in [AllDeals -> SUBSET Packages],
         overtaken' \subseteq AllDeals, doubled' \subseteq AllDeals, crossed' \subseteq Quotes
  PROVE DealsFit'
BY ServeNext, IdleDeal DEF Finish

\* Rows that only change what a chain does not depend on.
LEMMA ChainsStay ==
  ASSUME DealsFit, Chains, overtaken \subseteq overtaken',
         \A q \in Quotes : HasQuote(q)' <=> HasQuote(q),
         \A q \in Quotes : HasQuote(q) =>
           /\ quote'[q].version = quote[q].version
           /\ quote'[q].reference = quote[q].reference
           /\ quote'[q].isPrimary => quote[q].isPrimary
           /\ Live(q)' => Live(q) \/ q \in overtaken'
  PROVE Chains'
<1>1. \A reference, n : TakenIn(quote, reference, n) => TakenIn(quote', reference, n)
  BY DEF TakenIn, HasQuote
<1>2. ASSUME NEW q \in Quotes, HasQuote(q)'
      PROVE \A n \in 1..quote'[q].version : TakenIn(quote', quote'[q].reference, n)
  BY <1>1, <1>2 DEF Chains
<1>3. PrimaryIsNewest'
  BY DEF Chains, PrimaryIsNewest, SameChain
<1>4. ASSUME NEW p \in Quotes, NEW q \in Quotes, HasQuote(p)', HasQuote(q)', SameChain(p, q)',
             quote'[p].version < quote'[q].version
      PROVE ~Live(p)' \/ p \in overtaken'
  BY <1>4 DEF Chains, SameChain
<1> QED BY <1>2, <1>3, <1>4 DEF Chains

----------------------------------------------------------------------------
(* The steps of Deals.                                                     *)

LEMMA OpportunityStep ==
  ASSUME DealsInv,
         \/ \E o \in Opportunities : CreateOpportunity(o)
         \/ \E s \in Sessions, o \in Opportunities : ReadStage(s, o)
         \/ \E s \in Sessions : WriteStage(s)
  PROVE DealsInv'
<1> USE DEF DealsInv
<1>0. ASSUME UNCHANGED quote, overtaken \subseteq overtaken' PROVE Chains'
  BY <1>0, ChainsStay DEF HasQuote, Live
<1>1. ASSUME NEW o \in Opportunities, CreateOpportunity(o) PROVE DealsInv'
  <2>1. opp' \in [Opportunities -> OppRow \cup {Null}] /\ Same
    BY <1>1 DEF CreateOpportunity, DealsFit, DealsTypeOK, OppRow, Stages, OpenStages, Same,
                HasOpp, HasQuote
  <2>2. DealsFit'
    <3>1. \A s \in Sessions : FitDeal(quote', dealing'[s])
      BY <1>1, <2>1, SameFits DEF CreateOpportunity
    <3>2. \A s \in Sessions :
            /\ dealing[s].op = "stage" => opp'[dealing[s].d] # Null
            /\ dealing[s].op \in {"engage", "link"} /\ dealing[s].d \in Opportunities =>
                 opp'[dealing[s].d] # Null
      BY <2>1, RequestParts DEF DealsFit, DealsTypeOK, Same, HasOpp
    <3> QED BY <1>1, <2>1, <3>1, <3>2 DEF CreateOpportunity, DealsFit, DealsTypeOK, HasOpp
  <2> QED BY <1>0, <1>1, <2>2 DEF CreateOpportunity
<1>2. ASSUME NEW s \in Sessions, NEW o \in Opportunities, ReadStage(s, o) PROVE DealsInv'
  <2>1. PICK to \in Stages :
          TakeUp(s, [op |-> "stage", d |-> o, was |-> opp[o].stage, to |-> to])
    BY <1>2 DEF ReadStage
  <2>2. [op |-> "stage", d |-> o, was |-> opp[o].stage, to |-> to] \in DealRequest
    BY <1>2 DEF ReadStage, HasOpp, DealsFit, DealsTypeOK, OppRow, DealRequest
  <2>3. FitDeal(quote', [op |-> "stage", d |-> o, was |-> opp[o].stage, to |-> to])
    BY DEF FitDeal
  <2>4. /\ UNCHANGED <<opp, quote, made, overtaken, doubled, crossed>> /\ Same /\ opp[o] # Null
        /\ dealing' = [dealing EXCEPT ![s] =
             [op |-> "stage", d |-> o, was |-> opp[o].stage, to |-> to]]
    BY <1>2, <2>1 DEF ReadStage, Same, HasOpp, HasQuote, TakeUp
  <2>5. DealsFit'
    BY <2>2, <2>3, <2>4, ServeNext DEF DealsFit, DealsTypeOK
  <2> QED BY <1>0, <2>4, <2>5
<1>3. ASSUME NEW s \in Sessions, WriteStage(s) PROVE DealsInv'
  <2>1. dealing[s].d \in Opportunities /\ dealing[s].to \in Stages
        /\ opp[dealing[s].d] \in OppRow
    BY <1>3, RequestParts DEF WriteStage, DealsFit, DealsTypeOK, HasOpp
  <2>2. [opp[dealing[s].d] EXCEPT !.stage = dealing[s].to] \in OppRow
    BY <2>1 DEF OppRow
  <2>3. opp' = [opp EXCEPT ![dealing[s].d] = [opp[dealing[s].d] EXCEPT !.stage = dealing[s].to]]
    BY <1>3, <2>1 DEF WriteStage, DealsFit, DealsTypeOK
  <2>4. opp' \in [Opportunities -> OppRow \cup {Null}] /\ Same
    BY <1>3, <2>1, <2>2, <2>3, NullIsNoDeal DEF WriteStage, DealsFit, DealsTypeOK, Same, HasOpp,
                                                HasQuote
  <2>5. overtaken' \subseteq AllDeals /\ overtaken \subseteq overtaken'
    BY <1>3, <2>1 DEF WriteStage, DealsFit, DealsTypeOK, AllDeals
  <2>6. DealsFit'
    BY <1>3, <2>4, <2>5, ServeEnds DEF WriteStage, DealsFit, DealsTypeOK
  <2> QED BY <1>0, <1>3, <2>5, <2>6 DEF WriteStage
<1> QED BY <1>1, <1>2, <1>3

\* Taking up a request about a quote, starting to replace its lines, or losing one.
LEMMA RequestStep ==
  ASSUME DealsInv, NEW s \in Sessions, NEW r \in DealRequest, FitDeal(quote, r),
         dealing' = [dealing EXCEPT ![s] = r], UNCHANGED <<opp, quote, overtaken>>,
         r.op \in {"stage", "engage", "link"} /\ r.d \in Opportunities => HasOpp(r.d),
         made' \in [AllDeals -> SUBSET Packages], doubled' \subseteq AllDeals, crossed' = crossed
  PROVE DealsInv'
<1>1. Same /\ FitDeal(quote', r)
  BY DEF Same, HasOpp, HasQuote, FitDeal
<1>2. DealsFit'
  BY <1>1, ServeNext DEF DealsInv, DealsFit, DealsTypeOK, HasOpp
<1> QED BY <1>2, ChainsStay DEF DealsInv, HasQuote, Live

LEMMA NewQuoteTyped ==
  ASSUME NEW reference \in References, NEW version \in 1..MaxVersion,
         NEW o \in Opportunities \cup {Null}, NEW lines \in SUBSET Batches, NEW value \in Nat
  PROVE LET row == NewQuote(reference, version, o, lines, value) IN
        /\ row \in QuoteRow /\ row.reference = reference /\ row.version = version
        /\ row.isPrimary /\ row.status = "DRAFT"
BY DEF NewQuote, QuoteRow, QuoteStatuses

LEMMA ReadStep ==
  ASSUME DealsInv, NEW s \in Sessions, NEW q \in Quotes,
         ReadCreate(s, q) \/ ReadQuoteEdit(s, q) \/ ReadLines(s, q) \/ ReadRevise(s, q)
  PROVE DealsInv'
<1>0. DealsTypeOK
  BY DEF DealsInv, DealsFit
<1>1. CASE ReadCreate(s, q)
  <2>1. PICK reference \in References, o \in Opportunities \cup {Null},
             b \in Batches \cup {Null}, sees \in SUBSET Quotes :
          TakeUp(s, [op |-> "create", d |-> q,
                     row |-> NewQuote(reference, 1, o, LinesOf(b), SumLines(b)), sees |-> sees])
          /\ \A other \in sees : HasQuote(other)
    <3>1. PICK reference \in References, o \in Opportunities \cup {Null},
               b \in Batches \cup {Null} :
            TakeUp(s, [op |-> "create", d |-> q,
                       row |-> NewQuote(reference, 1, o, LinesOf(b), SumLines(b)),
                       sees |-> {other \in Quotes : /\ o # Null /\ HasQuote(other)
                                                    /\ quote[other].opportunityId = o
                                                    /\ quote[other].isPrimary}])
      BY <1>1 DEF ReadCreate
    <3>2. {other \in Quotes : /\ o # Null /\ HasQuote(other)
                              /\ quote[other].opportunityId = o
                              /\ quote[other].isPrimary} \in SUBSET Quotes
      OBVIOUS
    <3> QED BY <3>1, <3>2
  <2> DEFINE row == NewQuote(reference, 1, o, LinesOf(b), SumLines(b))
             r == [op |-> "create", d |-> q, row |-> row, sees |-> sees]
  <2>2. LinesOf(b) \in SUBSET Batches /\ SumLines(b) \in Nat
    BY DealsAssumption DEF LinesOf, SumLines
  <2>3. 1 \in 1..MaxVersion
    BY DealsAssumption
  <2>4. row \in QuoteRow /\ row.version = 1 /\ row.isPrimary
    BY <2>2, <2>3, NewQuoteTyped
  <2> HIDE DEF row
  <2>5. r \in DealRequest
    BY <2>4 DEF DealRequest
  <2>6. FitDeal(quote, r)
    BY <2>1, <2>4 DEF FitDeal, HasQuote
  <2> QED BY <1>0, <1>1, <2>1, <2>5, <2>6, RequestStep DEF ReadCreate, TakeUp, DealsTypeOK, row
<1>2. CASE ReadQuoteEdit(s, q)
  <2>1. PICK to \in QuoteStatuses \cup {Keep}, o \in Opportunities \cup {Null, Keep} :
          /\ HasQuote(q)
          /\ o # Keep => quote[q].status = "DRAFT"
          /\ to = Keep \/ to \in Transitions(quote[q].status)
          /\ TakeUp(s, [op |-> "edit", d |-> q, was |-> quote[q].status, to |-> to,
                        opportunityId |-> o])
    BY <1>2 DEF ReadQuoteEdit
  <2> DEFINE r == [op |-> "edit", d |-> q, was |-> quote[q].status, to |-> to,
                   opportunityId |-> o]
  <2>2. quote[q].status \in QuoteStatuses
    BY <1>0, <2>1 DEF DealsTypeOK, HasQuote, QuoteRow
  <2>3. r \in DealRequest
    BY <2>2 DEF DealRequest
  <2>4. FitDeal(quote, r)
    BY <2>1 DEF FitDeal, HasQuote
  <2> QED BY <1>0, <1>2, <2>1, <2>3, <2>4, RequestStep DEF ReadQuoteEdit, TakeUp, DealsTypeOK
<1>3. CASE ReadLines(s, q)
  <2>1. PICK b \in Batches :
          TakeUp(s, [op |-> "lines", d |-> q, was |-> quote[q].status, batch |-> b])
    BY <1>3 DEF ReadLines
  <2> DEFINE r == [op |-> "lines", d |-> q, was |-> quote[q].status, batch |-> b]
  <2>2. quote[q] # Null /\ quote[q].status = "DRAFT"
    BY <1>3 DEF ReadLines, MayReplaceLines, HasQuote
  <2>3. r \in DealRequest /\ FitDeal(quote, r)
    BY <2>2 DEF DealRequest, QuoteStatuses, FitDeal
  <2> QED BY <1>0, <1>3, <2>1, <2>3, RequestStep DEF ReadLines, TakeUp, DealsTypeOK
<1>4. CASE ReadRevise(s, q)
  <2> DEFINE r == [op |-> "read", d |-> q, row |-> quote[q]]
  <2>1. /\ quote[q] \in QuoteRow /\ quote[q] # Null /\ quote[q].version < MaxVersion
        /\ quote[q].status \in {"SENT", "REJECTED", "EXPIRED"}
    BY <1>0, <1>4 DEF ReadRevise, HasQuote, DealsTypeOK
  <2>2. r \in DealRequest
    BY <2>1 DEF DealRequest
  <2>3. FitDeal(quote, r)
    BY <2>1 DEF FitDeal
  <2> QED BY <1>0, <1>4, <2>2, <2>3, RequestStep DEF ReadRevise, TakeUp, DealsTypeOK
<1> QED BY <1>1, <1>2, <1>3, <1>4

LEMMA EngageStep ==
  ASSUME DealsInv, NEW s \in Sessions,
         \/ \E d \in AllDeals : ReadEngage(s, d)
         \/ DeleteLines(s) \/ ReadReviseLines(s) \/ MakePackage(s) \/ FailDeal(s)
  PROVE DealsInv'
<1>0. DealsTypeOK /\ dealing[s] \in DealRequest /\ FitDeal(quote, dealing[s])
  BY DEF DealsInv, DealsFit, DealsTypeOK
<1>1. ASSUME NEW d \in AllDeals, ReadEngage(s, d) PROVE DealsInv'
  <2> DEFINE r == [op |-> "engage", d |-> d]
  <2>1. /\ d \in Quotes => quote[d] # Null
        /\ d \in Opportunities => HasOpp(d)
    BY <1>1, DealsAssumption DEF ReadEngage, MayEngage, Won, HasQuote
  <2>2. r \in DealRequest /\ FitDeal(quote, r)
    BY <2>1 DEF DealRequest, FitDeal
  <2>3. doubled' \subseteq AllDeals
    BY <1>0, <1>1 DEF ReadEngage, DealsTypeOK
  <2> QED BY <1>0, <1>1, <2>1, <2>2, <2>3, RequestStep DEF ReadEngage, TakeUp, DealsTypeOK
<1>2. CASE DeleteLines(s)
  <2> DEFINE q == dealing[s]
             r == [op |-> "replace", d |-> q.d, was |-> q.was, batch |-> q.batch,
                   sees |-> quote[q.d].lines]
  <2>1. /\ q.d \in Quotes /\ q.was \in QuoteStatuses /\ q.batch \in Batches
        /\ quote[q.d] # Null /\ q.was = "DRAFT"
    BY <1>0, <1>2, RequestParts DEF DeleteLines, FitDeal
  <2>2. quote[q.d].lines \in SUBSET Batches
    BY <1>0, <2>1 DEF DealsTypeOK, QuoteRow
  <2>3. r \in DealRequest /\ FitDeal(quote, r)
    BY <2>1, <2>2 DEF DealRequest, FitDeal
  <2>4. dealing' = [dealing EXCEPT ![s] = r]
        /\ UNCHANGED <<opp, quote, made, overtaken, doubled, crossed>>
    BY <1>2 DEF DeleteLines
  <2> HIDE DEF q
  <2> QED BY <1>0, <2>3, <2>4, RequestStep DEF DealsTypeOK
<1>3. CASE MakePackage(s)
  <2>1. PICK p \in Packages :
          /\ made' = [made EXCEPT ![dealing[s].d] = @ \cup {p}]
          /\ dealing' = [dealing EXCEPT ![s] = [op |-> "link", d |-> dealing[s].d, p |-> p]]
    BY <1>3 DEF MakePackage
  <2>2. dealing[s].d \in AllDeals /\ dealing[s].op = "engage"
    BY <1>0, <1>3, RequestParts DEF MakePackage
  <2>3. [op |-> "link", d |-> dealing[s].d, p |-> p] \in DealRequest
        /\ FitDeal(quote, [op |-> "link", d |-> dealing[s].d, p |-> p])
    BY <1>0, <2>2 DEF DealRequest, FitDeal
  <2>4. made' \in [AllDeals -> SUBSET Packages]
    BY <1>0, <2>1, <2>2 DEF DealsTypeOK
  <2>5. dealing[s].d \in Opportunities => HasOpp(dealing[s].d)
    BY <2>2 DEF DealsInv, DealsFit
  <2> QED BY <1>0, <1>3, <2>1, <2>3, <2>4, <2>5, RequestStep DEF MakePackage, DealsTypeOK
<1>4. CASE FailDeal(s)
  <2>1. doubled' \subseteq AllDeals
    BY <1>0, <1>4, RequestParts DEF FailDeal, DealsTypeOK
  <2>2. Idle \in DealRequest /\ FitDeal(quote, Idle) /\ Idle.op = "idle"
    BY DEF Idle, DealRequest, FitDeal
  <2> QED BY <1>0, <1>4, <2>1, <2>2, RequestStep DEF FailDeal, Finish, DealsTypeOK
<1>5. CASE ReadReviseLines(s)
  <2> DEFINE q == dealing[s]
             row == [q.row EXCEPT !.lines = quote[q.d].lines]
             r == [op |-> "revise", d |-> q.d, row |-> row,
                   torn |-> quote[q.d].lines # q.row.lines]
  <2>1. /\ q.d \in Quotes /\ q.row \in QuoteRow /\ q.op = "read" /\ quote[q.d] # Null
    BY <1>0, <1>5, RequestParts DEF ReadReviseLines, FitDeal
  <2>2. quote[q.d].lines \in SUBSET Batches
    BY <1>0, <2>1 DEF DealsTypeOK, QuoteRow
  <2>3. dealing' = [dealing EXCEPT ![s] = r]
        /\ UNCHANGED <<opp, quote, made, overtaken, doubled, crossed>>
    BY <1>5 DEF ReadReviseLines
  <2>4. /\ row \in QuoteRow /\ row.version = q.row.version
        /\ row.reference = q.row.reference /\ row.status = q.row.status
    BY <2>1, <2>2 DEF QuoteRow
  <2> HIDE DEF row
  <2>5. r \in DealRequest
    BY <2>1, <2>4 DEF DealRequest
  <2>6. FitDeal(quote, r)
    BY <1>0, <2>1, <2>4 DEF FitDeal
  <2> HIDE DEF q
  <2> QED BY <1>0, <2>3, <2>5, <2>6, RequestStep DEF DealsTypeOK
<1> QED BY <1>1, <1>2, <1>3, <1>4, <1>5

\* A row written in place: what follows from the row alone.
LEMMA RowPut ==
  ASSUME DealsInv, NEW s \in Sessions, NEW q \in Quotes, NEW row \in QuoteRow, HasQuote(q),
         row.version = quote[q].version, row.reference = quote[q].reference,
         row.isPrimary => quote[q].isPrimary,
         row.status \in {"DRAFT", "SENT", "ACCEPTED"} => Live(q) \/ q \in overtaken',
         quote' = [quote EXCEPT ![q] = row], Finish(s), UNCHANGED <<opp, made, doubled>>,
         overtaken \subseteq overtaken', overtaken' \subseteq AllDeals, crossed' \subseteq Quotes
  PROVE DealsInv'
<1>0. DealsTypeOK /\ row # Null
  BY NullIsNoDeal DEF DealsInv, DealsFit
<1>1. quote' \in [Quotes -> QuoteRow \cup {Null}]
      /\ \A p \in Quotes : quote'[p] = IF p = q THEN row ELSE quote[p]
  BY <1>0 DEF DealsTypeOK
<1>2. /\ Same
      /\ \A p \in Quotes : HasQuote(p)' <=> HasQuote(p)
      /\ \A p \in Quotes : HasQuote(p) =>
           /\ quote'[p].version = quote[p].version
           /\ quote'[p].reference = quote[p].reference
           /\ quote'[p].isPrimary => quote[p].isPrimary
           /\ Live(p)' => Live(p) \/ p \in overtaken'
  BY <1>0, <1>1 DEF Same, HasQuote, HasOpp, Live
<1>3. DealsFit'
  BY <1>0, <1>1, <1>2, ServeEnds DEF DealsInv, DealsTypeOK
<1>4. Chains'
  BY <1>2, ChainsStay DEF DealsInv
<1> QED BY <1>3, <1>4 DEF DealsInv

LEMMA PutStep ==
  ASSUME DealsInv, NEW s \in Sessions, WriteQuoteEdit(s) \/ CommitLines(s) \/ LinkPackage(s)
  PROVE DealsInv'
<1> DEFINE r == dealing[s]
           old == quote[r.d]
<1>0. /\ DealsTypeOK /\ r \in DealRequest /\ FitDeal(quote, r)
      /\ r.op \in {"engage", "link"} /\ r.d \in Opportunities => HasOpp(r.d)
  BY DEF DealsInv, DealsFit, DealsTypeOK
<1>1. CASE WriteQuoteEdit(s)
  <2>1. /\ r.d \in Quotes /\ r.was \in QuoteStatuses /\ r.to \in QuoteStatuses \cup {Keep}
        /\ r.opportunityId \in Opportunities \cup {Null, Keep} /\ old # Null
        /\ r.to # Keep => r.to \in Transitions(r.was)
    BY <1>0, <1>1, RequestParts DEF WriteQuoteEdit, FitDeal
  <2>2. old \in QuoteRow
    BY <1>0, <2>1 DEF DealsTypeOK
  <2> DEFINE row == [old EXCEPT
               !.status = IF r.to = Keep THEN @ ELSE r.to,
               !.opportunityId = IF r.opportunityId = Keep THEN @ ELSE r.opportunityId]
  <2>3. /\ row \in QuoteRow /\ row.version = old.version /\ row.reference = old.reference
        /\ row.isPrimary = old.isPrimary
        /\ row.status = IF r.to = Keep THEN old.status ELSE r.to
    BY <2>1, <2>2, DealsAssumption DEF QuoteRow
  <2>4. quote' = [quote EXCEPT ![r.d] = row]
    BY <1>0, <1>1, <2>1, <2>2 DEF WriteQuoteEdit, DealsTypeOK, QuoteRow
  <2>5. overtaken' = IF r.to # Keep /\ old.status # r.was THEN overtaken \cup {r.d} ELSE overtaken
    BY <1>1 DEF WriteQuoteEdit
  <2>6. row.status \in {"DRAFT", "SENT", "ACCEPTED"} => Live(r.d) \/ r.d \in overtaken'
    BY <2>1, <2>3, <2>5 DEF Live, Transitions
  <2>7. overtaken \subseteq overtaken' /\ overtaken' \subseteq AllDeals
    BY <1>0, <2>1, <2>5 DEF DealsTypeOK, AllDeals
  <2>8. Finish(s) /\ UNCHANGED <<opp, made, doubled>> /\ crossed' \subseteq Quotes
        /\ HasQuote(r.d)
    BY <1>0, <1>1, <2>1 DEF WriteQuoteEdit, HasQuote, DealsTypeOK
  <2> HIDE DEF row, r
  <2> QED BY <2>1, <2>3, <2>4, <2>6, <2>7, <2>8, RowPut
<1>2. CASE CommitLines(s)
  <2>1. r.d \in Quotes /\ r.batch \in Batches /\ old # Null
    BY <1>0, <1>2, RequestParts DEF CommitLines, FitDeal
  <2>2. old \in QuoteRow
    BY <1>0, <2>1 DEF DealsTypeOK
  <2> DEFINE row == Replaced(old, r.sees, r.batch)
  <2>3. /\ row \in QuoteRow /\ row.version = old.version /\ row.reference = old.reference
        /\ row.isPrimary = old.isPrimary /\ row.status = old.status
    <3>1. SumLines(r.batch) \in Nat /\ (old.lines \ r.sees) \cup {r.batch} \in SUBSET Batches
      BY <2>1, <2>2, DealsAssumption DEF SumLines, QuoteRow
    <3> QED BY <2>2, <3>1 DEF Replaced, QuoteRow
  <2>4. quote' = [quote EXCEPT ![r.d] = row] /\ crossed' \subseteq Quotes
    BY <1>0, <1>2, <2>1 DEF CommitLines, DealsTypeOK
  <2>5. /\ Finish(s) /\ UNCHANGED <<opp, made, doubled, overtaken>> /\ HasQuote(r.d)
        /\ overtaken \subseteq AllDeals
    BY <1>0, <1>2, <2>1 DEF CommitLines, HasQuote, DealsTypeOK
  <2>6. row.status \in {"DRAFT", "SENT", "ACCEPTED"} => Live(r.d)
    BY <2>3 DEF Live
  <2> HIDE DEF row, r
  <2> QED BY <2>1, <2>3, <2>4, <2>5, <2>6, RowPut
<1>3. CASE LinkPackage(s) /\ r.d \in Quotes
  <2>1. r.p \in Packages /\ old # Null
    BY <1>0, <1>3, RequestParts DEF LinkPackage, FitDeal
  <2>2. old \in QuoteRow
    BY <1>0, <1>3, <2>1 DEF DealsTypeOK
  <2> DEFINE row == [old EXCEPT !.workPackageId = r.p]
  <2>3. /\ row \in QuoteRow /\ row.version = old.version /\ row.reference = old.reference
        /\ row.isPrimary = old.isPrimary /\ row.status = old.status
    BY <2>1, <2>2 DEF QuoteRow
  <2>4. quote' = [quote EXCEPT ![r.d] = row] /\ UNCHANGED opp
    BY <1>0, <1>3, DealsAssumption DEF LinkPackage, DealsTypeOK
  <2> HIDE DEF row
  <2> QED BY <1>0, <1>3, <2>1, <2>3, <2>4, RowPut
          DEF LinkPackage, HasQuote, DealsTypeOK, Live
<1>4. CASE LinkPackage(s) /\ r.d \in Opportunities
  <2>1. r.p \in Packages /\ opp[r.d] \in OppRow
    BY <1>0, <1>4, RequestParts DEF LinkPackage, HasOpp, DealsTypeOK
  <2>2. [opp[r.d] EXCEPT !.workPackageId = r.p] \in OppRow
    BY <2>1 DEF OppRow
  <2>3. opp' = [opp EXCEPT ![r.d] = [opp[r.d] EXCEPT !.workPackageId = r.p]]
        /\ UNCHANGED quote
    BY <1>0, <1>4, <2>1, DealsAssumption DEF LinkPackage, DealsTypeOK
  <2>4. opp' \in [Opportunities -> OppRow \cup {Null}] /\ Same
    BY <1>0, <1>4, <2>2, <2>3, NullIsNoDeal DEF DealsTypeOK, Same, HasOpp, HasQuote
  <2>5. DealsFit'
    BY <1>0, <1>4, <2>3, <2>4, ServeEnds DEF LinkPackage, DealsInv, DealsTypeOK
  <2>6. Chains'
    BY <1>4, <2>3, ChainsStay DEF LinkPackage, DealsInv, HasQuote, Live
  <2> QED BY <2>5, <2>6 DEF DealsInv
<1>5. LinkPackage(s) => r.d \in Quotes \/ r.d \in Opportunities
  BY DEF LinkPackage
<1> QED BY <1>1, <1>2, <1>3, <1>4, <1>5

\* A new draft: of a new reference, or the next version of a row that is superseded.
LEMMA ChainsGrow ==
  ASSUME DealsInv, NEW n \in Quotes, ~HasQuote(n), NEW row \in QuoteRow, row.isPrimary,
         \A q \in Quotes \ {n} : HasQuote(q)' <=> HasQuote(q),
         HasQuote(n)', quote'[n] = row,
         \A q \in Quotes \ {n} : HasQuote(q) =>
           /\ quote'[q].version = quote[q].version
           /\ quote'[q].reference = quote[q].reference
           /\ quote'[q].isPrimary => quote[q].isPrimary
           /\ Live(q)' => Live(q),
         overtaken \subseteq overtaken',
         ~Taken(row.reference, row.version),
         row.version = 1 \/
           \E p \in Quotes : /\ HasQuote(p) /\ quote[p].reference = row.reference
                             /\ quote[p].version = row.version - 1
                             /\ ~quote'[p].isPrimary /\ (~Live(p)' \/ p \in overtaken')
  PROVE Chains'
<1>0. Chains /\ DealsTypeOK
  BY DEF DealsInv, DealsFit
<1>1. /\ \A q \in Quotes : HasQuote(q) => quote[q].version \in Nat
      /\ row.version \in Nat /\ row.version > 0
  BY <1>0, DealsAssumption DEF DealsTypeOK, QuoteRow, HasQuote
<1>2. ASSUME NEW q \in Quotes, HasQuote(q), quote[q].reference = row.reference
      PROVE quote[q].version < row.version
  <2>1. \A k \in 1..quote[q].version : TakenIn(quote, row.reference, k)
    BY <1>0, <1>2 DEF Chains
  <2>2. ~TakenIn(quote, row.reference, row.version)
    BY DEF TakenIn, Taken, HasQuote
  <2> QED BY <1>1, <1>2, <2>1, <2>2
<1>3. \A reference, k : TakenIn(quote, reference, k) => TakenIn(quote', reference, k)
  BY DEF TakenIn, HasQuote
<1>4. ASSUME NEW q \in Quotes, HasQuote(q)', NEW k \in 1..quote'[q].version
      PROVE TakenIn(quote', quote'[q].reference, k)
  <2>1. CASE q # n
    BY <1>0, <1>3, <1>4, <2>1 DEF Chains
  <2>2. CASE q = n
    <3>1. CASE k = row.version
      BY <1>4, <2>2, <3>1 DEF TakenIn, HasQuote
    <3>2. CASE k # row.version
      <4>1. k \in 1..(row.version - 1)
        BY <1>1, <1>4, <2>2, <3>2
      <4>2. PICK p \in Quotes : /\ HasQuote(p) /\ quote[p].reference = row.reference
                                /\ quote[p].version = row.version - 1
        BY <1>1, <4>1
      <4>3. TakenIn(quote, row.reference, k)
        BY <1>0, <4>1, <4>2 DEF Chains
      <4> QED BY <1>3, <2>2, <4>3
    <3> QED BY <3>1, <3>2
  <2> QED BY <2>1, <2>2
<1>5. ASSUME NEW q \in Quotes, q # n, HasQuote(q), quote[q].reference = row.reference
      PROVE ~quote'[q].isPrimary /\ (~Live(q)' \/ q \in overtaken')
  <2>1. row.version # 1
    BY <1>0, <1>1, <1>2, <1>5, DealsAssumption DEF DealsTypeOK, QuoteRow, HasQuote
  <2>2. PICK p \in Quotes : /\ HasQuote(p) /\ quote[p].reference = row.reference
                            /\ quote[p].version = row.version - 1
                            /\ ~quote'[p].isPrimary /\ (~Live(p)' \/ p \in overtaken')
    BY <2>1
  <2>3. CASE q = p
    BY <2>2, <2>3
  <2>4. CASE q # p
    <3>1. quote[q].version # quote[p].version /\ SameChain(q, p)
      BY <1>0, <1>5, <2>2, <2>4 DEF Chains, PrimaryIsNewest, SameChain
    <3>2. quote[q].version < quote[p].version
      BY <1>1, <1>2, <1>5, <2>2, <3>1
    <3>3. ~quote[q].isPrimary
      BY <1>0, <1>1, <1>5, <2>2, <2>4, <3>1, <3>2 DEF Chains, PrimaryIsNewest
    <3>4. ~Live(q) \/ q \in overtaken
      BY <1>0, <1>5, <2>2, <3>1, <3>2 DEF Chains
    <3> QED BY <1>5, <3>3, <3>4
  <2> QED BY <2>3, <2>4
<1>6. ASSUME NEW q1 \in Quotes, NEW q2 \in Quotes, HasQuote(q1)', HasQuote(q2)', q1 # q2,
             quote'[q1].reference = quote'[q2].reference
      PROVE /\ quote'[q1].version # quote'[q2].version
            /\ quote'[q1].isPrimary => quote'[q1].version > quote'[q2].version
            /\ quote'[q1].version < quote'[q2].version => ~Live(q1)' \/ q1 \in overtaken'
  <2>1. CASE q1 = n
    BY <1>1, <1>2, <1>6, <2>1
  <2>2. CASE q2 = n
    BY <1>1, <1>2, <1>5, <1>6, <2>2
  <2>3. CASE q1 # n /\ q2 # n
    BY <1>0, <1>6, <2>3 DEF Chains, PrimaryIsNewest, SameChain
  <2> QED BY <2>1, <2>2, <2>3
<1>7. PrimaryIsNewest'
  BY <1>6 DEF PrimaryIsNewest, SameChain
<1>8. ASSUME NEW q1 \in Quotes, NEW q2 \in Quotes, HasQuote(q1)', HasQuote(q2)',
             SameChain(q1, q2)', quote'[q1].version < quote'[q2].version
      PROVE ~Live(q1)' \/ q1 \in overtaken'
  <2>1. q1 # q2
    BY <1>1, <1>8
  <2> QED BY <1>6, <1>8, <2>1 DEF SameChain
<1> QED BY <1>4, <1>7, <1>8 DEF Chains

\* A new quote keeps what the requests and the types rely on.
LEMMA QuoteAdded ==
  ASSUME DealsInv, NEW s \in Sessions, NEW n \in Quotes, ~HasQuote(n),
         quote' \in [Quotes -> QuoteRow \cup {Null}],
         \A q \in Quotes \ {n} : HasQuote(q) =>
           /\ HasQuote(q)'
           /\ quote'[q].version = quote[q].version
           /\ quote'[q].reference = quote[q].reference,
         Finish(s), UNCHANGED <<opp, made, doubled>>,
         overtaken' \subseteq AllDeals, crossed' \subseteq Quotes
  PROVE DealsFit'
<1>1. Same
  BY DEF Same, HasQuote, HasOpp
<1> QED BY <1>1, ServeEnds DEF DealsInv, DealsFit, DealsTypeOK

LEMMA CreateStep ==
  ASSUME DealsInv, NEW s \in Sessions, CommitCreate(s) PROVE DealsInv'
<1> DEFINE r == dealing[s]
           loses(q) == q \in r.sees /\ quote[q].opportunityId = r.row.opportunityId
           demoted(q) == [quote[q] EXCEPT !.isPrimary = FALSE]
<1>0. DealsTypeOK /\ r \in DealRequest /\ FitDeal(quote, r)
  BY DEF DealsInv, DealsFit, DealsTypeOK
<1>1. /\ r.d \in Quotes /\ r.row \in QuoteRow /\ r.row.version = 1 /\ ~HasQuote(r.d)
      /\ r.row.isPrimary /\ ~Taken(r.row.reference, 1)
      /\ \A q \in r.sees : q \in Quotes /\ HasQuote(q)
  BY <1>0, RequestParts DEF CommitCreate, FitDeal, HasQuote
<1>2. /\ Finish(s) /\ UNCHANGED <<opp, made, overtaken, doubled, crossed>>
      /\ overtaken \subseteq AllDeals /\ crossed \subseteq Quotes
  BY <1>0 DEF CommitCreate, DealsTypeOK
<1>3. quote' = [q \in Quotes |->
                 IF q = r.d THEN r.row ELSE IF loses(q) THEN demoted(q) ELSE quote[q]]
  BY DEF CommitCreate
<1>4. ASSUME NEW q \in Quotes, loses(q)
      PROVE /\ HasQuote(q) /\ demoted(q) \in QuoteRow /\ demoted(q) # Null
            /\ demoted(q).version = quote[q].version
            /\ demoted(q).reference = quote[q].reference
            /\ demoted(q).status = quote[q].status /\ ~demoted(q).isPrimary
  <2>1. HasQuote(q) /\ quote[q] \in QuoteRow
    BY <1>0, <1>1, <1>4 DEF HasQuote, DealsTypeOK
  <2> QED BY <2>1, NullIsNoDeal DEF QuoteRow
<1>5. PICK n \in Quotes : n = r.d
  BY <1>1
<1>6. quote'[n] = r.row /\ HasQuote(n)'
  BY <1>1, <1>3, <1>5, NullIsNoDeal DEF HasQuote
<1> HIDE DEF r, loses, demoted
<1>7. ASSUME NEW q \in Quotes \ {n}
      PROVE /\ HasQuote(q)' <=> HasQuote(q)
            /\ quote'[q] \in QuoteRow \cup {Null}
            /\ HasQuote(q) =>
                 /\ quote'[q].version = quote[q].version
                 /\ quote'[q].reference = quote[q].reference
                 /\ quote'[q].isPrimary => quote[q].isPrimary
                 /\ Live(q)' => Live(q)
  <2>1. CASE loses(q)
    BY <1>3, <1>4, <1>5, <2>1 DEF HasQuote, Live
  <2>2. CASE ~loses(q)
    BY <1>0, <1>3, <1>5, <2>2 DEF HasQuote, Live, DealsTypeOK
  <2> QED BY <2>1, <2>2
<1>8. quote' \in [Quotes -> QuoteRow \cup {Null}]
  BY <1>1, <1>3, <1>5, <1>6, <1>7
<1>9. DealsFit'
  BY <1>1, <1>2, <1>5, <1>7, <1>8, QuoteAdded
<1>10. Chains'
  BY <1>1, <1>2, <1>5, <1>6, <1>7, ChainsGrow
<1> QED BY <1>9, <1>10 DEF DealsInv

LEMMA ReviseStep ==
  ASSUME DealsInv, NEW s \in Sessions, CommitRevise(s) PROVE DealsInv'
<1> DEFINE r == dealing[s]
           ver == r.row.version + 1
           new == NewQuote(r.row.reference, ver, r.row.opportunityId, r.row.lines, r.row.value)
           old == Superseded(quote[r.d], r.row.status)
<1>0. DealsTypeOK /\ r \in DealRequest /\ FitDeal(quote, r)
  BY DEF DealsInv, DealsFit, DealsTypeOK
<1>1. PICK p \in Quotes : p = r.d
  BY <1>0, RequestParts DEF CommitRevise
<1>2. /\ r.row \in QuoteRow /\ HasQuote(p)
      /\ r.row.version < MaxVersion
      /\ r.row.version = quote[p].version /\ r.row.reference = quote[p].reference
      /\ r.row.status \in {"SENT", "REJECTED", "EXPIRED"}
      /\ ~Taken(r.row.reference, ver)
  BY <1>0, <1>1, RequestParts DEF CommitRevise, FitDeal, HasQuote
<1>3. PICK n \in Quotes :
        /\ ~HasQuote(n)
        /\ quote' = [quote EXCEPT ![p] = old, ![n] = new]
        /\ crossed' = IF r.torn \/ p \in crossed THEN crossed \cup {n} ELSE crossed
  BY <1>1 DEF CommitRevise
<1>4. /\ Finish(s) /\ UNCHANGED <<opp, made, doubled>>
      /\ overtaken' = IF quote[p].status = r.row.status THEN overtaken
                      ELSE overtaken \cup {p}
  BY <1>1 DEF CommitRevise
<1>5. /\ overtaken \subseteq overtaken' /\ overtaken' \subseteq AllDeals
      /\ crossed' \subseteq Quotes
  BY <1>0, <1>2, <1>3, <1>4 DEF DealsTypeOK, AllDeals
<1>6. ver \in 1..MaxVersion /\ ver - 1 = quote[p].version /\ ver \in Nat
  BY <1>2, DealsAssumption DEF QuoteRow
<1>7. /\ new \in QuoteRow /\ new.reference = r.row.reference /\ new.version = ver
      /\ new.isPrimary
  <2>1. /\ r.row.reference \in References /\ r.row.opportunityId \in Opportunities \cup {Null}
        /\ r.row.lines \in SUBSET Batches /\ r.row.value \in Nat
    BY <1>2 DEF QuoteRow
  <2> HIDE DEF r, ver
  <2> QED BY <1>6, <2>1 DEF NewQuote, QuoteRow, QuoteStatuses
<1>8. quote[p] \in QuoteRow
  BY <1>0, <1>2 DEF DealsTypeOK, HasQuote
<1>9. /\ old \in QuoteRow /\ old.version = quote[p].version
      /\ old.reference = quote[p].reference /\ ~old.isPrimary
      /\ old.status = IF r.row.status = "SENT" THEN "WITHDRAWN" ELSE quote[p].status
  BY <1>8, <1>1 DEF Superseded, QuoteRow, QuoteStatuses
<1> HIDE DEF r, ver, new, old
<1>10. p # n /\ quote'[n] = new /\ quote'[p] = old
      /\ \A q \in Quotes \ {p, n} : quote'[q] = quote[q]
  BY <1>0, <1>2, <1>3 DEF DealsTypeOK
<1>11. old # Null /\ new # Null
  BY <1>7, <1>9, NullIsNoDeal
<1>12. old.status \in {"DRAFT", "SENT", "ACCEPTED"} => Live(p) /\ p \in overtaken'
  BY <1>2, <1>4, <1>9 DEF Live
<1>13. ASSUME NEW q \in Quotes \ {n}
       PROVE /\ HasQuote(q)' <=> HasQuote(q)
             /\ HasQuote(q) =>
                  /\ quote'[q].version = quote[q].version
                  /\ quote'[q].reference = quote[q].reference
                  /\ quote'[q].isPrimary => quote[q].isPrimary
                  /\ Live(q)' => Live(q)
  <2>1. CASE q = p
    BY <1>2, <1>9, <1>10, <1>11, <1>12, <2>1 DEF HasQuote, Live
  <2>2. CASE q # p
    BY <1>10, <2>2 DEF HasQuote, Live
  <2> QED BY <2>1, <2>2
<1>14. quote' \in [Quotes -> QuoteRow \cup {Null}]
  BY <1>0, <1>3, <1>7, <1>9 DEF DealsTypeOK
<1>15. DealsFit'
  BY <1>3, <1>4, <1>5, <1>13, <1>14, QuoteAdded
<1>16. ~quote'[p].isPrimary /\ (~Live(p)' \/ p \in overtaken')
  BY <1>9, <1>10, <1>12 DEF Live
<1>17. ~Taken(new.reference, new.version) /\ HasQuote(n)'
  BY <1>2, <1>7, <1>10, <1>11 DEF HasQuote
<1>18. Chains'
  BY <1>2, <1>3, <1>5, <1>6, <1>7, <1>10, <1>13, <1>16, <1>17, ChainsGrow
<1> QED BY <1>15, <1>18 DEF DealsInv

LEMMA DealsKept ==
  ASSUME DealsInv, DealStep PROVE DealsInv'
BY OpportunityStep, ReadStep, EngageStep, PutStep, CreateStep, ReviseStep DEF DealStep

LEMMA LiveIsOne ==
  ASSUME DealsInv PROVE OneLiveVersion
<1> SUFFICES ASSUME NEW q1 \in Quotes, NEW q2 \in Quotes, HasQuote(q1), HasQuote(q2), q1 # q2,
                    SameChain(q1, q2), Live(q1), Live(q2)
             PROVE q1 \in overtaken \/ q2 \in overtaken
  BY DEF OneLiveVersion
<1>1. quote[q1].version \in Nat /\ quote[q2].version \in Nat
  BY DEF DealsInv, DealsFit, DealsTypeOK, HasQuote, QuoteRow
<1>2. quote[q1].version # quote[q2].version
  BY DEF DealsInv, Chains, PrimaryIsNewest
<1>3. quote[q1].version < quote[q2].version \/ quote[q2].version < quote[q1].version
  BY <1>1, <1>2
<1> QED BY <1>3 DEF DealsInv, Chains, SameChain

\* Content changes only by an edit or a replacement that had read a draft.
LEMMA ContentKept ==
  ASSUME DealsInv, DealStep, NEW q \in Quotes, HasQuote(q), ~StaleContent(q)
  PROVE /\ quote'[q].lines = quote[q].lines
        /\ quote'[q].value = quote[q].value
        /\ quote'[q].opportunityId = quote[q].opportunityId
<1> DEFINE Kept == /\ quote'[q].lines = quote[q].lines
                   /\ quote'[q].value = quote[q].value
                   /\ quote'[q].opportunityId = quote[q].opportunityId
<1>0. DealsTypeOK /\ quote[q] \in QuoteRow
  BY DEF DealsInv, DealsFit, DealsTypeOK, HasQuote
<1>1. \A s \in Sessions : FitDeal(quote, dealing[s]) /\ dealing[s] \in DealRequest
  BY DEF DealsInv, DealsFit, DealsTypeOK
<1>2. \A s \in Sessions : Finish(s) => dealing'[s] = Idle
  BY <1>0 DEF Finish, DealsTypeOK
<1>3. ASSUME NEW s \in Sessions, WriteQuoteEdit(s) PROVE Kept
  <2>1. dealing'[s] = Idle /\ dealing[s].op = "edit"
    BY <1>2, <1>3 DEF WriteQuoteEdit
  <2>2. CASE dealing[s].d # q
    BY <1>0, <1>3, <2>2 DEF WriteQuoteEdit, DealsTypeOK
  <2>3. CASE dealing[s].d = q
    <3>1. dealing[s].was # "DRAFT"
      BY <2>1, <2>3 DEF StaleContent
    <3>2. dealing[s].opportunityId = Keep
      BY <1>1, <2>1, <3>1 DEF FitDeal
    <3> QED BY <1>0, <1>3, <2>3, <3>2 DEF WriteQuoteEdit, DealsTypeOK, QuoteRow
  <2> QED BY <2>2, <2>3
<1>4. ASSUME NEW s \in Sessions, CommitLines(s) PROVE Kept
  <2>1. dealing'[s] = Idle /\ dealing[s].op = "replace" /\ dealing[s].was = "DRAFT"
    BY <1>1, <1>2, <1>4 DEF CommitLines, FitDeal
  <2>2. dealing[s].d # q
    BY <2>1 DEF StaleContent
  <2> QED BY <1>0, <1>4, <2>2 DEF CommitLines, DealsTypeOK
<1>5. ASSUME NEW s \in Sessions, CommitCreate(s) PROVE Kept
  <2>1. quote'[q] \in {quote[q], [quote[q] EXCEPT !.isPrimary = FALSE]}
    BY <1>5 DEF CommitCreate
  <2> QED BY <1>0, <2>1 DEF QuoteRow
<1>6. ASSUME NEW s \in Sessions, CommitRevise(s) PROVE Kept
  <2>1. quote'[q] \in {quote[q], Superseded(quote[q], dealing[s].row.status)}
    BY <1>0, <1>6 DEF CommitRevise, DealsTypeOK, HasQuote
  <2> QED BY <1>0, <2>1 DEF Superseded, QuoteRow
<1>7. ASSUME NEW s \in Sessions, LinkPackage(s) PROVE Kept
  <2>1. quote'[q] \in {quote[q], [quote[q] EXCEPT !.workPackageId = dealing[s].p]}
    BY <1>0, <1>7 DEF LinkPackage, DealsTypeOK
  <2> QED BY <1>0, <2>1 DEF QuoteRow
<1>8. \/ UNCHANGED quote
      \/ \E s \in Sessions : \/ WriteQuoteEdit(s) \/ CommitLines(s) \/ CommitCreate(s)
                             \/ CommitRevise(s) \/ LinkPackage(s)
  BY DEF DealStep, CreateOpportunity, ReadStage, ReadCreate, ReadQuoteEdit, ReadLines, ReadRevise,
         ReadReviseLines, ReadEngage, WriteStage, DeleteLines, MakePackage, FailDeal
<1> QED BY <1>3, <1>4, <1>5, <1>6, <1>7, <1>8

----------------------------------------------------------------------------
(* The registers together.                                                 *)

OfficeInv == DealsInv /\ CablingInv /\ LogInv

LEMMA DealsStart ==
  ASSUME DealsInit PROVE DealsInv
<1>1. DealsTypeOK
  BY DEF DealsInit, DealsTypeOK, DealRequest, Idle
<1>2. \A q \in Quotes : ~HasQuote(q)
  BY DEF DealsInit, HasQuote
<1>3. Chains
  BY <1>2 DEF Chains, PrimaryIsNewest
<1>4. \A s \in Sessions : dealing[s].op = "idle"
  BY DEF DealsInit, Idle
<1> QED BY <1>1, <1>3, <1>4 DEF DealsInv, DealsFit, FitDeal

LEMMA OfficeStart == OfficeInit => OfficeInv
<1> SUFFICES ASSUME OfficeInit PROVE OfficeInv
  OBVIOUS
<1>1. CablingInv
  <2>1. CablingTypeOK
    BY DEF OfficeInit, CablingInit, CablingTypeOK, WiringRequest, Idle
  <2>2. /\ \A p \in Ports : ~HasPort(p) /\ \A c \in Cables : ~HasCable(c)
        /\ \A s \in Sessions : wiring[s].op = "idle"
    BY DEF OfficeInit, CablingInit, HasPort, HasCable, Idle
  <2> QED BY <2>1, <2>2 DEF CablingInv, EndsMatch, OfficeInit, CablingInit, HasPort, HasCable
<1>2. LogInv
  <2>1. LogTypeOK
    BY DEF OfficeInit, LogInit, LogTypeOK, LogRequest, Idle
  <2>2. \A a \in Machines : Entries(a) = {} /\ last[a] = Null
    BY DEF OfficeInit, LogInit, Entries, HasLog
  <2> QED BY <2>1, <2>2 DEF LogInv, LastIsLatest, IsLatest
<1> QED BY <1>1, <1>2, DealsStart DEF OfficeInit, OfficeInv

LEMMA OfficeStays == OfficeInv /\ [OfficeNext]_officeVars => OfficeInv'
<1> SUFFICES ASSUME OfficeInv, [OfficeNext]_officeVars PROVE OfficeInv'
  OBVIOUS
<1>1. DealsInv'
  <2>1. ASSUME UNCHANGED dealVars PROVE DealsInv'
    BY <2>1 DEF dealVars, OfficeInv, DealsInv, DealsFit, DealsTypeOK, FitDeal, HasOpp, Chains,
                TakenIn, HasQuote, PrimaryIsNewest, SameChain, Live
  <2> QED BY <2>1, DealsKept DEF OfficeInv, OfficeNext, officeVars
<1>2. CablingInv'
  <2>1. ASSUME UNCHANGED cablingVars PROVE CablingInv'
    BY <2>1 DEF cablingVars, OfficeInv, CablingInv, CablingTypeOK, EndsMatch, HasPort, HasCable,
                OnAsset, AtHome
  <2> QED BY <2>1, CablingKept DEF OfficeInv, OfficeNext, officeVars
<1>3. LogInv'
  <2>1. ASSUME UNCHANGED logVars PROVE LogInv'
    BY <2>1 DEF logVars, OfficeInv, LogInv, LogTypeOK, LastIsLatest, Entries, HasLog, Pending
  <2> QED BY <2>1, LogTypes, LatestKept DEF OfficeInv, LogInv, OfficeNext, officeVars
<1> QED BY <1>1, <1>2, <1>3 DEF OfficeInv

LEMMA OfficeAlways == OfficeSpec => []OfficeInv
BY OfficeStart, OfficeStays, PTL DEF OfficeSpec

\* The rows and the requests of the registers keep their types.
THEOREM OfficeTyped == OfficeSpec => []OfficeTypeOK
<1>1. OfficeInv => OfficeTypeOK
  BY DEF OfficeInv, OfficeTypeOK, DealsInv, DealsFit, CablingInv, LogInv
<1> QED BY <1>1, OfficeAlways, PTL

\* Two versions of a quote are live only where a status was overwritten.
THEOREM OneVersionLives == OfficeSpec => []OneLiveVersion
<1>1. OfficeInv => OneLiveVersion
  BY LiveIsOne DEF OfficeInv
<1> QED BY <1>1, OfficeAlways, PTL

\* Only the newest version of a reference is primary.
THEOREM NewestIsPrimary == OfficeSpec => []PrimaryIsNewest
<1>1. OfficeInv => PrimaryIsNewest
  BY DEF OfficeInv, DealsInv, Chains
<1> QED BY <1>1, OfficeAlways, PTL

\* What a quote says changes after DRAFT only by a request that read a draft.
THEOREM SentQuotesStay == OfficeSpec => SentQuotesAreFrozen
<1>1. OfficeInv /\ [OfficeNext]_officeVars =>
        [\A q \in Quotes :
           /\ HasQuote(q) /\ quote[q].status # "DRAFT"
           /\ \/ quote'[q].lines # quote[q].lines
              \/ quote'[q].value # quote[q].value
              \/ quote'[q].opportunityId # quote[q].opportunityId
           => StaleContent(q)]_dealVars
  <2> SUFFICES ASSUME OfficeInv, [OfficeNext]_officeVars, dealVars' # dealVars,
                      NEW q \in Quotes, HasQuote(q), ~StaleContent(q)
               PROVE /\ quote'[q].lines = quote[q].lines
                     /\ quote'[q].value = quote[q].value
                     /\ quote'[q].opportunityId = quote[q].opportunityId
    OBVIOUS
  <2>1. DealStep
    BY DEF OfficeNext, officeVars
  <2> QED BY <2>1, ContentKept DEF OfficeInv
<1> QED BY <1>1, OfficeAlways, PTL DEF OfficeSpec, SentQuotesAreFrozen

\* Pairs stay mutual, but for a pairing written from a stale read.
THEOREM PairsKept == OfficeSpec => PairsStayMutual
<1>1. OfficeInv /\ [OfficeNext]_officeVars =>
        [Mutual /\ ~StalePairing => Mutual']_cablingVars
  <2> SUFFICES ASSUME OfficeInv, [OfficeNext]_officeVars, cablingVars' # cablingVars,
                      Mutual, ~StalePairing
               PROVE Mutual'
    OBVIOUS
  <2>1. CablingStep
    BY DEF OfficeNext, officeVars
  <2> QED BY <2>1, MutualKept DEF OfficeInv
<1> QED BY <1>1, OfficeAlways, PTL DEF OfficeSpec, PairsStayMutual

\* A cable ends at ports of its two assets.
THEOREM CablesEndAtTheirAssets == OfficeSpec => []EndsMatch
<1>1. OfficeInv => EndsMatch
  BY DEF OfficeInv, CablingInv
<1> QED BY <1>1, OfficeAlways, PTL

\* The last maintenance is the latest entry of the log, but for races and crashes.
THEOREM LastMaintenanceIsRight == OfficeSpec => []LastIsLatest
<1>1. OfficeInv => LastIsLatest
  BY DEF OfficeInv, LogInv
<1> QED BY <1>1, OfficeAlways, PTL

----------------------------------------------------------------------------
(* The trace: a walk follows every hop, until it ends or is cut off.       *)

\* There are finitely many cables, whatever the ids to come.
CablesFinite == IsFiniteSet({c \in Cables : HasCable(c)})

\* A port with one cable at most: any two ends there are of the same cable.
LEMMA OnlyCable ==
  ASSUME CablesFinite, OneCableEach, NEW p \in Ports,
         NEW c \in From(p) \cup To(p), NEW d \in From(p) \cup To(p)
  PROVE  c = d
<1> DEFINE S == From(p) \cup To(p)
<1>1. IsFiniteSet(S) /\ Cardinality(S) <= 1
  <2>1. S \subseteq {e \in Cables : HasCable(e)}
    BY DEF From, To
  <2> HIDE DEF S
  <2> QED BY <2>1, FS_Subset DEF CablesFinite, OneCableEach, S
<1>2. c \in S /\ d \in S
  OBVIOUS
<1> HIDE DEF S
<1>3. IsFiniteSet(S \ {c}) /\ Cardinality(S \ {c}) = Cardinality(S) - 1 /\ Cardinality(S) \in Nat
  BY <1>1, <1>2, FS_RemoveElement, FS_CardinalityType
<1>4. Cardinality(S \ {c}) = 0
  <2>1. Cardinality(S \ {c}) \in Nat
    BY <1>3, FS_CardinalityType
  <2> QED BY <1>1, <1>3, <2>1
<1>5. S \ {c} = {}
  BY <1>3, <1>4, FS_EmptySet
<1> QED BY <1>2, <1>5

Steps == {"cable", "through"}

NextHop(step, p) == IF step = "cable" THEN CableHop(p) ELSE ThroughHop(p)

\* The ports and cables as the trace expects them.
Traceable == CablingTypeOK /\ CablesFinite /\ Mutual /\ OneCableEach

\* A hop leads back to where it came from.
LEMMA HopReturns ==
  ASSUME Traceable, NEW p \in Ports, NEW step \in Steps, NEW u,
         NextHop(step, p) # <<>>, u = NextHop(step, p)[1], u # Null
  PROVE  u \in Ports /\ NextHop(step, u) = <<p>>
<1>0. p # Null
  BY CablingAssumption
<1>1. CASE step = "through"
  <2>1. u = Through(p)
    BY <1>1 DEF NextHop, ThroughHop
  <2>2. u \in Ports
    BY <2>1 DEF Through, HasPort, Traceable, CablingTypeOK, PortRow
  <2>3. Through(u) = p
    BY <2>1 DEF Traceable, Mutual
  <2> QED BY <1>0, <1>1, <2>2, <2>3 DEF NextHop, ThroughHop
<1>2. CASE step = "cable"
  <2>1. ASSUME NEW c \in Cables, HasCable(c)
        PROVE  /\ cable[c].fromPortId \in Ports \cup {Null}
               /\ cable[c].toPortId \in Ports \cup {Null}
    BY <2>1 DEF HasCable, Traceable, CablingTypeOK, CableRow
  <2>2. CASE From(p) # {}
    <3>1. PICK c : c = CHOOSE e \in From(p) : TRUE
      OBVIOUS
    <3>2. c \in From(p)
      BY <2>2, <3>1
    <3>3. u = cable[c].toPortId
      BY <1>2, <2>2, <3>1 DEF NextHop, CableHop
    <3>4. c \in Cables /\ HasCable(c) /\ cable[c].fromPortId = p
      BY <3>2 DEF From
    <3>5. u \in Ports /\ c \in To(u)
      BY <2>1, <3>3, <3>4 DEF To
    <3>6. CASE From(u) # {}
      <4>1. PICK d : d = CHOOSE e \in From(u) : TRUE
        OBVIOUS
      <4>2. d \in From(u)
        BY <3>6, <4>1
      <4>3. d = c
        BY <3>5, <4>2, OnlyCable DEF Traceable
      <4>4. u = p
        BY <3>4, <4>2, <4>3 DEF From
      <4>5. NextHop(step, u) = <<cable[d].toPortId>>
        BY <1>2, <3>6, <4>1 DEF NextHop, CableHop
      <4> QED BY <3>3, <3>5, <4>3, <4>4, <4>5
    <3>7. CASE From(u) = {}
      <4>1. PICK d : d = CHOOSE e \in To(u) : TRUE
        OBVIOUS
      <4>2. d \in To(u)
        BY <3>5, <4>1
      <4>3. d = c
        BY <3>5, <4>2, OnlyCable DEF Traceable
      <4>4. NextHop(step, u) = <<cable[d].fromPortId>>
        BY <1>2, <3>5, <3>7, <4>1 DEF NextHop, CableHop
      <4> QED BY <3>4, <3>5, <4>3, <4>4
    <3> QED BY <3>6, <3>7
  <2>3. CASE From(p) = {} /\ To(p) # {}
    <3>1. PICK c : c = CHOOSE e \in To(p) : TRUE
      OBVIOUS
    <3>2. c \in To(p)
      BY <2>3, <3>1
    <3>3. u = cable[c].fromPortId
      BY <1>2, <2>3, <3>1 DEF NextHop, CableHop
    <3>4. c \in Cables /\ HasCable(c) /\ cable[c].toPortId = p
      BY <3>2 DEF To
    <3>5. u \in Ports /\ c \in From(u)
      BY <2>1, <3>3, <3>4 DEF From
    <3>6. PICK d : d = CHOOSE e \in From(u) : TRUE
      OBVIOUS
    <3>7. d \in From(u)
      BY <3>5, <3>6
    <3>8. d = c
      BY <3>5, <3>7, OnlyCable DEF Traceable
    <3>9. NextHop(step, u) = <<cable[d].toPortId>>
      BY <1>2, <3>5, <3>6 DEF NextHop, CableHop
    <3> QED BY <3>4, <3>5, <3>8, <3>9
  <2>4. CASE From(p) = {} /\ To(p) = {}
    BY <1>2, <2>4 DEF NextHop, CableHop
  <2> QED BY <2>2, <2>3, <2>4
<1> QED BY <1>1, <1>2 DEF Steps

\* The hop from v, if there is one, ends at an asset or in the set.
Inside(set, step, v) ==
  NextHop(step, v) = <<>> \/ NextHop(step, v)[1] \in set \cup {Null}

Closed(set) == \A v \in set, step \in Steps : Inside(set, step, v)

\* Whatever can be reached from a port of the set leads to p.
LeadsTo(set, p) == \A K \in SUBSET Ports : Closed(K) /\ K \cap set # {} => p \in K

WalkState ==
  [at : Ports, step : Steps, visited : SUBSET Ports, hops : Nat,
   ended : BOOLEAN, truncated : BOOLEAN]

\* After n hops of a walk: only the port it stands at, and those in spared, may have
\* a hop that it has not followed, and once it has ended it stands at none.
WalkOK(w, p, spared, n) ==
  /\ w \in WalkState /\ w.at \in w.visited /\ p \in w.visited
  /\ LeadsTo(w.visited, p)
  /\ ~w.ended => w.hops = n /\ n < HopCap /\ ~w.truncated
  /\ ~w.truncated =>
       \A v \in w.visited, step \in Steps :
         \/ Inside(w.visited, step, v)
         \/ step = "through" /\ v \in spared
         \/ ~w.ended /\ step = w.step /\ v = w.at

\* The loop invariant of the walk: one more hop keeps it.
LEMMA HopOK ==
  ASSUME Traceable, NEW p \in Ports, NEW spared, NEW n \in Nat, NEW w,
         WalkOK(w, p, spared, n)
  PROVE  WalkOK(Hop(w), p, spared, n + 1)
<1>0. PICK next, hop : next = Hop(w) /\ hop = NextHop(w.step, w.at)
  OBVIOUS
<1> SUFFICES WalkOK(next, p, spared, n + 1)
  BY <1>0
<1>1. /\ w \in WalkState /\ w.at \in Ports /\ w.step \in Steps /\ w.visited \in SUBSET Ports
      /\ w.at \in w.visited /\ w.hops \in Nat /\ w.ended \in BOOLEAN /\ w.truncated \in BOOLEAN
  BY DEF WalkOK, WalkState
<1>2. CASE w.ended \/ hop = <<>> \/ (hop # <<>> /\ hop[1] \in w.visited \cup {Null})
  <2>1. next = [w EXCEPT !.ended = TRUE]
    BY <1>0, <1>2 DEF Hop, NextHop
  <2>2. /\ next \in WalkState /\ next.at = w.at /\ next.visited = w.visited /\ next.ended
        /\ next.truncated = w.truncated /\ next.step = w.step
    BY <1>1, <2>1 DEF WalkState
  <2>3. ~w.ended => Inside(w.visited, w.step, w.at)
    BY <1>0, <1>2 DEF Inside
  <2>4. ~next.truncated =>
          \A v \in next.visited, step \in Steps :
            Inside(next.visited, step, v) \/ (step = "through" /\ v \in spared)
    BY <2>2, <2>3 DEF WalkOK
  <2> QED BY <2>2, <2>4 DEF WalkOK
<1>3. CASE ~w.ended /\ hop # <<>> /\ hop[1] \notin w.visited \cup {Null}
  <2>1. PICK u : u = hop[1]
    OBVIOUS
  <2>2. u \in Ports /\ NextHop(w.step, u) = <<w.at>> /\ u \notin w.visited
    BY <1>0, <1>1, <1>3, <2>1, HopReturns
  <2>3. next = [at |-> u, step |-> Other(w.step), visited |-> w.visited \cup {u},
                hops |-> w.hops + 1, ended |-> w.hops + 1 >= HopCap,
                truncated |-> w.hops + 1 >= HopCap]
    BY <1>0, <1>3, <2>1 DEF Hop, NextHop
  <2>4. PICK more : more = w.visited \cup {u}
    OBVIOUS
  <2>5. /\ next.at = u /\ next.step = Other(w.step) /\ next.visited = more
        /\ next.hops = w.hops + 1 /\ next.ended = (w.hops + 1 >= HopCap)
        /\ next.truncated = (w.hops + 1 >= HopCap)
    BY <2>3, <2>4
  <2>6. Other(w.step) \in Steps /\ Other(w.step) # w.step
    BY <1>1 DEF Other, Steps
  <2>7. next \in WalkState
    BY <1>1, <2>2, <2>3, <2>6 DEF WalkState
  <2>8. LeadsTo(more, p)
    <3> SUFFICES ASSUME NEW K \in SUBSET Ports, Closed(K), K \cap more # {}
                 PROVE  p \in K
      BY DEF LeadsTo
    <3>1. CASE u \in K
      <4>1. Inside(K, w.step, u)
        BY <1>1, <3>1 DEF Closed
      <4>2. w.at \in K
        BY <1>1, <2>2, <4>1, CablingAssumption DEF Inside
      <4> QED BY <1>1, <4>2 DEF WalkOK, LeadsTo
    <3>2. CASE u \notin K
      BY <2>4, <3>2 DEF WalkOK, LeadsTo
    <3> QED BY <3>1, <3>2
  <2>9. w.hops = n /\ ~w.truncated
    BY <1>3 DEF WalkOK
  <2>10. ~next.ended => next.hops = n + 1 /\ n + 1 < HopCap /\ ~next.truncated
    <3>1. CASE n + 1 >= HopCap
      BY <2>5, <2>9, <3>1
    <3>2. CASE ~(n + 1 >= HopCap)
      <4>1. ~next.truncated /\ next.hops = n + 1
        BY <2>5, <2>9, <3>2
      <4> QED BY <3>2, <4>1, CablingAssumption
    <3> QED BY <3>1, <3>2
  <2>11. ASSUME ~next.truncated, NEW v \in more, NEW step \in Steps
         PROVE  \/ Inside(more, step, v)
                \/ step = "through" /\ v \in spared
                \/ ~next.ended /\ step = next.step /\ v = next.at
    <3>1. ~next.ended
      BY <2>5, <2>11
    <3>2. CASE v = u
      <4>1. step = w.step => Inside(more, step, v)
        BY <1>1, <2>2, <2>4, <3>2 DEF Inside
      <4>2. step # w.step => step = next.step
        BY <1>1, <2>5 DEF Other, Steps
      <4> QED BY <2>5, <3>1, <3>2, <4>1, <4>2
    <3>3. CASE v = w.at /\ step = w.step
      <4>1. Inside(more, step, v)
        BY <1>0, <2>1, <2>4, <3>3 DEF Inside
      <4> QED BY <4>1
    <3>4. CASE v # u /\ ~(v = w.at /\ step = w.step)
      <4>1. v \in w.visited
        BY <2>4, <3>4
      <4>2. Inside(w.visited, step, v) \/ (step = "through" /\ v \in spared)
        BY <2>9, <3>4, <4>1 DEF WalkOK
      <4>3. Inside(w.visited, step, v) => Inside(more, step, v)
        BY <2>4 DEF Inside
      <4> QED BY <4>2, <4>3
    <3> QED BY <3>2, <3>3, <3>4
  <2> QED BY <2>4, <2>5, <2>7, <2>8, <2>10, <2>11 DEF WalkOK
<1> QED BY <1>0, <1>2, <1>3

\* The walk as a function of the number of hops, up to m.
IsWalk(p, first, visited, m, f) ==
  f = [n \in 0 .. m |->
         IF n = 0 THEN [at |-> p, step |-> first, visited |-> visited,
                        hops |-> 0, ended |-> FALSE, truncated |-> FALSE]
         ELSE Hop(f[n - 1])]

Walks(p, first, visited, m) == \E f : IsWalk(p, first, visited, m, f)

\* A set of naturals that is not empty has a least element.
LEMMA LeastOf ==
  ASSUME NEW S \in SUBSET Nat, S # {}
  PROVE  \E n \in S : \A k \in S : n <= k
<1>1. PICK n \in S : \A k \in S : ~(<<k, n>> \in OpToRel(<, Nat))
  BY WFMin, NatLessThanWellFounded
<1>2. ASSUME NEW k \in S PROVE n <= k
  <2>1. k \in Nat /\ n \in Nat /\ ~(k < n) BY <1>1 DEF OpToRel
  <2> QED BY <2>1
<1> QED BY <1>2

\* A walk of m hops can be drawn out to one of m + 1.
LEMMA WalksGrow ==
  ASSUME NEW p, NEW first, NEW visited, NEW m \in Nat, Walks(p, first, visited, m)
  PROVE  Walks(p, first, visited, m + 1)
<1>1. PICK f : IsWalk(p, first, visited, m, f)
  BY DEF Walks
<1> DEFINE start == [at |-> p, step |-> first, visited |-> visited,
                     hops |-> 0, ended |-> FALSE, truncated |-> FALSE]
           step(w) == Hop(w)
           g == [n \in 0 .. m + 1 |-> IF n = m + 1 THEN step(f[m]) ELSE f[n]]
<1> HIDE DEF start, step
<1>2. \A n \in 0 .. m : f[n] = IF n = 0 THEN start ELSE step(f[n - 1])
  BY <1>1 DEF IsWalk, start, step
<1>3. ASSUME NEW n \in 0 .. m + 1
      PROVE  g[n] = IF n = 0 THEN start ELSE step(g[n - 1])
  <2>1. CASE n = m + 1
    <3>1. m \in 0 .. m + 1 /\ n # 0 /\ n - 1 = m /\ m # m + 1
      BY <2>1
    <3>2. g[m] = f[m] /\ g[n] = step(f[m])
      BY <2>1, <3>1
    <3> HIDE DEF g
    <3> QED BY <3>1, <3>2
  <2>2. CASE n # m + 1
    <3>1. n \in 0 .. m /\ g[n] = f[n]
      BY <2>2
    <3>2. n # 0 => n - 1 \in 0 .. m + 1 /\ n - 1 # m + 1
      BY <3>1
    <3>3. n # 0 => g[n - 1] = f[n - 1]
      BY <3>2
    <3> HIDE DEF g
    <3> QED BY <1>2, <3>1, <3>3
  <2> QED BY <2>1, <2>2
<1>4. g = [n \in 0 .. m + 1 |-> g[n]]
  OBVIOUS
<1>5. IsWalk(p, first, visited, m + 1, g)
  <2> HIDE DEF g
  <2> QED BY <1>3, <1>4 DEF IsWalk, start, step
<1> HIDE DEF g
<1> QED BY <1>5 DEF Walks

\* The recursive function in the definition of Walk exists.
LEMMA WalksExist ==
  ASSUME NEW p, NEW first, NEW visited, NEW m \in Nat
  PROVE  Walks(p, first, visited, m)
<1> DEFINE S == {k \in Nat : ~Walks(p, first, visited, k)}
<1>1. Walks(p, first, visited, 0)
  <2> DEFINE f == [n \in 0 .. 0 |->
                     [at |-> p, step |-> first, visited |-> visited,
                      hops |-> 0, ended |-> FALSE, truncated |-> FALSE]]
  <2>1. IsWalk(p, first, visited, 0, f)
    BY DEF IsWalk
  <2> HIDE DEF f
  <2> QED BY <2>1 DEF Walks
<1>2. SUFFICES ASSUME S # {} PROVE FALSE
  OBVIOUS
<1>3. PICK k \in S : \A j \in S : k <= j
  <2>1. S \in SUBSET Nat OBVIOUS
  <2> HIDE DEF S
  <2> QED BY <2>1, <1>2, LeastOf
<1>4. k \in Nat \ {0} /\ ~Walks(p, first, visited, k)
  BY <1>1
<1>5. k - 1 \in Nat /\ k - 1 \notin S /\ (k - 1) + 1 = k
  BY <1>3, <1>4
<1> QED BY <1>4, <1>5, WalksGrow

\* A walk that starts well ends well.
LEMMA WalkEnds ==
  ASSUME Traceable, NEW p \in Ports, NEW first \in Steps, NEW visited, NEW spared,
         WalkOK([at |-> p, step |-> first, visited |-> visited,
                 hops |-> 0, ended |-> FALSE, truncated |-> FALSE], p, spared, 0),
         NEW w, w = Walk(p, first, visited)
  PROVE  WalkOK(w, p, spared, HopCap)
<1> DEFINE start == [at |-> p, step |-> first, visited |-> visited,
                     hops |-> 0, ended |-> FALSE, truncated |-> FALSE]
           Folds(f) == f = [n \in 0 .. HopCap |-> IF n = 0 THEN start ELSE Hop(f[n - 1])]
           chosen == CHOOSE f : Folds(f)
<1>0. HopCap \in Nat
  BY CablingAssumption
<1>1. Folds(chosen)
  <2>1. \E f : Folds(f)
    <3>1. Walks(p, first, visited, HopCap)
      BY <1>0, WalksExist
    <3>2. PICK f : IsWalk(p, first, visited, HopCap, f)
      BY <3>1 DEF Walks
    <3>3. Folds(f)
      BY <3>2 DEF IsWalk
    <3> HIDE DEF Folds
    <3> QED BY <3>3
  <2> HIDE DEF Folds
  <2> QED BY <2>1
<1>2. w = chosen[HopCap]
  BY DEF Walk
<1>3. \A n \in 0 .. HopCap : chosen[n] = IF n = 0 THEN start ELSE Hop(chosen[n - 1])
  <2> HIDE DEF chosen, start
  <2> QED BY <1>1
<1>4. WalkOK(start, p, spared, 0)
  OBVIOUS
<1> HIDE DEF chosen, start, Folds
<1> DEFINE S == {n \in 0 .. HopCap : ~WalkOK(chosen[n], p, spared, n)}
<1>5. SUFFICES ASSUME S # {} PROVE FALSE
  <2>1. HopCap \in 0 .. HopCap
    BY <1>0
  <2> QED BY <1>2, <1>5, <2>1
<1>6. PICK m \in S : \A k \in S : m <= k
  <2>1. S \in SUBSET Nat OBVIOUS
  <2> HIDE DEF S
  <2> QED BY <2>1, <1>5, LeastOf
<1>7. m \in 0 .. HopCap /\ ~WalkOK(chosen[m], p, spared, m)
  OBVIOUS
<1>8. m # 0
  <2>1. 0 \in 0 .. HopCap
    BY <1>0
  <2>2. chosen[0] = start
    BY <1>3, <2>1
  <2> QED BY <1>4, <1>7, <2>2
<1>9. m - 1 \in 0 .. HopCap /\ m - 1 \in Nat /\ m - 1 \notin S /\ (m - 1) + 1 = m
  BY <1>0, <1>6, <1>7, <1>8
<1>10. WalkOK(chosen[m - 1], p, spared, m - 1)
  BY <1>9
<1>11. chosen[m] = Hop(chosen[m - 1])
  BY <1>3, <1>7, <1>8
<1>12. WalkOK(chosen[m], p, spared, m)
  BY <1>9, <1>10, <1>11, HopOK
<1> QED BY <1>7, <1>12

\* The whole trace: all that is connected to the port, and nothing else.
LEMMA TraceIsComponent ==
  ASSUME Traceable, NEW p \in Ports, ~Trace(p).truncated,
         NEW ports, ports = Trace(p).ports
  PROVE  p \in ports /\ ports \in SUBSET Ports /\ Closed(ports) /\ LeadsTo(ports, p)
<1>1. PICK right : right = Walk(p, "cable", {p})
  OBVIOUS
<1>2. PICK left : left = Walk(p, "through", right.visited)
  OBVIOUS
<1>3. ports = left.visited /\ ~left.truncated /\ ~right.truncated
  BY <1>1, <1>2 DEF Trace
<1>4. HopCap \in Nat /\ 0 < HopCap /\ {"cable", "through"} = Steps
  BY CablingAssumption DEF Steps
<1>5. WalkOK(right, p, {p}, HopCap)
  <2> DEFINE start == [at |-> p, step |-> "cable", visited |-> {p},
                       hops |-> 0, ended |-> FALSE, truncated |-> FALSE]
  <2>1. start \in WalkState
    BY DEF WalkState, Steps
  <2>2. /\ start.at = p /\ start.step = "cable" /\ start.visited = {p} /\ start.hops = 0
        /\ ~start.ended /\ ~start.truncated
    OBVIOUS
  <2> HIDE DEF start
  <2>3. LeadsTo({p}, p)
    BY DEF LeadsTo
  <2>4. WalkOK(start, p, {p}, 0)
    BY <1>4, <2>1, <2>2, <2>3 DEF WalkOK, Steps
  <2> QED BY <1>1, <1>4, <2>4, WalkEnds DEF start
<1>6. /\ right \in WalkState /\ p \in right.visited /\ LeadsTo(right.visited, p)
      /\ right.ended /\ right.visited \in SUBSET Ports
  BY <1>4, <1>5 DEF WalkOK, WalkState
<1>7. WalkOK(left, p, {}, HopCap)
  <2> DEFINE start == [at |-> p, step |-> "through", visited |-> right.visited,
                       hops |-> 0, ended |-> FALSE, truncated |-> FALSE]
  <2>1. start \in WalkState
    BY <1>6 DEF WalkState, Steps
  <2>2. /\ start.at = p /\ start.step = "through" /\ start.visited = right.visited
        /\ start.hops = 0 /\ ~start.ended /\ ~start.truncated
    OBVIOUS
  <2> HIDE DEF start
  <2>3. ASSUME NEW v \in right.visited, NEW step \in Steps
        PROVE  Inside(right.visited, step, v) \/ (step = "through" /\ v = p)
    BY <1>3, <1>5, <1>6 DEF WalkOK
  <2>4. WalkOK(start, p, {}, 0)
    BY <1>4, <1>6, <2>1, <2>2, <2>3 DEF WalkOK
  <2> QED BY <1>2, <1>4, <2>4, WalkEnds DEF start
<1>8. left.ended
  BY <1>4, <1>7 DEF WalkOK
<1>9. Closed(left.visited)
  BY <1>3, <1>7, <1>8 DEF WalkOK, Closed
<1> QED BY <1>3, <1>7, <1>9 DEF WalkOK, WalkState

\* Of two ports one shows the other: what leads to the one is closed around the other.
LEMMA AgreeingTraces ==
  ASSUME CablingTypeOK, CablesFinite
  PROVE  TracesAgree
<1> SUFFICES ASSUME Mutual, OneCableEach, NEW p \in Ports, NEW q \in Ports,
                    q \in Trace(p).ports, ~Trace(p).truncated, ~Trace(q).truncated
             PROVE  p \in Trace(q).ports
  BY DEF TracesAgree
<1>1. Traceable
  BY DEF Traceable
<1>2. PICK here, there : here = Trace(p).ports /\ there = Trace(q).ports
  OBVIOUS
<1>3. LeadsTo(here, p)
  BY <1>1, <1>2, TraceIsComponent
<1>4. q \in there /\ there \in SUBSET Ports /\ Closed(there)
  BY <1>1, <1>2, TraceIsComponent
<1> QED BY <1>2, <1>3, <1>4 DEF LeadsTo

----------------------------------------------------------------------------
(* The registry adds cables one at a time.                                 *)

\* A step of the registry adds one cable at most.
LEMMA CablesStayFinite ==
  ASSUME OfficeInv, CablesFinite, [OfficeNext]_officeVars
  PROVE  CablesFinite'
<1> DEFINE S == {c \in Cables : HasCable(c)}
<1>1. ASSUME NEW c, S' \subseteq S \cup {c} PROVE CablesFinite'
  <2>1. IsFiniteSet(S \cup {c})
    BY FS_AddElement DEF CablesFinite
  <2> HIDE DEF S
  <2>2. IsFiniteSet(S')
    BY <1>1, <2>1, FS_Subset
  <2> QED BY <2>2 DEF CablesFinite, S
<1>2. cable \in [Cables -> CableRow \cup {Null}]
  BY DEF OfficeInv, CablingInv, CablingTypeOK
<1>3. CASE UNCHANGED cable
  BY <1>3 DEF CablesFinite, HasCable
<1>4. ASSUME NEW c, NEW row, cable' = [cable EXCEPT ![c] = row] PROVE CablesFinite'
  <2>1. S' \subseteq S \cup {c}
    BY <1>2, <1>4 DEF HasCable
  <2> QED BY <1>1, <2>1
<1>5. ASSUME NEW p \in Ports, RemovePort(p) PROVE CablesFinite'
  <2>1. \A c \in Cables : cable[c] = Null => cable'[c] = Null
    BY <1>5 DEF RemovePort, HasCable
  <2>2. S' \subseteq S
    BY <2>1 DEF HasCable
  <2> QED BY <1>1, <2>2
<1>6. CASE CablingStep
  <2>1. ASSUME NEW p \in Ports, CreatePort(p) PROVE CablesFinite'
    BY <1>3, <2>1 DEF CreatePort
  <2>2. ASSUME NEW c \in Cables, RemoveCable(c) PROVE CablesFinite'
    BY <1>4, <2>2 DEF RemoveCable
  <2>3. ASSUME NEW c \in Cables, NEW row \in CableRow, CreateCable(c, row) PROVE CablesFinite'
    BY <1>4, <2>3 DEF CreateCable
  <2>4. ASSUME NEW s \in Sessions, WriteCable(s) PROVE CablesFinite'
    BY <1>4, <2>4 DEF WriteCable
  <2>5. ASSUME NEW s \in Sessions,
               ReadPeer(s) \/ CommitPair(s) \/ CommitClear(s) \/ FailWiring(s)
        PROVE  CablesFinite'
    BY <1>3, <2>5 DEF ReadPeer, CommitPair, CommitClear, FailWiring
  <2>6. ASSUME NEW s \in Sessions, NEW a \in Ports,
               ReadClear(s, a) \/ \E b \in Ports : ReadPair(s, a, b)
        PROVE  CablesFinite'
    BY <1>3, <2>6 DEF ReadClear, ReadPair
  <2>7. ASSUME NEW s \in Sessions, NEW c \in Cables, NEW patch \in Patch, ReadCable(s, c, patch)
        PROVE  CablesFinite'
    BY <1>3, <2>7 DEF ReadCable
  <2> QED BY <1>5, <1>6, <2>1, <2>2, <2>3, <2>4, <2>5, <2>6, <2>7 DEF CablingStep
<1>7. CASE UNCHANGED cablingVars
  BY <1>3, <1>7 DEF cablingVars
<1> QED BY <1>6, <1>7 DEF OfficeNext, officeVars

\* While pairs are mutual and no port has two cables, the ports that a complete trace
\* shows have the port it started from on theirs, for any ports, cables and cap.
THEOREM TracesShowOnePath == OfficeSpec => []TracesAgree
<1>1. OfficeInit => CablesFinite
  <2> SUFFICES ASSUME OfficeInit PROVE CablesFinite
    OBVIOUS
  <2>1. {c \in Cables : HasCable(c)} = {}
    BY DEF OfficeInit, CablingInit, HasCable
  <2> QED BY <2>1, FS_EmptySet DEF CablesFinite
<1>2. OfficeInv /\ CablesFinite /\ [OfficeNext]_officeVars => CablesFinite'
  BY CablesStayFinite
<1>3. OfficeInv /\ CablesFinite => TracesAgree
  BY AgreeingTraces DEF OfficeInv, CablingInv
<1> QED BY OfficeStart, OfficeStays, <1>1, <1>2, <1>3, PTL DEF OfficeSpec
=============================================================================
