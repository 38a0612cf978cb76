---------------------------- MODULE Maintenance ----------------------------
(***************************************************************************)
(* The maintenance log, and the last maintenance kept on each asset.       *)
(*   maintenance.service.ts, schema.prisma (MaintenanceLog)                *)
(*                                                                         *)
(* Every change of the log is followed by a refresh of the assets it       *)
(* touched: the latest entry is read, then the asset is written, none of   *)
(* it in a transaction.                                                    *)
(* Left out: work types, notes, next due dates, the audit trail, and the   *)
(* deletion of an asset with its log.                                      *)
(***************************************************************************)
EXTENDS Registers, Naturals

CONSTANTS
  Machines,   \* assets
  Logs,       \* ids of the log entries there may be
  Dates       \* dates of maintenance

ASSUME MaintenanceAssumption ==
  /\ Dates \subseteq Nat
  /\ Null # Keep /\ {Null, Keep} \cap (Machines \cup Dates) = {}

VARIABLES
  log,        \* entries; Null for one that does not exist
  last,       \* lastMaintenanceAt of each asset
  logging,    \* the request each session serves
  astray      \* history: assets whose last maintenance a race or a crash left wrong

logVars == <<log, last, logging, astray>>

LogRow == [assetId : Machines, performedAt : Dates]

ASSUME NullIsNoLog == Null \notin LogRow

HasLog(l) == log[l] # Null

LogRequest ==
  [op : {"idle"}]
  \cup [op : {"update"}, l : Logs, was : Machines, row : LogRow]
  \cup [op : {"remove"}, l : Logs, was : Machines]
  \cup [op : {"refresh", "store"}, now : Machines, next : Machines \cup {Null},
        latest : Dates \cup {Null}]

Entries(a) == {log[l].performedAt : l \in {k \in Logs : HasLog(k) /\ log[k].assetId = a}}

\* The date of the newest entry; Null when there is none.
IsLatest(d, entries) ==
  IF entries = {} THEN d = Null ELSE d \in entries /\ \A e \in entries : e <= d

Refresh(a, next) == [op |-> "refresh", now |-> a, next |-> next, latest |-> Null]

TakeLog(s, request) == logging' = [logging EXCEPT ![s] = request]

----------------------------------------------------------------------------

CreateLog(s, l, a, at) ==
  /\ logging[s] = Idle /\ ~HasLog(l)
  /\ log' = [log EXCEPT ![l] = [assetId |-> a, performedAt |-> at]]
  /\ TakeLog(s, Refresh(a, Null))
  /\ UNCHANGED <<last, astray>>

\* Mutant of Chosen: an absent field is written too.
ChosenRaw(value, present) == value

Chosen(value, present) == IF value = Keep THEN present ELSE value

ReadUpdate(s, l, a, at) ==
  /\ logging[s] = Idle /\ HasLog(l)
  /\ TakeLog(s, [op |-> "update", l |-> l, was |-> log[l].assetId,
                 row |-> [assetId |-> Chosen(a, log[l].assetId),
                          performedAt |-> Chosen(at, log[l].performedAt)]])
  /\ UNCHANGED <<log, last, astray>>

\* Mutant of RefreshAfter: only the asset the entry moves to is refreshed.
RefreshAfterOnlyNew(was, is) == Refresh(is, Null)

\* The old asset is refreshed, then the new one where it is another.
RefreshAfter(was, is) == Refresh(was, IF is # was THEN is ELSE Null)

\* An entry that another request has moved to a third asset leaves that one as it was.
Unnoticed(l, was) == IF log[l].assetId = was THEN {} ELSE {log[l].assetId}

WriteUpdate(s) ==
  LET r == logging[s] IN
  /\ r.op = "update" /\ HasLog(r.l)
  /\ log' = [log EXCEPT ![r.l] = r.row]
  /\ TakeLog(s, RefreshAfter(r.was, r.row.assetId))
  /\ astray' = astray \cup Unnoticed(r.l, r.was)
  /\ UNCHANGED last

ReadRemove(s, l) ==
  /\ logging[s] = Idle /\ HasLog(l)
  /\ TakeLog(s, [op |-> "remove", l |-> l, was |-> log[l].assetId])
  /\ UNCHANGED <<log, last, astray>>

DeleteLog(s) ==
  LET r == logging[s] IN
  /\ r.op = "remove" /\ HasLog(r.l)
  /\ log' = [log EXCEPT ![r.l] = Null]
  /\ TakeLog(s, Refresh(r.was, Null))
  /\ astray' = astray \cup Unnoticed(r.l, r.was)
  /\ UNCHANGED last

\* refreshLastMaintenance: the latest entry is read ...
ReadLatest(s) ==
  LET r == logging[s] IN
  /\ r.op = "refresh"
  /\ \E d \in Dates \cup {Null} :
       /\ IsLatest(d, Entries(r.now))
       /\ TakeLog(s, [op |-> "store", now |-> r.now, next |-> r.next, latest |-> d])
  /\ UNCHANGED <<log, last, astray>>

\* ... and stored, whatever has been logged meanwhile.
StoreLatest(s) ==
  LET r == logging[s] IN
  /\ r.op = "store"
  /\ last' = [last EXCEPT ![r.now] = r.latest]
  /\ astray' = IF IsLatest(r.latest, Entries(r.now)) THEN astray \ {r.now}
               ELSE astray \cup {r.now}
  /\ TakeLog(s, IF r.next = Null THEN Idle ELSE Refresh(r.next, Null))
  /\ UNCHANGED log

\* The assets the session has yet to refresh.
Pending(s) ==
  IF logging[s].op \in {"refresh", "store"} THEN {logging[s].now, logging[s].next} \ {Null}
  ELSE {}

\* A request is refused, or its process dies.
FailLog(s) ==
  /\ logging[s] # Idle
  /\ astray' = astray \cup Pending(s)
  /\ TakeLog(s, Idle)
  /\ UNCHANGED <<log, last>>

LogStep ==
  \E s \in Sessions :
    \/ \E l \in Logs, a \in Machines, at \in Dates : CreateLog(s, l, a, at)
    \/ \E l \in Logs, a \in Machines \cup {Keep}, at \in Dates \cup {Keep} :
         ReadUpdate(s, l, a, at)
    \/ \E l \in Logs : ReadRemove(s, l)
    \/ WriteUpdate(s) \/ DeleteLog(s) \/ ReadLatest(s) \/ StoreLatest(s) \/ FailLog(s)

LogInit ==
  /\ log = [l \in Logs |-> Null]
  /\ last = [a \in Machines |-> Null]
  /\ logging = [s \in Sessions |-> Idle]
  /\ astray = {}

LogTypeOK ==
  /\ log \in [Logs -> LogRow \cup {Null}]
  /\ last \in [Machines -> Dates \cup {Null}]
  /\ logging \in [Sessions -> LogRequest]
  /\ astray \subseteq Machines

----------------------------------------------------------------------------

\* An asset shows its latest maintenance once nobody is refreshing it, and after a
\* race or a crash as soon as one refresh of it has read the log as it stands.
LastIsLatest ==
  \A a \in Machines :
    a \notin astray /\ (\A s \in Sessions : a \notin Pending(s)) =>
      IsLatest(last[a], Entries(a))
=============================================================================
