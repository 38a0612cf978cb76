-------------------------- MODULE WorkOrdersProofs --------------------------
(***************************************************************************)
(* Theorems about module WorkOrders, for every set of assets, orders,      *)
(* slots and sessions:                                                     *)
(*   - rows and requests stay well formed however requests interleave      *)
(*     (TypeOK)                                                            *)
(*   - with at most one request at a time, any of which may die between    *)
(*     two statements: an operation takes effect at most once and only     *)
(*     when it is still called for, is not replaced while it is staged,    *)
(*     and a finished order lets its asset go                              *)
(***************************************************************************)
EXTENDS WorkOrders, TLAPS

----------------------------------------------------------------------------
(* Requests.                                                               *)

\* The fields a request has at each point.
LEMMA SessionFields ==
  ASSUME NEW q \in Session
  PROVE  /\ q.pc = "open" => /\ q.a \in Assets /\ q.kind \in {"task", "change"}
                             /\ q.op \in Ops /\ q.target \in Slots \cup {Null}
         /\ q.pc = "stage" => /\ q.w \in Orders /\ q.a \in Assets
                              /\ q.op \in Ops /\ q.target \in Slots \cup {Null}
         /\ q.pc = "status" => /\ q.w \in Orders
                               /\ q.from \in TaskStatuses \cup ChangeStatuses
                               /\ q.to \in TaskStatuses \cup ChangeStatuses
         /\ q.pc = "approval" => q.w \in Orders /\ q.to \in ChangeStatuses
         /\ q.pc \in {"apply", "abandon"} => q.w \in Orders
         /\ q.pc = "settle" => /\ q.w \in Orders /\ q.a \in Assets /\ q.op \in Ops
                               /\ q.state \in LifecycleStates \cup {Null}
                               /\ q.at \in Slots \cup {Null}
BY DEF Session

\* A session's step changes that session only.
LEMMA StepOne ==
  ASSUME sess \in [Sessions -> Session], NEW s \in Sessions, NEW next \in Session, Step(s, next)
  PROVE  /\ sess' \in [Sessions -> Session]
         /\ sess'[s] = next
         /\ \A t \in Sessions : t # s => sess'[t] = sess[t]
BY DEF Step

LEMMA IdleTyped == Idle \in Session /\ Idle.pc = "idle"
BY DEF Idle, Session

LEMMA NoOrderTyped == NoOrder \in OrderRow /\ NoOrder.kind = "unborn"
BY DEF NoOrder, OrderRow

\* What a request asks for is a status of its kind of order.
LEMMA AsksTyped ==
  ASSUME NEW kind \in {"task", "change"}
  PROVE  /\ kind = "task" => Asks(kind) \subseteq TaskStatuses
         /\ kind = "change" => Asks(kind) \subseteq ChangeStatuses
BY WorkOrdersAssumption DEF Asks

\* The conjuncts TypeOK has for one asset.
Waits(row, a) ==
  /\ row.op = Null <=> row.wo = Null
  /\ row.op = "MOVE" <=> row.target # Null
  /\ row.wo # Null => order[row.wo].for = a

\* A request takes a step that leaves both tables alone.
LEMMA OnlySessionTyped ==
  ASSUME TypeInv, NEW s \in Sessions, NEW next \in Session, Step(s, next),
         UNCHANGED <<asset, order, effects>>, lost' \subseteq Orders,
         next.pc \in {"open", "stage"} => (next.op = "MOVE" <=> next.target # Null),
         next.pc = "stage" => order[next.w].for = next.a,
         next.pc = "status" => Born(next.w) /\ next.to \in Asks(order[next.w].kind),
         next.pc = "approval" => order[next.w].kind = "change"
  PROVE  TypeInv'
<1>1. /\ sess' \in [Sessions -> Session]
      /\ sess'[s] = next
      /\ \A t \in Sessions : t # s => sess'[t] = sess[t]
  BY StepOne DEF TypeInv, TypeOK
<1>2. TypeOK'
  BY <1>1 DEF TypeInv, TypeOK
<1>3. OrdersFit'
  BY DEF TypeInv, OrdersFit
<1>4. FlightFits'
  <2> SUFFICES ASSUME NEW t \in Sessions
               PROVE  LET q == sess'[t] IN
                      /\ q.pc \in {"open", "stage"} => (q.op = "MOVE" <=> q.target # Null)
                      /\ q.pc = "stage" => order[q.w].for = q.a
                      /\ q.pc = "status" => Born(q.w) /\ q.to \in Asks(order[q.w].kind)
                      /\ q.pc = "approval" => order[q.w].kind = "change"
    BY DEF FlightFits, Born
  <2>1. CASE t = s
    BY <1>1, <2>1
  <2>2. CASE t # s
    BY <1>1, <2>2 DEF TypeInv, FlightFits
  <2> QED BY <2>1, <2>2
<1> QED BY <1>2, <1>3, <1>4 DEF TypeInv

\* A request or an endpoint writes one asset; the orders stay as they are.
LEMMA AssetWriteTyped ==
  ASSUME TypeInv, NEW a \in Assets, NEW row \in AssetRow, Waits(row, a),
         asset' = [asset EXCEPT ![a] = row], order' = order
  PROVE  /\ asset' \in [Assets -> AssetRow]
         /\ \A b \in Assets :
              /\ asset'[b].op = Null <=> asset'[b].wo = Null
              /\ asset'[b].op = "MOVE" <=> asset'[b].target # Null
              /\ asset'[b].wo # Null => order'[asset'[b].wo].for = b
<1>1. asset' \in [Assets -> AssetRow] /\ asset'[a] = row
  BY DEF TypeInv, TypeOK
<1>2. ASSUME NEW b \in Assets
      PROVE  /\ asset'[b].op = Null <=> asset'[b].wo = Null
             /\ asset'[b].op = "MOVE" <=> asset'[b].target # Null
             /\ asset'[b].wo # Null => order'[asset'[b].wo].for = b
  <2>1. CASE b = a
    BY <1>1, <2>1 DEF Waits
  <2>2. CASE b # a
    <3>1. asset'[b] = asset[b]
      BY <2>2 DEF TypeInv, TypeOK
    <3> QED BY <3>1 DEF TypeInv, TypeOK
  <2> QED BY <2>1, <2>2
<1> QED BY <1>1, <1>2

\* A request ends; the orders stay as they are.
LEMMA DoneTyped ==
  ASSUME TypeInv, NEW s \in Sessions, Step(s, Idle), order' = order
  PROVE  sess' \in [Sessions -> Session] /\ OrdersFit' /\ FlightFits'
<1>1. /\ sess' \in [Sessions -> Session] /\ sess'[s] = Idle
      /\ \A t \in Sessions : t # s => sess'[t] = sess[t]
  BY IdleTyped, StepOne DEF TypeInv, TypeOK
<1>2. FlightFits'
  <2> SUFFICES ASSUME NEW t \in Sessions, sess'[t].pc # "idle"
               PROVE  LET q == sess'[t] IN
                      /\ q.pc \in {"open", "stage"} => (q.op = "MOVE" <=> q.target # Null)
                      /\ q.pc = "stage" => order[q.w].for = q.a
                      /\ q.pc = "status" => Born(q.w) /\ q.to \in Asks(order[q.w].kind)
                      /\ q.pc = "approval" => order[q.w].kind = "change"
    BY DEF FlightFits, Born
  <2>1. sess'[t] = sess[t]
    BY <1>1, IdleTyped
  <2> QED BY <2>1 DEF TypeInv, FlightFits
<1> QED BY <1>1, <1>2 DEF TypeInv, OrdersFit

LEMMA RaiseWorkOrderTyped ==
  ASSUME TypeInv, NEW s \in Sessions, RaiseWorkOrder(s)
  PROVE  TypeInv'
<1>1. PICK a \in Assets, op \in Ops, kind \in {"task", "change"}, target \in Slots \cup {Null} :
        /\ RaiseAllowed(a, op, target)
        /\ Step(s, [pc |-> "open", a |-> a, kind |-> kind, op |-> op, target |-> target])
        /\ UNCHANGED <<asset, order, lost, effects>>
  BY DEF RaiseWorkOrder
<1> DEFINE next == [pc |-> "open", a |-> a, kind |-> kind, op |-> op, target |-> target]
<1>2. next \in Session
  BY DEF Session
<1>3. op = "MOVE" <=> target # Null
  BY <1>1 DEF RaiseAllowed
<1>4. lost' \subseteq Orders
  BY <1>1 DEF TypeInv, TypeOK
<1> HIDE DEF next
<1>5. next.pc = "open" /\ (next.op = "MOVE" <=> next.target # Null)
  BY <1>3 DEF next
<1>6. Step(s, next) /\ UNCHANGED <<asset, order, effects>>
  BY <1>1 DEF next
<1> QED BY <1>2, <1>4, <1>5, <1>6, OnlySessionTyped

LEMMA OpenOrderTyped ==
  ASSUME TypeInv, NEW s \in Sessions, OpenOrder(s)
  PROVE  TypeInv'
<1> DEFINE q == sess[s]
           status == IF q.kind = "task" THEN "OPEN" ELSE "DRAFT"
<1>1. PICK w \in Orders :
        /\ q.pc = "open" /\ ~Born(w)
        /\ order' = [order EXCEPT ![w] =
             [NoOrder EXCEPT !.kind = q.kind, !.for = q.a, !.status = status]]
        /\ Step(s, [pc |-> "stage", w |-> w, a |-> q.a, op |-> q.op, target |-> q.target])
        /\ UNCHANGED <<asset, lost, effects>>
  BY DEF OpenOrder
<1> DEFINE row == [NoOrder EXCEPT !.kind = q.kind, !.for = q.a, !.status = status]
           next == [pc |-> "stage", w |-> w, a |-> q.a, op |-> q.op, target |-> q.target]
<1>2. /\ q \in Session /\ q.a \in Assets /\ q.kind \in {"task", "change"} /\ q.op \in Ops
      /\ q.target \in Slots \cup {Null} /\ (q.op = "MOVE" <=> q.target # Null)
  BY <1>1, SessionFields DEF TypeInv, TypeOK, FlightFits
<1>3. next \in Session /\ next.pc = "stage" /\ next.w = w /\ next.a = q.a
      /\ next.op = q.op /\ next.target = q.target
  BY <1>2 DEF Session
<1>4. /\ row \in OrderRow /\ row.kind = q.kind /\ row.for = q.a /\ row.status = status
  BY <1>2, NoOrderTyped DEF OrderRow, TaskStatuses, ChangeStatuses
<1>5. /\ order' \in [Orders -> OrderRow] /\ order'[w] = row
      /\ \A v \in Orders : v # w => order'[v] = order[v]
  BY <1>1, <1>4 DEF TypeInv, TypeOK
<1> HIDE DEF next, row
<1>6. /\ sess' \in [Sessions -> Session] /\ sess'[s] = next
      /\ \A t \in Sessions : t # s => sess'[t] = sess[t]
  BY <1>1, <1>3, StepOne DEF TypeInv, TypeOK, next
\* No asset waits for the new order and no request is about it.
<1>7. order[w].for = Null
  BY <1>1 DEF TypeInv, OrdersFit, Born, NoOrder
<1>8. \A a \in Assets : asset[a].wo # Null => asset[a].wo # w
  BY <1>7, WorkOrdersAssumption DEF TypeInv, TypeOK
<1>9. TypeOK'
  <2>1. \A a \in Assets : asset[a].wo # Null => order'[asset[a].wo].for = a
    <3> SUFFICES ASSUME NEW a \in Assets, asset[a].wo # Null
                 PROVE  order'[asset[a].wo].for = a
      OBVIOUS
    <3>1. asset[a].wo \in Orders
      BY DEF TypeInv, TypeOK, AssetRow
    <3>2. asset[a].wo # w
      BY <1>8
    <3> QED BY <1>5, <3>1, <3>2 DEF TypeInv, TypeOK
  <2> QED BY <1>1, <1>5, <1>6, <2>1 DEF TypeInv, TypeOK
<1>10. OrdersFit'
  <2> SUFFICES ASSUME NEW v \in Orders
               PROVE  /\ order'[v].kind = "unborn" => order'[v] = NoOrder
                      /\ order'[v].kind = "task" => order'[v].status \in TaskStatuses
                      /\ order'[v].kind = "change" => order'[v].status \in ChangeStatuses
    BY DEF OrdersFit
  <2>1. CASE v = w
    BY <1>2, <1>4, <1>5, <2>1 DEF TaskStatuses, ChangeStatuses
  <2>2. CASE v # w
    BY <1>5, <2>2 DEF TypeInv, OrdersFit
  <2> QED BY <2>1, <2>2
<1>11. FlightFits'
  <2> SUFFICES ASSUME NEW t \in Sessions
               PROVE  LET p == sess'[t] IN
                      /\ p.pc \in {"open", "stage"} => (p.op = "MOVE" <=> p.target # Null)
                      /\ p.pc = "stage" => order'[p.w].for = p.a
                      /\ p.pc = "status" =>
                           order'[p.w].kind # "unborn" /\ p.to \in Asks(order'[p.w].kind)
                      /\ p.pc = "approval" => order'[p.w].kind = "change"
    BY DEF FlightFits, Born
  <2>1. CASE t = s
    BY <1>2, <1>3, <1>4, <1>5, <1>6, <2>1
  <2>2. CASE t # s
    <3> DEFINE p == sess[t]
    <3>1. p \in Session /\ sess'[t] = p
      BY <1>6, <2>2 DEF TypeInv, TypeOK
    <3>2. p.pc = "stage" => p.w \in Orders /\ order[p.w].for = p.a /\ p.a \in Assets
      BY <3>1, SessionFields DEF TypeInv, FlightFits
    <3>3. p.pc = "stage" => p.w # w
      BY <1>7, <3>2, WorkOrdersAssumption
    <3>4. p.pc \in {"status", "approval"} => p.w \in Orders /\ p.w # w
      BY <1>1, <3>1, SessionFields DEF TypeInv, FlightFits, Born
    <3> QED BY <1>5, <3>1, <3>2, <3>3, <3>4 DEF TypeInv, FlightFits, Born
  <2> QED BY <2>1, <2>2
<1> QED BY <1>9, <1>10, <1>11 DEF TypeInv

LEMMA StageOpTyped ==
  ASSUME TypeInv, NEW s \in Sessions, StageOp(s)
  PROVE  TypeInv'
<1> DEFINE q == sess[s]
<1>1. /\ q.pc = "stage" /\ Step(s, Idle) /\ UNCHANGED <<order, lost, effects>>
      /\ asset' = IF Stored(q.a)
           THEN [asset EXCEPT ![q.a].op = q.op, ![q.a].wo = q.w, ![q.a].target = q.target]
           ELSE asset
  BY DEF StageOp
<1>2. /\ q \in Session /\ q.w \in Orders /\ q.a \in Assets /\ q.op \in Ops
      /\ q.target \in Slots \cup {Null}
      /\ q.op = "MOVE" <=> q.target # Null
      /\ order[q.w].for = q.a
  BY <1>1, SessionFields DEF TypeInv, TypeOK, FlightFits
<1> DEFINE row == [asset[q.a] EXCEPT !.op = q.op, !.wo = q.w, !.target = q.target]
<1>3. asset[q.a] \in AssetRow
  BY <1>2 DEF TypeInv, TypeOK
<1>4. /\ row \in AssetRow /\ row.op = q.op /\ row.wo = q.w /\ row.target = q.target
  BY <1>2, <1>3 DEF AssetRow
<1>5. Waits(row, q.a)
  <2>1. q.op # Null /\ q.w # Null
    BY <1>2, WorkOrdersAssumption
  <2> HIDE DEF row
  <2> QED BY <1>2, <1>4, <2>1 DEF Waits
<1>6. Stored(q.a) => asset' = [asset EXCEPT ![q.a] = row]
  BY <1>1, <1>2 DEF TypeInv, TypeOK
<1> HIDE DEF row
<1>7. /\ asset' \in [Assets -> AssetRow]
      /\ \A b \in Assets :
           /\ asset'[b].op = Null <=> asset'[b].wo = Null
           /\ asset'[b].op = "MOVE" <=> asset'[b].target # Null
           /\ asset'[b].wo # Null => order'[asset'[b].wo].for = b
  <2>1. CASE Stored(q.a)
    BY <1>1, <1>2, <1>4, <1>5, <1>6, <2>1, AssetWriteTyped
  <2>2. CASE ~Stored(q.a)
    BY <1>1, <2>2 DEF TypeInv, TypeOK
  <2> QED BY <2>1, <2>2
<1> QED BY <1>1, <1>7, DoneTyped DEF TypeInv, TypeOK
LEMMA ReadOrderTyped ==
  ASSUME TypeInv, NEW s \in Sessions, ReadOrder(s)
  PROVE  TypeInv'
<1>1. PICK w \in Orders :
        /\ Born(w)
        /\ \E to \in Asks(order[w].kind) :
             Step(s, [pc |-> "status", w |-> w, from |-> order[w].status, to |-> to])
        /\ UNCHANGED <<asset, order, lost, effects>>
  BY DEF ReadOrder
<1>2. PICK to \in Asks(order[w].kind) :
        Step(s, [pc |-> "status", w |-> w, from |-> order[w].status, to |-> to])
  BY <1>1
<1> DEFINE next == [pc |-> "status", w |-> w, from |-> order[w].status, to |-> to]
<1>3. order[w].kind \in {"task", "change"}
  BY <1>1 DEF TypeInv, TypeOK, OrderRow, Born
<1>4. /\ to \in TaskStatuses \cup ChangeStatuses
      /\ order[w].status \in TaskStatuses \cup ChangeStatuses
  BY <1>2, <1>3, AsksTyped DEF TypeInv, OrdersFit
<1>5. next \in Session /\ next.pc = "status" /\ next.w = w /\ next.to = to
  BY <1>4 DEF Session
<1>6. lost' \subseteq Orders
  BY <1>1 DEF TypeInv, TypeOK
<1>7. Step(s, next)
  BY <1>2
<1> HIDE DEF next
<1> QED BY <1>1, <1>2, <1>5, <1>6, <1>7, OnlySessionTyped

LEMMA ReadForApprovalTyped ==
  ASSUME TypeInv, NEW s \in Sessions, ReadForApproval(s)
  PROVE  TypeInv'
<1>1. PICK w \in Orders, decision \in {"APPROVED", "REJECTED", "DEFERRED"} :
        /\ order[w].kind = "change"
        /\ Step(s, [pc |-> "approval", w |-> w,
                    to |-> IF decision = "DEFERRED" THEN order[w].status ELSE decision])
        /\ UNCHANGED <<asset, order, lost, effects>>
  BY DEF ReadForApproval
<1> DEFINE to == IF decision = "DEFERRED" THEN order[w].status ELSE decision
           next == [pc |-> "approval", w |-> w, to |-> to]
<1>2. to \in ChangeStatuses
  BY <1>1 DEF TypeInv, OrdersFit, ChangeStatuses
<1> HIDE DEF to
<1>3. next \in Session /\ next.pc = "approval" /\ next.w = w
  BY <1>2 DEF Session
<1>4. lost' \subseteq Orders
  BY <1>1 DEF TypeInv, TypeOK
<1>5. Step(s, next)
  BY <1>1 DEF to
<1> HIDE DEF next
<1> QED BY <1>1, <1>3, <1>4, <1>5, OnlySessionTyped

\* An update of an order's row that keeps its kind and its asset.
LEMMA OrderWriteTyped ==
  ASSUME TypeInv, NEW w \in Orders, NEW row \in OrderRow,
         row.kind = order[w].kind, row.for = order[w].for, row.kind # "unborn",
         row.kind = "task" => row.status \in TaskStatuses,
         row.kind = "change" => row.status \in ChangeStatuses,
         order' = [order EXCEPT ![w] = row]
  PROVE  /\ order' \in [Orders -> OrderRow] /\ OrdersFit'
         /\ \A v \in Orders : order'[v].kind = order[v].kind /\ order'[v].for = order[v].for
<1>1. /\ order' \in [Orders -> OrderRow] /\ order'[w] = row
      /\ \A v \in Orders : v # w => order'[v] = order[v]
  BY DEF TypeInv, TypeOK
<1>2. OrdersFit'
  <2> SUFFICES ASSUME NEW v \in Orders
               PROVE  /\ order'[v].kind = "unborn" => order'[v] = NoOrder
                      /\ order'[v].kind = "task" => order'[v].status \in TaskStatuses
                      /\ order'[v].kind = "change" => order'[v].status \in ChangeStatuses
    BY DEF OrdersFit
  <2>1. CASE v = w
    BY <1>1, <2>1
  <2>2. CASE v # w
    BY <1>1, <2>2 DEF TypeInv, OrdersFit
  <2> QED BY <2>1, <2>2
<1> QED BY <1>1, <1>2

\* The other requests after such an update.
LEMMA OrderStepTyped ==
  ASSUME TypeInv, NEW s \in Sessions, NEW next \in Session, Step(s, next),
         UNCHANGED <<asset, lost, effects>>,
         order' \in [Orders -> OrderRow], OrdersFit',
         \A v \in Orders : order'[v].kind = order[v].kind /\ order'[v].for = order[v].for,
         next.pc \in {"idle", "apply", "abandon"}
  PROVE  TypeInv'
<1>1. /\ sess' \in [Sessions -> Session] /\ sess'[s] = next
      /\ \A t \in Sessions : t # s => sess'[t] = sess[t]
  BY StepOne DEF TypeInv, TypeOK
<1>2. \A a \in Assets : asset[a].wo # Null => order'[asset[a].wo].for = a
  BY DEF TypeInv, TypeOK, AssetRow
<1>3. FlightFits'
  <2> SUFFICES ASSUME NEW t \in Sessions, sess'[t].pc \notin {"idle", "apply", "abandon"}
               PROVE  LET q == sess'[t] IN
                      /\ q.pc \in {"open", "stage"} => (q.op = "MOVE" <=> q.target # Null)
                      /\ q.pc = "stage" => order'[q.w].for = q.a
                      /\ q.pc = "status" =>
                           order'[q.w].kind # "unborn" /\ q.to \in Asks(order'[q.w].kind)
                      /\ q.pc = "approval" => order'[q.w].kind = "change"
    BY DEF FlightFits, Born
  <2> DEFINE q == sess[t]
  <2>1. sess'[t] = q /\ q \in Session
    BY <1>1 DEF TypeInv, TypeOK
  <2>2. q.pc \in {"stage", "status", "approval"} =>
          q.w \in Orders /\ order'[q.w].kind = order[q.w].kind /\ order'[q.w].for = order[q.w].for
    BY <2>1, SessionFields
  <2> QED BY <2>1, <2>2 DEF TypeInv, FlightFits, Born
<1> QED BY <1>1, <1>2, <1>3 DEF TypeInv, TypeOK

LEMMA WriteStatusTyped ==
  ASSUME TypeInv, NEW s \in Sessions, WriteStatus(s)
  PROVE  TypeInv'
<1> DEFINE q == sess[s]
           hook == HookOf(order[q.w].kind, q.to)
           next == IF hook = "idle" THEN Idle ELSE [pc |-> hook, w |-> q.w]
           row == Dates(order[q.w], q.from, q.to)
<1>1. q.pc = "status" /\ q \in Session /\ Step(s, next) /\ UNCHANGED <<asset, lost, effects>>
  BY DEF WriteStatus, TypeInv, TypeOK
<1>2. /\ q.w \in Orders /\ order[q.w].kind \in {"task", "change"}
      /\ q.to \in Asks(order[q.w].kind) /\ order[q.w] \in OrderRow
  BY <1>1, SessionFields DEF TypeInv, TypeOK, FlightFits, Born, OrderRow
<1>3. /\ order[q.w].kind = "task" => q.to \in TaskStatuses
      /\ order[q.w].kind = "change" => q.to \in ChangeStatuses
  BY <1>2, AsksTyped
<1>4. order' = [order EXCEPT ![q.w] = row]
  BY <1>2 DEF WriteStatus, TypeInv, TypeOK
<1>5. /\ row \in OrderRow /\ row.kind = order[q.w].kind /\ row.for = order[q.w].for
      /\ row.status = q.to
  BY <1>2, <1>3 DEF Dates, OrderRow
<1>6. next \in Session /\ next.pc \in {"idle", "apply", "abandon"}
  <2>1. hook \in {"idle", "apply", "abandon"}
    BY DEF HookOf
  <2> HIDE DEF hook
  <2> QED BY <1>2, <2>1, IdleTyped DEF Session
<1> HIDE DEF row, next
<1>7. /\ order' \in [Orders -> OrderRow] /\ OrdersFit'
      /\ \A v \in Orders : order'[v].kind = order[v].kind /\ order'[v].for = order[v].for
  BY <1>2, <1>3, <1>4, <1>5, OrderWriteTyped
<1> QED BY <1>1, <1>6, <1>7, OrderStepTyped

LEMMA WriteApprovalTyped ==
  ASSUME TypeInv, NEW s \in Sessions, WriteApproval(s)
  PROVE  TypeInv'
<1> DEFINE q == sess[s]
           row == [order[q.w] EXCEPT !.status = q.to]
<1>1. q.pc = "approval" /\ q \in Session /\ Step(s, Idle) /\ UNCHANGED <<asset, lost, effects>>
  BY DEF WriteApproval, TypeInv, TypeOK
<1>2. /\ q.w \in Orders /\ order[q.w].kind = "change" /\ q.to \in ChangeStatuses
      /\ order[q.w] \in OrderRow
  BY <1>1, SessionFields DEF TypeInv, TypeOK, FlightFits
<1>3. order' = [order EXCEPT ![q.w] = row]
  BY <1>2 DEF WriteApproval, TypeInv, TypeOK
<1>4. /\ row \in OrderRow /\ row.kind = "change" /\ row.for = order[q.w].for
      /\ row.status = q.to
  BY <1>2 DEF OrderRow
<1> HIDE DEF row
<1>5. /\ order' \in [Orders -> OrderRow] /\ OrdersFit'
      /\ \A v \in Orders : order'[v].kind = order[v].kind /\ order'[v].for = order[v].for
  BY <1>2, <1>3, <1>4, OrderWriteTyped
<1> QED BY <1>1, <1>5, IdleTyped, OrderStepTyped
\* What the hook will write is of the right kind.
LEMMA OutcomeTyped ==
  ASSUME TypeInv, NEW a \in Assets, asset[a].op \in Ops, NEW hook
  PROVE  /\ Outcome(a, hook).state \in LifecycleStates \cup {Null}
         /\ Outcome(a, hook).at \in Slots \cup {Null}
<1>1. asset[a] \in AssetRow
  BY DEF TypeInv, TypeOK
<1> QED BY <1>1 DEF Outcome, AssetRow, LifecycleStates, Ops

LEMMA FindWaitingTyped ==
  ASSUME TypeInv, NEW s \in Sessions, FindWaiting(s)
  PROVE  TypeInv'
<1> DEFINE q == sess[s]
<1>1. /\ q.pc \in {"apply", "abandon"} /\ q \in Session
      /\ UNCHANGED <<asset, order, effects>> /\ lost' \subseteq Orders
  BY DEF FindWaiting, TypeInv, TypeOK
<1>2. CASE Step(s, Idle)
  BY <1>1, <1>2, IdleTyped, OnlySessionTyped
<1>3. CASE \E a \in Waiting(q.w) :
             Step(s, [pc |-> "settle", w |-> q.w, a |-> a, op |-> asset[a].op,
                      state |-> Outcome(a, q.pc).state, at |-> Outcome(a, q.pc).at])
  <2>1. PICK a \in Waiting(q.w) :
          Step(s, [pc |-> "settle", w |-> q.w, a |-> a, op |-> asset[a].op,
                   state |-> Outcome(a, q.pc).state, at |-> Outcome(a, q.pc).at])
    BY <1>3
  <2>2. a \in Assets /\ asset[a].op \in Ops /\ q.w \in Orders
    BY <1>1, SessionFields DEF Waiting, TypeInv, TypeOK, AssetRow
  <2> DEFINE next == [pc |-> "settle", w |-> q.w, a |-> a, op |-> asset[a].op,
                      state |-> Outcome(a, q.pc).state, at |-> Outcome(a, q.pc).at]
  <2>3. next \in Session /\ next.pc = "settle"
    BY <2>2, OutcomeTyped DEF Session
  <2>4. Step(s, next)
    BY <2>1
  <2> HIDE DEF next
  <2> QED BY <1>1, <2>3, <2>4, OnlySessionTyped
<1> QED BY <1>2, <1>3 DEF FindWaiting

LEMMA SettleTyped ==
  ASSUME TypeInv, NEW s \in Sessions, Settle(s)
  PROVE  TypeInv'
<1> DEFINE q == sess[s]
           row == Settled(asset[q.a], q)
<1>1. /\ q.pc = "settle" /\ q \in Session /\ Step(s, Idle) /\ UNCHANGED <<order, lost>>
      /\ asset' = IF Stored(q.a) THEN [asset EXCEPT ![q.a] = row] ELSE asset
  BY DEF Settle, TypeInv, TypeOK
<1>2. /\ q.a \in Assets /\ q.w \in Orders
      /\ q.state \in LifecycleStates \cup {Null} /\ q.at \in Slots \cup {Null}
  BY <1>1, SessionFields
<1>3. asset[q.a] \in AssetRow
  BY <1>2 DEF TypeInv, TypeOK
<1>4. row \in AssetRow /\ Waits(row, q.a)
  <2>1. row \in AssetRow /\ row.op = Null /\ row.wo = Null /\ row.target = Null
    BY <1>2, <1>3 DEF Settled, AssetRow
  <2>2. Null # "MOVE"
    BY WorkOrdersAssumption DEF Ops
  <2> HIDE DEF row
  <2> QED BY <2>1, <2>2 DEF Waits
<1> HIDE DEF row
<1>5. /\ asset' \in [Assets -> AssetRow]
      /\ \A b \in Assets :
           /\ asset'[b].op = Null <=> asset'[b].wo = Null
           /\ asset'[b].op = "MOVE" <=> asset'[b].target # Null
           /\ asset'[b].wo # Null => order'[asset'[b].wo].for = b
  <2>1. CASE Stored(q.a)
    BY <1>1, <1>2, <1>4, <2>1, AssetWriteTyped
  <2>2. CASE ~Stored(q.a)
    BY <1>1, <2>2 DEF TypeInv, TypeOK
  <2> QED BY <2>1, <2>2
<1>6. effects' \in [Orders -> Nat]
  BY <1>2 DEF Settle, TypeInv, TypeOK
<1> QED BY <1>1, <1>5, <1>6, DoneTyped DEF TypeInv, TypeOK

\* The asset's own endpoints.
LEMMA SetAssetTyped ==
  ASSUME TypeInv, NEW s \in Sessions, NEW a \in Assets, NEW row \in AssetRow,
         SetAsset(s, a, row), Waits(row, a)
  PROVE  TypeInv'
<1>1. asset' = [asset EXCEPT ![a] = row] /\ UNCHANGED <<order, sess, lost, effects>>
  BY DEF SetAsset
<1>2. /\ asset' \in [Assets -> AssetRow]
      /\ \A b \in Assets :
           /\ asset'[b].op = Null <=> asset'[b].wo = Null
           /\ asset'[b].op = "MOVE" <=> asset'[b].target # Null
           /\ asset'[b].wo # Null => order'[asset'[b].wo].for = b
  BY <1>1, AssetWriteTyped
<1> QED BY <1>1, <1>2 DEF TypeInv, TypeOK, OrdersFit, FlightFits, Born

LEMMA EndpointTyped ==
  ASSUME TypeInv, NEW s \in Sessions, SetLifecycle(s) \/ SetPlace(s) \/ RemoveForClient(s)
  PROVE  TypeInv'
<1>1. ASSUME NEW a \in Assets PROVE asset[a] \in AssetRow /\ Waits(asset[a], a)
  BY DEF TypeInv, TypeOK, Waits
<1>2. CASE SetLifecycle(s)
  <2>1. PICK a \in Assets, state \in Lifecycles :
          SetAsset(s, a, [asset[a] EXCEPT !.state = state])
    BY <1>2 DEF SetLifecycle
  <2> DEFINE row == [asset[a] EXCEPT !.state = state]
  <2>2. row \in AssetRow /\ row.op = asset[a].op /\ row.wo = asset[a].wo
        /\ row.target = asset[a].target
    BY <1>1, WorkOrdersAssumption DEF AssetRow, LifecycleStates
  <2>3. SetAsset(s, a, row)
    BY <2>1
  <2> HIDE DEF row
  <2>4. Waits(row, a)
    BY <1>1, <2>2 DEF Waits
  <2> QED BY <2>2, <2>3, <2>4, SetAssetTyped
<1>3. CASE SetPlace(s)
  <2>1. PICK a \in Assets, at \in Slots \cup {Null} :
          SetAsset(s, a, [asset[a] EXCEPT !.at = at])
    BY <1>3 DEF SetPlace
  <2> DEFINE row == [asset[a] EXCEPT !.at = at]
  <2>2. row \in AssetRow /\ row.op = asset[a].op /\ row.wo = asset[a].wo
        /\ row.target = asset[a].target
    BY <1>1 DEF AssetRow
  <2>3. SetAsset(s, a, row)
    BY <2>1
  <2> HIDE DEF row
  <2>4. Waits(row, a)
    BY <1>1, <2>2 DEF Waits
  <2> QED BY <2>2, <2>3, <2>4, SetAssetTyped
<1>4. CASE RemoveForClient(s)
  <2> DEFINE row == [db |-> "deleted", state |-> "RETIRED", at |-> Null,
                     op |-> Null, wo |-> Null, target |-> Null]
  <2>1. PICK a \in Assets : SetAsset(s, a, row)
    BY <1>4 DEF RemoveForClient
  <2>2. row \in AssetRow /\ Waits(row, a)
    BY WorkOrdersAssumption DEF AssetRow, LifecycleStates, Waits, Ops
  <2> HIDE DEF row
  <2> QED BY <2>1, <2>2, SetAssetTyped
<1> QED BY <1>2, <1>3, <1>4

LEMMA FailTyped ==
  ASSUME TypeInv, NEW s \in Sessions, Fail(s)
  PROVE  TypeInv'
<1>1. sess[s] \in Session
  BY DEF TypeInv, TypeOK
<1>2. lost' \subseteq Orders
  BY <1>1, SessionFields DEF Fail, TypeInv, TypeOK
<1> QED BY <1>2, IdleTyped, OnlySessionTyped DEF Fail

LEMMA NextTyped == TypeInv /\ [Next]_vars => TypeInv'
<1> SUFFICES ASSUME TypeInv, [Next]_vars PROVE TypeInv'
  OBVIOUS
<1>1. ASSUME NEW s \in Sessions, Request(s) PROVE TypeInv'
  BY <1>1, RaiseWorkOrderTyped, ReadOrderTyped, ReadForApprovalTyped, EndpointTyped DEF Request
<1>2. ASSUME NEW s \in Sessions, Continue(s) PROVE TypeInv'
  BY <1>2, OpenOrderTyped, StageOpTyped, WriteStatusTyped, WriteApprovalTyped,
     FindWaitingTyped, SettleTyped DEF Continue
<1>3. ASSUME NEW s \in Sessions, Fail(s) PROVE TypeInv'
  BY <1>3, FailTyped
<1>4. CASE UNCHANGED vars
  BY <1>4 DEF vars, TypeInv, TypeOK, OrdersFit, FlightFits, Born
<1> QED BY <1>1, <1>2, <1>3, <1>4 DEF Next

LEMMA InitTyped == Init => TypeInv
<1> SUFFICES ASSUME Init PROVE TypeInv
  OBVIOUS
<1>1. TypeOK
  <2>1. Null # "MOVE"
    BY WorkOrdersAssumption DEF Ops
  <2>2. asset \in [Assets -> AssetRow]
    BY DEF Init, AssetRow, LifecycleStates
  <2> QED BY <2>1, <2>2, NoOrderTyped, IdleTyped DEF Init, TypeOK
<1>2. OrdersFit
  BY NoOrderTyped DEF Init, OrdersFit
<1>3. FlightFits
  BY IdleTyped DEF Init, FlightFits
<1> QED BY <1>1, <1>2, <1>3 DEF TypeInv

\* However many requests are served at once and whichever of them die, the pending
\* columns of an asset are set and cleared together, a target goes with a MOVE, and
\* an asset waits only for an order that was raised for it.
THEOREM TypeCorrect == Spec => []TypeOK
<1>1. TypeInv => TypeOK
  BY DEF TypeInv
<1> QED BY <1>1, InitTyped, NextTyped, PTL DEF Spec
----------------------------------------------------------------------------
(* One request at a time.                                                  *)

Serial == \A s, t \in Sessions : s = t

\* SerialInv without its typing part.
Serially ==
  /\ FlightCurrent /\ DeletedWaitsForNone
  /\ EffectSpendsOrder /\ FinishedInHand /\ TaskDatesMatchStatus

\* The request takes a step that leaves both tables alone; if it was settling a
\* finished order it still is, or it died, or no asset waits for that order.
LEMMA OnlySessionSerial ==
  ASSUME Serial, SerialInv, NEW s \in Sessions, NEW next \in Session, Step(s, next),
         UNCHANGED <<asset, order, effects>>, lost \subseteq lost', Current(next),
         \A w \in Orders : InHand(sess[s], w) =>
           \/ InHand(next, w) \/ w \in lost'
           \/ \A a \in Assets \ Internal : asset[a].wo # w
  PROVE  Serially'
<1>1. sess'[s] = next /\ \A t \in Sessions : t = s
  BY StepOne DEF Serial, SerialInv, TypeInv, TypeOK
<1>2. FlightCurrent'
  BY <1>1 DEF FlightCurrent, Current, Stored, TakesEffect, Valid, FreeOfLive
<1>3. DeletedWaitsForNone' /\ EffectSpendsOrder' /\ TaskDatesMatchStatus'
  BY DEF SerialInv, DeletedWaitsForNone, EffectSpendsOrder, TaskDatesMatchStatus, Stored, Born
<1>4. FinishedInHand'
  <2> SUFFICES ASSUME NEW a \in Assets \ Internal, asset[a].wo # Null, asset[a].wo \notin lost',
                      order[asset[a].wo].status \in Finished
               PROVE  InHand(next, asset[a].wo)
    BY <1>1 DEF FinishedInHand, InHand
  <2>1. asset[a].wo \in Orders
    BY DEF SerialInv, TypeInv, TypeOK, AssetRow
  <2>2. InHand(sess[s], asset[a].wo)
    BY <1>1 DEF SerialInv, FinishedInHand
  <2> QED BY <2>1, <2>2
<1> QED BY <1>2, <1>3, <1>4 DEF Serially

LEMMA IdleCurrent == Current(Idle)
BY DEF Current, Idle

LEMMA RaiseWorkOrderSerial ==
  ASSUME Serial, SerialInv, NEW s \in Sessions, RaiseWorkOrder(s)
  PROVE  Serially'
<1>1. PICK a \in Assets, op \in Ops, kind \in {"task", "change"}, target \in Slots \cup {Null} :
        /\ sess[s].pc = "idle" /\ RaiseAllowed(a, op, target)
        /\ Step(s, [pc |-> "open", a |-> a, kind |-> kind, op |-> op, target |-> target])
        /\ UNCHANGED <<asset, order, lost, effects>>
  BY DEF RaiseWorkOrder
<1> DEFINE next == [pc |-> "open", a |-> a, kind |-> kind, op |-> op, target |-> target]
<1>2. next \in Session /\ next.pc = "open" /\ next.a = a
  BY DEF Session
<1>3. Step(s, next)
  BY <1>1
<1> HIDE DEF next
<1>4. Current(next)
  BY <1>1, <1>2 DEF Current, RaiseAllowed
<1> QED BY <1>1, <1>2, <1>3, <1>4, OnlySessionSerial DEF InHand

LEMMA ReadOrderSerial ==
  ASSUME Serial, SerialInv, NEW s \in Sessions, ReadOrder(s), TypeInv'
  PROVE  Serially'
<1>1. PICK w \in Orders :
        /\ sess[s].pc = "idle"
        /\ \E to : Step(s, [pc |-> "status", w |-> w, from |-> order[w].status, to |-> to])
        /\ UNCHANGED <<asset, order, lost, effects>>
  BY DEF ReadOrder
<1>2. PICK to : Step(s, [pc |-> "status", w |-> w, from |-> order[w].status, to |-> to])
  BY <1>1
<1> DEFINE next == [pc |-> "status", w |-> w, from |-> order[w].status, to |-> to]
<1>3. next.pc = "status" /\ next.w = w /\ next.from = order[w].status
  OBVIOUS
<1>4. Step(s, next)
  BY <1>2
<1> HIDE DEF next
<1>5. Current(next)
  BY <1>3 DEF Current
<1>6. next \in Session
  BY <1>4 DEF Step, SerialInv, TypeInv, TypeOK
<1> QED BY <1>1, <1>4, <1>5, <1>6, OnlySessionSerial DEF InHand

LEMMA ReadForApprovalSerial ==
  ASSUME Serial, SerialInv, NEW s \in Sessions, ReadForApproval(s), TypeInv'
  PROVE  Serially'
<1>1. PICK w \in Orders, decision \in {"APPROVED", "REJECTED", "DEFERRED"} :
        /\ sess[s].pc = "idle"
        /\ Step(s, [pc |-> "approval", w |-> w,
                    to |-> IF decision = "DEFERRED" THEN order[w].status ELSE decision])
        /\ UNCHANGED <<asset, order, lost, effects>>
  BY DEF ReadForApproval
<1> DEFINE to == IF decision = "DEFERRED" THEN order[w].status ELSE decision
           next == [pc |-> "approval", w |-> w, to |-> to]
<1>2. to \in {"APPROVED", "REJECTED", order[w].status}
  OBVIOUS
<1>3. Step(s, next)
  BY <1>1
<1> HIDE DEF to
<1>4. next.pc = "approval" /\ next.w = w /\ next.to = to
  OBVIOUS
<1> HIDE DEF next
<1>5. Current(next)
  BY <1>2, <1>4 DEF Current
<1>6. next \in Session
  BY <1>3 DEF Step, SerialInv, TypeInv, TypeOK
<1> QED BY <1>1, <1>3, <1>5, <1>6, OnlySessionSerial DEF InHand

LEMMA FailSerial ==
  ASSUME Serial, SerialInv, NEW s \in Sessions, Fail(s)
  PROVE  Serially'
BY IdleTyped, IdleCurrent, OnlySessionSerial DEF Fail, InHand

\* What an asset waits for, in one place.
LEMMA WaitsFor ==
  ASSUME SerialInv, NEW a \in Assets, asset[a].wo # Null
  PROVE  /\ asset[a].wo \in Orders /\ order[asset[a].wo].for = a
         /\ Born(asset[a].wo)
         /\ asset[a].op # Null /\ Stored(a)
<1>1. asset[a].wo \in Orders /\ order[asset[a].wo].for = a /\ asset[a].op # Null
  BY DEF SerialInv, TypeInv, TypeOK, AssetRow
<1>2. Born(asset[a].wo)
  <2>1. a # Null /\ NoOrder.for = Null
    BY WorkOrdersAssumption DEF NoOrder
  <2> QED BY <1>1, <2>1 DEF SerialInv, TypeInv, OrdersFit, Born
<1>3. Stored(a)
  BY DEF SerialInv, DeletedWaitsForNone
<1> QED BY <1>1, <1>2, <1>3

LEMMA FindWaitingSerial ==
  ASSUME Serial, SerialInv, NEW s \in Sessions, FindWaiting(s), TypeInv'
  PROVE  Serially'
<1> DEFINE q == sess[s]
<1>1. q.pc \in {"apply", "abandon"} /\ UNCHANGED <<asset, order, lost, effects>>
  BY DEF FindWaiting
<1>2. CASE Waiting(q.w) = {} /\ Step(s, Idle)
  <2>1. \A a \in Assets \ Internal : asset[a].wo # q.w
    <3> SUFFICES ASSUME NEW a \in Assets \ Internal, asset[a].wo = q.w PROVE FALSE
      OBVIOUS
    <3>1. q.w \in Orders
      BY <1>1, SessionFields DEF SerialInv, TypeInv, TypeOK
    <3>2. asset[a].wo # Null
      BY <3>1, WorkOrdersAssumption
    <3> QED BY <1>2, <3>2, WaitsFor DEF Waiting
  <2> QED BY <1>1, <1>2, <2>1, IdleTyped, IdleCurrent, OnlySessionSerial DEF InHand
<1>3. CASE \E a \in Waiting(q.w) :
             Step(s, [pc |-> "settle", w |-> q.w, a |-> a, op |-> asset[a].op,
                      state |-> Outcome(a, q.pc).state, at |-> Outcome(a, q.pc).at])
  <2>1. PICK a \in Waiting(q.w) :
          Step(s, [pc |-> "settle", w |-> q.w, a |-> a, op |-> asset[a].op,
                   state |-> Outcome(a, q.pc).state, at |-> Outcome(a, q.pc).at])
    BY <1>3
  <2> DEFINE next == [pc |-> "settle", w |-> q.w, a |-> a, op |-> asset[a].op,
                      state |-> Outcome(a, q.pc).state, at |-> Outcome(a, q.pc).at]
  <2>2. /\ next.pc = "settle" /\ next.w = q.w /\ next.a = a /\ next.op = asset[a].op
        /\ next.state = Outcome(a, q.pc).state /\ next.at = Outcome(a, q.pc).at
    OBVIOUS
  <2>3. Step(s, next)
    BY <2>1
  <2> HIDE DEF next
  <2>4. Stored(a) /\ asset[a].wo = q.w /\ asset[a].op \in Ops
    BY DEF Waiting, SerialInv, TypeInv, TypeOK, AssetRow
  <2>5. TakesEffect(next) => Valid(next)
    BY <2>2, <2>4 DEF TakesEffect, Valid, Outcome, Precondition, Ops
  <2>6. Current(next)
    BY <2>2, <2>4, <2>5 DEF Current
  <2>7. next \in Session
    BY <2>3 DEF Step, SerialInv, TypeInv, TypeOK
  <2>8. \A w \in Orders : InHand(q, w) => InHand(next, w)
    BY <2>2 DEF InHand
  <2> QED BY <1>1, <2>3, <2>6, <2>7, <2>8, OnlySessionSerial
<1> QED BY <1>2, <1>3 DEF FindWaiting

LEMMA OpenOrderSerial ==
  ASSUME Serial, SerialInv, NEW s \in Sessions, OpenOrder(s), TypeInv'
  PROVE  Serially'
<1> DEFINE q == sess[s]
           status == IF q.kind = "task" THEN "OPEN" ELSE "DRAFT"
<1>1. PICK w \in Orders :
        /\ q.pc = "open" /\ ~Born(w)
        /\ order' = [order EXCEPT ![w] =
             [NoOrder EXCEPT !.kind = q.kind, !.for = q.a, !.status = status]]
        /\ Step(s, [pc |-> "stage", w |-> w, a |-> q.a, op |-> q.op, target |-> q.target])
        /\ UNCHANGED <<asset, lost, effects>>
  BY DEF OpenOrder
<1> DEFINE row == [NoOrder EXCEPT !.kind = q.kind, !.for = q.a, !.status = status]
           next == [pc |-> "stage", w |-> w, a |-> q.a, op |-> q.op, target |-> q.target]
<1>2. /\ q.kind \in {"task", "change"}
      /\ asset[q.a].op = Null
  BY <1>1, SessionFields DEF SerialInv, FlightCurrent, Current, TypeInv, TypeOK
<1>3. next.pc = "stage" /\ next.w = w /\ next.a = q.a
  OBVIOUS
<1>4. /\ row.kind = q.kind /\ row.status = status /\ ~row.closed /\ ~row.resolved
  BY DEF NoOrder
<1>5. status \notin Finished \cup {"DONE"}
  BY DEF Finished
<1>6. order'[w] = row /\ \A v \in Orders : v # w => order'[v] = order[v]
  BY <1>1 DEF SerialInv, TypeInv, TypeOK
<1>7. Step(s, next) /\ sess' [s] = next /\ \A t \in Sessions : t = s
  BY <1>1 DEF Serial, Step, SerialInv, TypeInv, TypeOK
<1> HIDE DEF next, row, status
<1>8. effects[w] = 0
  BY <1>1 DEF SerialInv, EffectSpendsOrder
<1>9. FlightCurrent'
  BY <1>1, <1>2, <1>3, <1>4, <1>5, <1>6, <1>7, <1>8 DEF FlightCurrent, Current
<1>10. EffectSpendsOrder'
  BY <1>1, <1>2, <1>4, <1>6, <1>8 DEF SerialInv, EffectSpendsOrder, Born
<1>11. FinishedInHand'
  <2> SUFFICES ASSUME NEW a \in Assets \ Internal, asset[a].wo # Null, asset[a].wo \notin lost,
                      order'[asset[a].wo].status \in Finished
               PROVE  FALSE
    BY <1>1 DEF FinishedInHand
  <2>1. asset[a].wo \in Orders /\ asset[a].wo # w
    BY <1>1, WaitsFor
  <2>2. \E t \in Sessions : InHand(sess[t], asset[a].wo)
    BY <1>6, <2>1 DEF SerialInv, FinishedInHand
  <2> QED BY <1>1, <1>7, <2>2 DEF InHand
<1>12. TaskDatesMatchStatus'
  BY <1>4, <1>5, <1>6 DEF SerialInv, TaskDatesMatchStatus
<1> QED BY <1>1, <1>9, <1>10, <1>11, <1>12 DEF Serially, SerialInv, DeletedWaitsForNone, Stored

LEMMA StageOpSerial ==
  ASSUME Serial, SerialInv, NEW s \in Sessions, StageOp(s), TypeInv'
  PROVE  Serially'
<1> DEFINE q == sess[s]
<1>1. /\ q.pc = "stage" /\ Step(s, Idle) /\ UNCHANGED <<order, lost, effects>>
      /\ asset' = IF Stored(q.a)
           THEN [asset EXCEPT ![q.a].op = q.op, ![q.a].wo = q.w, ![q.a].target = q.target]
           ELSE asset
  BY DEF StageOp
<1>2. /\ q.w \in Orders /\ q.a \in Assets
      /\ order[q.w].status \notin Finished /\ effects[q.w] = 0
  BY <1>1, SessionFields DEF SerialInv, FlightCurrent, Current, TypeInv, TypeOK
<1>3. sess'[s] = Idle /\ \A t \in Sessions : t = s
  BY <1>1, IdleTyped, StepOne DEF Serial, SerialInv, TypeInv, TypeOK
<1>4. asset[q.a] \in AssetRow
  BY <1>2 DEF SerialInv, TypeInv, TypeOK
<1> DEFINE row == [asset[q.a] EXCEPT !.op = q.op, !.wo = q.w, !.target = q.target]
<1>5. \A a \in Assets : /\ asset'[a].db = asset[a].db
                        /\ \/ asset'[a].wo = asset[a].wo
                           \/ Stored(a) /\ asset'[a].wo = q.w
  <2>1. row.db = asset[q.a].db /\ row.wo = q.w
    BY <1>4 DEF AssetRow
  <2>2. Stored(q.a) => asset' = [asset EXCEPT ![q.a] = row]
    BY <1>1, <1>2 DEF SerialInv, TypeInv, TypeOK
  <2> HIDE DEF row
  <2>3. CASE Stored(q.a)
    BY <1>2, <2>1, <2>2, <2>3 DEF SerialInv, TypeInv, TypeOK
  <2>4. CASE ~Stored(q.a)
    BY <1>1, <2>4
  <2> QED BY <2>3, <2>4
<1>6. FlightCurrent'
  BY <1>3 DEF FlightCurrent, Current, Idle
<1>7. DeletedWaitsForNone'
  BY <1>5 DEF SerialInv, DeletedWaitsForNone, Stored
<1>8. EffectSpendsOrder'
  <2> SUFFICES ASSUME NEW w \in Orders
               PROVE  /\ effects[w] \in {0, 1}
                      /\ effects[w] = 1 => Born(w) /\ \A a \in Assets : asset'[a].wo # w
    BY <1>1 DEF EffectSpendsOrder, Born
  <2>1. /\ effects[w] \in {0, 1}
        /\ effects[w] = 1 => Born(w) /\ \A a \in Assets : asset[a].wo # w
    BY DEF SerialInv, EffectSpendsOrder
  <2>2. effects[w] = 1 => w # q.w
    BY <1>2
  <2> QED BY <1>5, <2>1, <2>2
<1>9. FinishedInHand'
  <2> SUFFICES ASSUME NEW a \in Assets \ Internal, asset'[a].wo # Null,
                      asset'[a].wo \notin lost, order[asset'[a].wo].status \in Finished
               PROVE  FALSE
    BY <1>1 DEF FinishedInHand
  <2>1. asset'[a].wo = asset[a].wo
    BY <1>2, <1>5
  <2>2. \E t \in Sessions : InHand(sess[t], asset[a].wo)
    BY <2>1 DEF SerialInv, FinishedInHand
  <2> QED BY <1>1, <1>3, <2>2 DEF InHand
<1>10. TaskDatesMatchStatus'
  BY <1>1 DEF SerialInv, TaskDatesMatchStatus
<1> QED BY <1>6, <1>7, <1>8, <1>9, <1>10 DEF Serially

LEMMA WriteStatusSerial ==
  ASSUME Serial, SerialInv, NEW s \in Sessions, WriteStatus(s), TypeInv'
  PROVE  Serially'
<1> DEFINE q == sess[s]
           hook == HookOf(order[q.w].kind, q.to)
           next == IF hook = "idle" THEN Idle ELSE [pc |-> hook, w |-> q.w]
           row == Dates(order[q.w], q.from, q.to)
<1>1. q.pc = "status" /\ q \in Session /\ Step(s, next) /\ UNCHANGED <<asset, lost, effects>>
  BY DEF WriteStatus, SerialInv, TypeInv, TypeOK
<1>2. /\ q.w \in Orders /\ order[q.w].kind \in {"task", "change"}
      /\ q.to \in Asks(order[q.w].kind) /\ order[q.w] \in OrderRow
      /\ q.from = order[q.w].status
  BY <1>1, SessionFields DEF SerialInv, TypeInv, TypeOK, FlightFits, Born, OrderRow,
     FlightCurrent, Current
<1>3. order' = [order EXCEPT ![q.w] = row]
  BY <1>2 DEF WriteStatus, SerialInv, TypeInv, TypeOK
<1>4. /\ row.kind = order[q.w].kind /\ row.status = q.to
      /\ row.closed = IF q.to \notin Terminal(row.kind) THEN FALSE
                      ELSE IF q.from \in Terminal(row.kind) THEN order[q.w].closed ELSE TRUE
      /\ row.resolved = IF row.kind # "task" \/ (q.to = "DONE" <=> q.from = "DONE")
                        THEN order[q.w].resolved ELSE q.to = "DONE"
  BY <1>2 DEF Dates, OrderRow
<1> HIDE DEF row
<1>5. order'[q.w] = row /\ \A v \in Orders : v # q.w => order'[v] = order[v]
  BY <1>2, <1>3 DEF SerialInv, TypeInv, TypeOK
<1>6. /\ hook \in {"idle", "apply", "abandon"}
      /\ order[q.w].kind = "task" /\ q.to = "DONE" => hook # "idle"
      /\ order[q.w].kind = "change" /\ q.to \in {"COMPLETED", "CANCELLED"} => hook # "idle"
  BY DEF HookOf
<1> HIDE DEF hook
<1>7. /\ next.pc \in {"idle", "apply", "abandon"}
      /\ hook # "idle" => InHand(next, q.w)
  BY <1>6 DEF Idle, InHand
<1> HIDE DEF next
<1>8. sess'[s] = next /\ \A t \in Sessions : t = s
  BY <1>1 DEF Serial, Step, SerialInv, TypeInv, TypeOK
<1>9. FlightCurrent'
  BY <1>7, <1>8 DEF FlightCurrent, Current
<1>10. DeletedWaitsForNone'
  BY <1>1 DEF SerialInv, DeletedWaitsForNone, Stored
<1>11. EffectSpendsOrder'
  BY <1>1, <1>4, <1>5 DEF SerialInv, EffectSpendsOrder, Born
<1>12. FinishedInHand'
  <2> SUFFICES ASSUME NEW a \in Assets \ Internal, asset[a].wo # Null, asset[a].wo \notin lost,
                      order'[asset[a].wo].status \in Finished
               PROVE  InHand(next, asset[a].wo)
    BY <1>1, <1>8 DEF FinishedInHand, InHand
  <2>1. asset[a].wo \in Orders
    BY WaitsFor
  <2>2. CASE asset[a].wo = q.w
    <3>1. q.to \in Finished
      BY <1>4, <1>5, <2>2
    <3>2. /\ order[q.w].kind = "task" => q.to = "DONE"
          /\ order[q.w].kind = "change" => q.to \in {"COMPLETED", "CANCELLED"}
      BY <1>2, <3>1, AsksTyped DEF Finished, TaskStatuses, ChangeStatuses
    <3> QED BY <1>2, <1>6, <1>7, <2>2, <3>2
  <2>3. CASE asset[a].wo # q.w
    <3>1. \E t \in Sessions : InHand(sess[t], asset[a].wo)
      BY <1>5, <2>1, <2>3 DEF SerialInv, FinishedInHand
    <3> QED BY <1>1, <1>8, <3>1 DEF InHand
  <2> QED BY <2>2, <2>3
<1>13. TaskDatesMatchStatus'
  <2> SUFFICES ASSUME NEW w \in Orders, order'[w].kind = "task"
               PROVE  /\ order'[w].resolved <=> order'[w].status = "DONE"
                      /\ order'[w].closed <=> order'[w].status = "DONE"
    BY DEF TaskDatesMatchStatus
  <2>1. CASE w = q.w
    <3>1. row.kind = "task" /\ order[q.w].kind = "task"
      BY <1>4, <1>5, <2>1
    <3>2. /\ order[q.w].resolved <=> q.from = "DONE"
          /\ order[q.w].closed <=> q.from = "DONE"
      BY <1>2, <3>1 DEF SerialInv, TaskDatesMatchStatus
    <3> QED BY <1>4, <1>5, <2>1, <3>1, <3>2 DEF Terminal, TaskTerminal
  <2>2. CASE w # q.w
    BY <1>5, <2>2 DEF SerialInv, TaskDatesMatchStatus
  <2> QED BY <2>1, <2>2
<1> QED BY <1>9, <1>10, <1>11, <1>12, <1>13 DEF Serially

LEMMA WriteApprovalSerial ==
  ASSUME Serial, SerialInv, NEW s \in Sessions, WriteApproval(s), TypeInv'
  PROVE  Serially'
<1> DEFINE q == sess[s]
           row == [order[q.w] EXCEPT !.status = q.to]
<1>1. q.pc = "approval" /\ q \in Session /\ Step(s, Idle) /\ UNCHANGED <<asset, lost, effects>>
  BY DEF WriteApproval, SerialInv, TypeInv, TypeOK
<1>2. /\ q.w \in Orders /\ order[q.w].kind = "change" /\ order[q.w] \in OrderRow
      /\ q.to \in {"APPROVED", "REJECTED", order[q.w].status}
  BY <1>1, SessionFields DEF SerialInv, TypeInv, TypeOK, FlightFits, FlightCurrent, Current
<1>3. order' = [order EXCEPT ![q.w] = row]
  BY <1>2 DEF WriteApproval, SerialInv, TypeInv, TypeOK
<1>4. row.kind = "change" /\ row.status = q.to
  BY <1>2 DEF OrderRow
<1> HIDE DEF row
<1>5. order'[q.w] = row /\ \A v \in Orders : v # q.w => order'[v] = order[v]
  BY <1>2, <1>3 DEF SerialInv, TypeInv, TypeOK
<1>6. sess'[s] = Idle /\ \A t \in Sessions : t = s
  BY <1>1 DEF Serial, Step, SerialInv, TypeInv, TypeOK
<1>7. FlightCurrent'
  BY <1>6 DEF FlightCurrent, Current, Idle
<1>8. DeletedWaitsForNone'
  BY <1>1 DEF SerialInv, DeletedWaitsForNone, Stored
<1>9. EffectSpendsOrder'
  BY <1>1, <1>4, <1>5 DEF SerialInv, EffectSpendsOrder, Born
<1>10. FinishedInHand'
  <2> SUFFICES ASSUME NEW a \in Assets \ Internal, asset[a].wo # Null, asset[a].wo \notin lost,
                      order'[asset[a].wo].status \in Finished
               PROVE  FALSE
    BY <1>1 DEF FinishedInHand
  <2>1. asset[a].wo \in Orders
    BY WaitsFor
  <2>2. order[asset[a].wo].status \in Finished
    BY <1>2, <1>4, <1>5, <2>1 DEF Finished
  <2>3. \E t \in Sessions : InHand(sess[t], asset[a].wo)
    BY <2>2 DEF SerialInv, FinishedInHand
  <2> QED BY <1>1, <1>6, <2>3 DEF InHand
<1>11. TaskDatesMatchStatus'
  BY <1>4, <1>5 DEF SerialInv, TaskDatesMatchStatus
<1> QED BY <1>7, <1>8, <1>9, <1>10, <1>11 DEF Serially

LEMMA SettleSerial ==
  ASSUME Serial, SerialInv, NEW s \in Sessions, Settle(s), TypeInv'
  PROVE  Serially'
<1> DEFINE q == sess[s]
           row == Settled(asset[q.a], q)
<1>1. q.pc = "settle" /\ q \in Session /\ Step(s, Idle) /\ UNCHANGED <<order, lost>>
  BY DEF Settle, SerialInv, TypeInv, TypeOK
<1>2. q.a \in Assets /\ q.w \in Orders
  BY <1>1, SessionFields
<1>3. Stored(q.a) /\ asset[q.a].wo = q.w
  BY <1>1 DEF SerialInv, FlightCurrent, Current
<1>4. q.w # Null /\ Born(q.w) /\ order[q.w].for = q.a
  BY <1>2, <1>3, WaitsFor, WorkOrdersAssumption
<1>5. asset[q.a] \in AssetRow
  BY <1>2 DEF SerialInv, TypeInv, TypeOK
<1>6. row.db = "stored" /\ row.wo = Null
  BY <1>3, <1>5 DEF Settled, AssetRow, Stored
<1>7. asset' = [asset EXCEPT ![q.a] = row]
  BY <1>2, <1>3 DEF Settle, SerialInv, TypeInv, TypeOK
<1> HIDE DEF row
<1>8. asset'[q.a] = row /\ \A a \in Assets : a # q.a => asset'[a] = asset[a]
  BY <1>2, <1>7 DEF SerialInv, TypeInv, TypeOK
\* No asset waits for the order any more.
<1>9. \A a \in Assets : asset'[a].wo # q.w
  BY <1>4, <1>6, <1>8, WaitsFor
<1>10. sess'[s] = Idle /\ \A t \in Sessions : t = s
  BY <1>1 DEF Serial, Step, SerialInv, TypeInv, TypeOK
<1>11. FlightCurrent'
  BY <1>10 DEF FlightCurrent, Current, Idle
<1>12. DeletedWaitsForNone'
  BY <1>6, <1>8 DEF SerialInv, DeletedWaitsForNone, Stored
<1>13. EffectSpendsOrder'
  <2> SUFFICES ASSUME NEW w \in Orders
               PROVE  /\ effects'[w] \in {0, 1}
                      /\ effects'[w] = 1 => Born(w) /\ \A a \in Assets : asset'[a].wo # w
    BY <1>1 DEF EffectSpendsOrder, Born
  <2>1. effects[w] \in {0, 1} /\ (effects[w] = 1 => Born(w) /\ \A a \in Assets : asset[a].wo # w)
    BY DEF SerialInv, EffectSpendsOrder
  <2>2. effects \in [Orders -> Nat]
    BY DEF SerialInv, TypeInv, TypeOK
  <2>3. CASE w = q.w
    <3>1. effects[w] = 0
      BY <1>2, <1>3, <2>1, <2>3
    <3>2. effects'[w] \in {0, 1}
      BY <1>2, <2>2, <2>3, <3>1 DEF Settle
    <3> QED BY <1>4, <1>9, <2>3, <3>2
  <2>4. CASE w # q.w
    <3>1. effects'[w] = effects[w]
      BY <1>2, <2>2, <2>4 DEF Settle
    <3>2. effects[w] = 1 => w # Null
      BY WorkOrdersAssumption
    <3> QED BY <1>6, <1>8, <2>1, <3>1, <3>2
  <2> QED BY <2>3, <2>4
<1>14. FinishedInHand'
  <2> SUFFICES ASSUME NEW a \in Assets \ Internal, asset'[a].wo # Null,
                      asset'[a].wo \notin lost, order[asset'[a].wo].status \in Finished
               PROVE  FALSE
    BY <1>1 DEF FinishedInHand
  <2>1. asset'[a].wo = asset[a].wo
    BY <1>6, <1>8
  <2>2. \E t \in Sessions : InHand(sess[t], asset[a].wo)
    BY <2>1 DEF SerialInv, FinishedInHand
  <2>3. asset[a].wo = q.w
    BY <1>10, <2>2 DEF InHand
  <2> QED BY <1>9, <2>1, <2>3
<1>15. TaskDatesMatchStatus'
  BY <1>1 DEF SerialInv, TaskDatesMatchStatus
<1> QED BY <1>11, <1>12, <1>13, <1>14, <1>15 DEF Serially

\* An endpoint's write: the asset waits for what it waited for, or for nothing.
LEMMA SetAssetSerial ==
  ASSUME Serial, SerialInv, NEW s \in Sessions, NEW a \in Assets, NEW row,
         SetAsset(s, a, row),
         row.wo \in {asset[a].wo, Null}, row.db = "stored" \/ row.wo = Null
  PROVE  Serially'
<1>1. sess[s].pc = "idle" /\ Stored(a) /\ asset' = [asset EXCEPT ![a] = row]
      /\ UNCHANGED <<order, sess, lost, effects>>
  BY DEF SetAsset
<1>2. asset'[a] = row /\ \A b \in Assets : b # a => asset'[b] = asset[b]
  BY <1>1 DEF SerialInv, TypeInv, TypeOK
<1>3. \A b \in Assets : asset'[b].wo \in {asset[b].wo, Null}
  BY <1>2
<1>4. \A t \in Sessions : sess[t].pc = "idle"
  BY <1>1 DEF Serial
<1>5. FlightCurrent'
  BY <1>1, <1>4 DEF FlightCurrent, Current
<1>6. DeletedWaitsForNone'
  BY <1>2 DEF SerialInv, DeletedWaitsForNone, Stored
<1>7. EffectSpendsOrder'
  BY <1>1, <1>3, WorkOrdersAssumption DEF SerialInv, EffectSpendsOrder, Born
<1>8. FinishedInHand'
  <2> SUFFICES ASSUME NEW b \in Assets \ Internal, asset'[b].wo # Null,
                      asset'[b].wo \notin lost, order[asset'[b].wo].status \in Finished
               PROVE  FALSE
    BY <1>1 DEF FinishedInHand
  <2>1. asset'[b].wo = asset[b].wo
    BY <1>3
  <2>2. \E t \in Sessions : InHand(sess[t], asset[b].wo)
    BY <2>1 DEF SerialInv, FinishedInHand
  <2> QED BY <1>4, <2>2 DEF InHand
<1>9. TaskDatesMatchStatus'
  BY <1>1 DEF SerialInv, TaskDatesMatchStatus
<1> QED BY <1>5, <1>6, <1>7, <1>8, <1>9 DEF Serially

LEMMA EndpointSerial ==
  ASSUME Serial, SerialInv, NEW s \in Sessions,
         SetLifecycle(s) \/ SetPlace(s) \/ RemoveForClient(s)
  PROVE  Serially'
<1>1. ASSUME NEW a \in Assets PROVE asset[a] \in AssetRow
  BY DEF SerialInv, TypeInv, TypeOK
<1>2. CASE SetLifecycle(s)
  <2>1. PICK a \in Assets, state \in Lifecycles :
          SetAsset(s, a, [asset[a] EXCEPT !.state = state])
    BY <1>2 DEF SetLifecycle
  <2> DEFINE row == [asset[a] EXCEPT !.state = state]
  <2>2. row.wo = asset[a].wo /\ row.db = asset[a].db
    BY <1>1 DEF AssetRow
  <2>3. SetAsset(s, a, row)
    BY <2>1
  <2> HIDE DEF row
  <2>4. row.db = "stored"
    BY <2>2, <2>3 DEF SetAsset, Stored
  <2> QED BY <2>2, <2>3, <2>4, SetAssetSerial
<1>3. CASE SetPlace(s)
  <2>1. PICK a \in Assets, at \in Slots \cup {Null} :
          SetAsset(s, a, [asset[a] EXCEPT !.at = at])
    BY <1>3 DEF SetPlace
  <2> DEFINE row == [asset[a] EXCEPT !.at = at]
  <2>2. row.wo = asset[a].wo /\ row.db = asset[a].db
    BY <1>1 DEF AssetRow
  <2>3. SetAsset(s, a, row)
    BY <2>1
  <2> HIDE DEF row
  <2>4. row.db = "stored"
    BY <2>2, <2>3 DEF SetAsset, Stored
  <2> QED BY <2>2, <2>3, <2>4, SetAssetSerial
<1>4. CASE RemoveForClient(s)
  <2> DEFINE row == [db |-> "deleted", state |-> "RETIRED", at |-> Null,
                     op |-> Null, wo |-> Null, target |-> Null]
  <2>1. PICK a \in Assets : SetAsset(s, a, row)
    BY <1>4 DEF RemoveForClient
  <2>2. row.wo = Null
    OBVIOUS
  <2> HIDE DEF row
  <2> QED BY <2>1, <2>2, SetAssetSerial
<1> QED BY <1>2, <1>3, <1>4

LEMMA SerialNext == Serial /\ SerialInv /\ [Next]_vars => SerialInv'
<1> SUFFICES ASSUME Serial, SerialInv, [Next]_vars PROVE SerialInv'
  OBVIOUS
<1>1. TypeInv'
  BY NextTyped DEF SerialInv
<1>2. ASSUME NEW s \in Sessions, Request(s) PROVE Serially'
  BY <1>1, <1>2, RaiseWorkOrderSerial, ReadOrderSerial, ReadForApprovalSerial,
     EndpointSerial DEF Request
<1>3. ASSUME NEW s \in Sessions, Continue(s) PROVE Serially'
  BY <1>1, <1>3, OpenOrderSerial, StageOpSerial, WriteStatusSerial, WriteApprovalSerial,
     FindWaitingSerial, SettleSerial DEF Continue
<1>4. ASSUME NEW s \in Sessions, Fail(s) PROVE Serially'
  BY <1>4, FailSerial
<1>5. ASSUME UNCHANGED vars PROVE Serially'
  <2>1. FlightCurrent'
    BY <1>5 DEF vars, SerialInv, FlightCurrent, Current, Stored, TakesEffect, Valid, FreeOfLive
  <2>2. DeletedWaitsForNone' /\ EffectSpendsOrder'
    BY <1>5 DEF vars, SerialInv, DeletedWaitsForNone, Stored, EffectSpendsOrder, Born
  <2>3. FinishedInHand' /\ TaskDatesMatchStatus'
    BY <1>5 DEF vars, SerialInv, FinishedInHand, InHand, TaskDatesMatchStatus
  <2> QED BY <2>1, <2>2, <2>3 DEF Serially
<1>6. Serially'
  BY <1>2, <1>3, <1>4, <1>5 DEF Next
<1> QED BY <1>1, <1>6 DEF Serially, SerialInv

LEMMA SerialInit == Init => SerialInv
<1> SUFFICES ASSUME Init PROVE SerialInv
  OBVIOUS
<1>1. FlightCurrent
  BY IdleCurrent DEF Init, FlightCurrent
<1>2. DeletedWaitsForNone /\ EffectSpendsOrder
  BY WorkOrdersAssumption DEF Init, DeletedWaitsForNone, EffectSpendsOrder
<1>3. FinishedInHand
  BY DEF Init, FinishedInHand
<1>4. TaskDatesMatchStatus
  BY NoOrderTyped DEF Init, TaskDatesMatchStatus
<1> QED BY <1>1, <1>2, <1>3, <1>4, InitTyped DEF SerialInv

LEMMA SerialInvariant == ASSUME Serial PROVE Spec => []SerialInv
<1>1. SerialInv /\ [Next]_vars => SerialInv'
  BY SerialNext
<1> QED BY <1>1, SerialInit, PTL DEF Spec

\* Requests one at a time, any of which may die between two statements: the operation
\* of an order takes effect at most once, however often the order is completed,
\* reopened and completed again (applyCompletedWorkOrder).
THEOREM SerialAppliedAtMostOnce == ASSUME Serial PROVE Spec => []AppliedAtMostOnce
<1>1. SerialInv => AppliedAtMostOnce
  <2>1. \A n \in {0, 1} : n <= 1
    OBVIOUS
  <2> QED BY <2>1 DEF SerialInv, EffectSpendsOrder, AppliedAtMostOnce
<1> QED BY <1>1, SerialInvariant, PTL

\* Requests one at a time: between requests no client-owned asset waits for an order
\* that is done, completed or cancelled, unless its hook died (applyCompletedWorkOrder
\* and abandonWorkOrder always clear the marker).
THEOREM SerialFinishedOrderLetsGo == ASSUME Serial PROVE Spec => []FinishedOrderLetsGo
<1>1. SerialInv => FinishedOrderLetsGo
  BY DEF SerialInv, FinishedInHand, InHand, FinishedOrderLetsGo, Quiet
<1> QED BY <1>1, SerialInvariant, PTL

\* Requests one at a time: a task has a closedAt and a resolvedAt exactly while its
\* status is DONE (closedAtPatch and resolvedAtPatch).
THEOREM SerialTaskDatesMatchStatus == ASSUME Serial PROVE Spec => []TaskDatesMatchStatus
<1>1. SerialInv => TaskDatesMatchStatus
  BY DEF SerialInv
<1> QED BY <1>1, SerialInvariant, PTL

\* Requests one at a time: the hook's update changes an asset only in the way that is
\* still called for when the update is made, not only when the asset was read.
THEOREM SerialEffectOnlyWhenValid == ASSUME Serial PROVE Spec => EffectOnlyWhenValid
<1>1. ASSUME SerialInv, [Next]_vars, NEW s \in Sessions, sess[s].pc = "settle",
             effects'[sess[s].w] > effects[sess[s].w]
      PROVE  Valid(sess[s])
  <2>1. \A t \in Sessions : t = s
    BY DEF Serial
  <2>2. sess[s].w \in Orders /\ effects[sess[s].w] \in Nat
    BY <1>1, SessionFields DEF SerialInv, TypeInv, TypeOK
  <2>3. effects' # effects
    BY <1>1, <2>2
  <2>4. Settle(s)
    BY <1>1, <2>1, <2>3 DEF Next, Request, Continue, Fail, RaiseWorkOrder, ReadOrder,
       ReadForApproval, SetLifecycle, SetPlace, RemoveForClient, SetAsset, OpenOrder,
       StageOp, WriteStatus, WriteApproval, FindWaiting, vars
  <2>5. TakesEffect(sess[s])
    BY <2>3, <2>4 DEF Settle
  <2> QED BY <1>1, <2>5 DEF SerialInv, FlightCurrent, Current
<1>2. SerialInv /\ [Next]_vars =>
        [\A s \in Sessions :
           sess[s].pc = "settle" /\ effects'[sess[s].w] > effects[sess[s].w] =>
             Valid(sess[s])]_vars
  BY <1>1
<1> QED BY <1>2, SerialInvariant, PTL DEF Spec, EffectOnlyWhenValid

\* Requests one at a time: a staged operation stays until it is settled, no other
\* order taking its place (the pendingOp check of raiseWorkOrder).
THEOREM SerialStagedOpNotReplaced == ASSUME Serial PROVE Spec => StagedOpNotReplaced
<1>1. ASSUME SerialInv, [Next]_vars, NEW a \in Assets, asset[a].wo # Null
      PROVE  asset'[a].wo \in {asset[a].wo, Null}
  <2>1. asset[a] \in AssetRow /\ asset[a].op # Null
    BY <1>1, WaitsFor DEF SerialInv, TypeInv, TypeOK
  <2>2. ASSUME NEW b \in Assets, NEW row, asset' = [asset EXCEPT ![b] = row],
               row.wo \in {asset[b].wo, Null}
        PROVE  asset'[a].wo \in {asset[a].wo, Null}
    BY <1>1, <2>2 DEF SerialInv, TypeInv, TypeOK
  <2>3. ASSUME NEW s \in Sessions, Request(s)
        PROVE  asset'[a].wo \in {asset[a].wo, Null}
    <3>1. ASSUME NEW b \in Assets PROVE asset[b] \in AssetRow
      BY <1>1 DEF SerialInv, TypeInv, TypeOK
    <3>2. CASE SetLifecycle(s)
      <4>1. PICK b \in Assets, state \in Lifecycles :
              SetAsset(s, b, [asset[b] EXCEPT !.state = state])
        BY <3>2 DEF SetLifecycle
      <4>2. [asset[b] EXCEPT !.state = state].wo = asset[b].wo
        BY <3>1 DEF AssetRow
      <4> QED BY <2>2, <4>1, <4>2 DEF SetAsset
    <3>3. CASE SetPlace(s)
      <4>1. PICK b \in Assets, at \in Slots \cup {Null} :
              SetAsset(s, b, [asset[b] EXCEPT !.at = at])
        BY <3>3 DEF SetPlace
      <4>2. [asset[b] EXCEPT !.at = at].wo = asset[b].wo
        BY <3>1 DEF AssetRow
      <4> QED BY <2>2, <4>1, <4>2 DEF SetAsset
    <3>4. CASE RemoveForClient(s)
      BY <2>2, <3>4 DEF RemoveForClient, SetAsset
    <3> QED BY <2>3, <3>2, <3>3, <3>4 DEF Request, RaiseWorkOrder, ReadOrder, ReadForApproval
  <2>4. ASSUME NEW s \in Sessions, Continue(s)
        PROVE  asset'[a].wo \in {asset[a].wo, Null}
    <3> DEFINE q == sess[s]
    <3>1. q \in Session /\ Current(q)
      BY <1>1 DEF SerialInv, FlightCurrent, TypeInv, TypeOK
    <3>2. CASE StageOp(s)
      \* The asset that is staged waited for nothing.
      <4>1. q.a \in Assets /\ asset[q.a].op = Null
        BY <3>1, <3>2, SessionFields DEF StageOp, Current
      <4> QED BY <1>1, <2>1, <3>2, <4>1 DEF StageOp, SerialInv, TypeInv, TypeOK
    <3>3. CASE Settle(s)
      <4>1. q.a \in Assets /\ asset[q.a] \in AssetRow
        BY <1>1, <3>1, <3>3, SessionFields DEF Settle, SerialInv, TypeInv, TypeOK
      <4>2. Settled(asset[q.a], q).wo = Null
        BY <4>1 DEF Settled, AssetRow
      <4>3. CASE Stored(q.a)
        <5>1. asset' = [asset EXCEPT ![q.a] = Settled(asset[q.a], q)]
          BY <1>1, <3>3, <4>1, <4>3 DEF Settle, SerialInv, TypeInv, TypeOK
        <5> HIDE DEF q
        <5> QED BY <2>2, <4>1, <4>2, <5>1
      <4>4. CASE ~Stored(q.a)
        BY <3>3, <4>4 DEF Settle
      <4> QED BY <4>3, <4>4
    <3> QED BY <2>4, <3>2, <3>3 DEF Continue, OpenOrder, WriteStatus, WriteApproval, FindWaiting
  <2>5. ASSUME NEW s \in Sessions, Fail(s)
        PROVE  asset'[a].wo \in {asset[a].wo, Null}
    BY <2>5 DEF Fail
  <2>6. CASE UNCHANGED vars
    BY <2>6 DEF vars
  <2> QED BY <1>1, <2>3, <2>4, <2>5, <2>6 DEF Next
<1>2. SerialInv /\ [Next]_vars =>
        [\A a \in Assets : asset[a].wo # Null => asset'[a].wo \in {asset[a].wo, Null}]_vars
  BY <1>1
<1> QED BY <1>2, SerialInvariant, PTL DEF Spec, StagedOpNotReplaced
=============================================================================
