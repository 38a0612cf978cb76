------------------------- MODULE ServiceDeskProofs -------------------------
(***************************************************************************)
(* ServiceDesk: types, the dates and the pin of a ticket, conversions and  *)
(* alerts, for any number of records, sources, sessions and sweeps.        *)
(***************************************************************************)
EXTENDS ServiceDesk, TLAPS

\* What a request that was admitted relies on until it writes.
FitIn(tk, src, q) ==
  /\ q.op \in {"status", "edit", "mark"} => tk[q.r] # Null
  /\ q.op = "status" => q.to \in Statuses(tk[q.r].kind)
  /\ q.op \in {"convert", "triage", "submission", "mark"} => src[q.x] # Null
  /\ q.op = "convert" => q.kind \in ConversionKinds
  /\ q.op = "edit" /\ q.dueAt # Keep /\ ~q.dueAtManual => ~q.wasManual
  /\ q.op = "edit" /\ q.dueAtManual => HasSla(tk[q.r].kind)

Requests == TicketRequest \cup IntakeRequest

Rows ==
  /\ now \in Times
  /\ ticket \in [Records -> Row \cup {Null}]
  /\ \A r \in Records : Exists(r) =>
       /\ ticket[r].status \in Statuses(ticket[r].kind)
       /\ ticket[r].dueAtManual => HasSla(ticket[r].kind)

Serving ==
  /\ serving \in [Sessions -> Requests]
  /\ \A s \in Sessions : FitIn(ticket, source, serving[s])

DeskInv == Rows /\ Serving /\ IntakeTypeOK /\ SweepTypeOK

LEMMA InvImpliesType == DeskInv => DeskTypeOK
<1> SUFFICES ASSUME DeskInv PROVE DeskTypeOK OBVIOUS
<1>1. ASSUME NEW s \in Sessions, serving[s].op \in {"status", "edit"}
      PROVE /\ serving[s] \in TicketRequest
            /\ Exists(serving[s].r)
            /\ serving[s].op = "status" => serving[s].to \in Statuses(ticket[serving[s].r].kind)
  BY <1>1 DEF DeskInv, Serving, FitIn, Requests, IntakeRequest, Exists
<1> QED BY <1>1 DEF DeskInv, DeskTypeOK, TicketsTypeOK, Rows, Serving, Requests

----------------------------------------------------------------------------
(* Requests stay fit while records and sources stay.                       *)

Stay ==
  /\ \A r \in Records : Exists(r) => Exists(r)' /\ ticket'[r].kind = ticket[r].kind
  /\ \A x \in Sources : Came(x) => Came(x)'

LEMMA StayFit ==
  ASSUME DeskInv, Stay, NEW s \in Sessions PROVE FitIn(ticket', source', serving[s])
<1>1. serving[s] \in Requests /\ FitIn(ticket, source, serving[s])
  BY DEF DeskInv, Serving
<1>2. /\ serving[s].op \in {"status", "edit", "mark"} => serving[s].r \in Records
      /\ serving[s].op \in {"convert", "triage", "submission", "mark"} => serving[s].x \in Sources
  BY <1>1 DEF Requests, TicketRequest, IntakeRequest
<1> QED BY <1>1, <1>2 DEF FitIn, Stay, Exists, Came

LEMMA StillServing ==
  ASSUME DeskInv, Stay, UNCHANGED serving PROVE Serving'
BY StayFit DEF Serving, DeskInv

LEMMA ServingNext ==
  ASSUME DeskInv, Stay, NEW s \in Sessions, NEW q \in Requests,
         FitIn(ticket', source', q), serving' = [serving EXCEPT ![s] = q]
  PROVE Serving'
<1>1. ASSUME NEW t \in Sessions PROVE FitIn(ticket', source', serving'[t])
  BY StayFit DEF DeskInv, Serving
<1> QED BY <1>1 DEF DeskInv, Serving

LEMMA IdleFits == Idle \in Requests /\ FitIn(ticket', source', Idle)
BY DEF Idle, Requests, TicketRequest, FitIn

LEMMA EndServing ==
  ASSUME DeskInv, Stay, NEW s \in Sessions, serving' = [serving EXCEPT ![s] = Idle]
  PROVE Serving'
BY ServingNext, IdleFits

----------------------------------------------------------------------------
(* Types: the requests of Tickets.                                         *)

LEMMA NewRowTyped ==
  ASSUME now \in Times, NEW kind \in Kinds, NEW priority \in Priorities, NEW dueAt \in Due,
         NEW dueAtManual \in BOOLEAN, NEW assigneeId \in People \cup {Null}
  PROVE LET row == NewRow(kind, priority, dueAt, dueAtManual, assigneeId)
        IN  /\ row \in Row /\ row # Null
            /\ row.kind = kind /\ row.status \in Statuses(kind)
            /\ row.dueAtManual = dueAtManual
            /\ row.status = "OPEN" /\ row.closedAt = Null /\ row.resolvedAt = Null
BY NullIsNoRow DEF NewRow, Row, AllStatuses, Statuses

LEMMA CreateRows ==
  ASSUME DeskInv, NEW s \in Sessions, NEW r \in Records, CreateForClient(s, r)
  PROVE \E row \in Row : /\ ~Exists(r) /\ row.status = "OPEN" /\ row.closedAt = Null
                         /\ row.resolvedAt = Null /\ row # Null
                         /\ row.status \in Statuses(row.kind)
                         /\ row.dueAtManual => HasSla(row.kind)
                         /\ ticket' = [ticket EXCEPT ![r] = row]
<1>1. PICK kind \in Kinds, priority \in Priorities, assigneeId \in People \cup {Null} :
       \E dueAt \in IF HasDue(kind) THEN DueDates \cup {Null, Keep} ELSE {Null} :
         ticket' = [ticket EXCEPT ![r] =
           NewRow(kind, priority,
                  IF dueAt = Keep THEN DueBySla(now, priority, Null) ELSE dueAt,
                  HasSla(kind) /\ dueAt # Keep,
                  IF kind = "Incident" THEN Null ELSE assigneeId)]
  BY DEF CreateForClient
<1>2. PICK dueAt \in IF HasDue(kind) THEN DueDates \cup {Null, Keep} ELSE {Null} :
         ticket' = [ticket EXCEPT ![r] =
           NewRow(kind, priority,
                  IF dueAt = Keep THEN DueBySla(now, priority, Null) ELSE dueAt,
                  HasSla(kind) /\ dueAt # Keep,
                  IF kind = "Incident" THEN Null ELSE assigneeId)]
  BY <1>1
<1> DEFINE due == IF dueAt = Keep THEN DueBySla(now, priority, Null) ELSE dueAt
           manual == HasSla(kind) /\ dueAt # Keep
           who == IF kind = "Incident" THEN Null ELSE assigneeId
           row == NewRow(kind, priority, due, manual, who)
<1>3. now \in Nat /\ SlaHours[priority] \in Nat \cup {Null}
  BY TicketsAssumption DEF DeskInv, Rows, Times, Priorities
<1>4. due \in Due BY <1>3, TicketsAssumption DEF DueBySla, Due
<1>5. manual \in BOOLEAN /\ who \in People \cup {Null} /\ (manual => HasSla(kind)) OBVIOUS
<1> HIDE DEF due, manual, who
<1>6. /\ row \in Row /\ row # Null /\ row.kind = kind /\ row.status \in Statuses(kind)
      /\ row.dueAtManual = manual
      /\ row.status = "OPEN" /\ row.closedAt = Null /\ row.resolvedAt = Null
  BY <1>4, <1>5, NewRowTyped DEF DeskInv, Rows
<1>7. ~Exists(r) BY DEF CreateForClient
<1>8. ticket' = [ticket EXCEPT ![r] = row] BY <1>2 DEF due, manual, who
<1> QED BY <1>5, <1>6, <1>7, <1>8

RecordsStay == \A r \in Records : Exists(r) => Exists(r)' /\ ticket'[r].kind = ticket[r].kind
SourcesStay == \A x \in Sources : Came(x) => Came(x)'

LEMMA StayParts == (RecordsStay /\ SourcesStay) <=> Stay
BY DEF RecordsStay, SourcesStay, Stay

\* A row put in the place of none, or of one of its kind.
LEMMA PutRow ==
  ASSUME DeskInv, NEW r \in Records, NEW row \in Row, row.status \in Statuses(row.kind),
         row.dueAtManual => HasSla(row.kind), Exists(r) => row.kind = ticket[r].kind,
         ticket' = [ticket EXCEPT ![r] = row], UNCHANGED now
  PROVE Rows' /\ RecordsStay
BY NullIsNoRow DEF DeskInv, Rows, RecordsStay, Exists

LEMMA Untouched ==
  /\ UNCHANGED <<now, ticket>> /\ DeskInv => Rows' /\ RecordsStay
  /\ UNCHANGED source => SourcesStay
  /\ UNCHANGED intakeVars /\ DeskInv => IntakeTypeOK'
  /\ UNCHANGED sweepVars /\ DeskInv => SweepTypeOK'
BY DEF DeskInv, Rows, RecordsStay, SourcesStay, Exists, Came, intakeVars, sweepVars,
       IntakeTypeOK, SweepTypeOK

\* The row a request names.
LEMMA TheRow ==
  ASSUME DeskInv, NEW r \in Records, Exists(r)
  PROVE /\ ticket[r] \in Row /\ ticket[r].status \in Statuses(ticket[r].kind)
        /\ ticket[r].dueAtManual => HasSla(ticket[r].kind)
BY DEF DeskInv, Rows, Exists

LEMMA BeginFits ==
  ASSUME DeskInv, NEW s \in Sessions, NEW q \in Requests, FitIn(ticket, source, q),
         Begin(s, q), UNCHANGED source
  PROVE Rows' /\ Serving'
<1>1. UNCHANGED <<now, ticket, source>> /\ serving' = [serving EXCEPT ![s] = q]
  BY DEF Begin
<1>2. Rows' /\ Stay BY <1>1, Untouched, StayParts
<1>3. FitIn(ticket', source', q) BY <1>1
<1> QED BY <1>1, <1>2, <1>3, ServingNext

LEMMA ReadStatusTyped ==
  ASSUME DeskInv, NEW s \in Sessions, NEW r \in Records,
         ReadStatus(s, r) \/ ReadClose(s, r), UNCHANGED source
  PROVE Rows' /\ Serving'
<1>1. Exists(r) BY DEF ReadStatus, ReadClose
<1>2. ticket[r] \in Row /\ ticket[r].status \in AllStatuses BY <1>1, TheRow DEF Row
<1> DEFINE q(to, fresh) == [op |-> "status", r |-> r, was |-> ticket[r].status,
                            to |-> to, fresh |-> fresh]
<1>3. ASSUME NEW to \in Statuses(ticket[r].kind), NEW fresh \in BOOLEAN, Begin(s, q(to, fresh))
      PROVE Rows' /\ Serving'
  <2>1. to \in AllStatuses BY DEF Statuses, Terminal, AllStatuses
  <2>2. q(to, fresh) \in Requests BY <1>2, <2>1 DEF Requests, TicketRequest
  <2>3. FitIn(ticket, source, q(to, fresh)) BY <1>1 DEF FitIn, Exists
  <2> HIDE DEF q
  <2> QED BY <1>3, <2>2, <2>3, BeginFits
<1>4. CASE ReadStatus(s, r)
  <2>1. PICK to \in Statuses(ticket[r].kind) : Begin(s, q(to, FALSE)) BY <1>4 DEF ReadStatus
  <2> QED BY <1>3, <2>1
<1>5. CASE ReadClose(s, r)
  <2>1. "CLOSED" \in Statuses(ticket[r].kind) BY <1>5 DEF ReadClose, Statuses, Terminal
  <2>2. Begin(s, q("CLOSED", TRUE)) BY <1>5 DEF ReadClose
  <2> QED BY <1>3, <2>1, <2>2
<1> QED BY <1>4, <1>5

LEMMA ReadEditTyped ==
  ASSUME DeskInv, NEW s \in Sessions, NEW r \in Records, ReadEdit(s, r), UNCHANGED source
  PROVE Rows' /\ Serving'
<1>1. Exists(r) BY DEF ReadEdit
<1>2. ticket[r] \in Row /\ (ticket[r].dueAtManual => HasSla(ticket[r].kind)) BY <1>1, TheRow
<1>3. PICK dueAt \in DueDates \cup {Null, Keep}, priority \in Priorities \cup {Keep},
           assigneeId \in People \cup {Null, Keep} :
       LET row == ticket[r]
           recompute == /\ dueAt = Keep /\ priority \notin {Keep, row.priority}
                        /\ HasSla(row.kind)
                        /\ Unpinned(row) /\ SlaHours[priority] # Null
       IN  Begin(s, [op |-> "edit", r |-> r, wasManual |-> row.dueAtManual,
                     dueAt |-> IF recompute THEN row.createdAt + SlaHours[priority] ELSE dueAt,
                     dueAtManual |-> HasSla(row.kind) /\ dueAt # Keep,
                     priority |-> priority, assigneeId |-> assigneeId])
  BY DEF ReadEdit
<1> DEFINE recompute == /\ dueAt = Keep /\ priority \notin {Keep, ticket[r].priority}
                        /\ HasSla(ticket[r].kind)
                        /\ Unpinned(ticket[r]) /\ SlaHours[priority] # Null
           due == IF recompute THEN ticket[r].createdAt + SlaHours[priority] ELSE dueAt
           q == [op |-> "edit", r |-> r, wasManual |-> ticket[r].dueAtManual, dueAt |-> due,
                 dueAtManual |-> HasSla(ticket[r].kind) /\ dueAt # Keep, priority |-> priority,
                 assigneeId |-> assigneeId]
<1>4. ticket[r].createdAt \in Nat /\ ticket[r].dueAtManual \in BOOLEAN
  BY <1>2, TicketsAssumption DEF Row, Times
<1>5. due \in Due \cup {Keep}
  <2>1. CASE recompute
    <3>1. SlaHours[priority] \in Nat BY <2>1, TicketsAssumption DEF Priorities
    <3> QED BY <2>1, <3>1, <1>4 DEF Due
  <2>2. CASE ~recompute BY <2>2, TicketsAssumption DEF Due
  <2> QED BY <2>1, <2>2
<1>6. q \in Requests
  <2> HIDE DEF due
  <2> QED BY <1>4, <1>5 DEF Requests, TicketRequest
<1>7. FitIn(ticket, source, q) BY <1>1, <1>2, <1>4 DEF FitIn, Exists, Unpinned
<1>8. Begin(s, q) BY <1>3
<1> HIDE DEF q
<1> QED BY <1>6, <1>7, <1>8, BeginFits

LEMMA WriteStatusRow ==
  ASSUME DeskInv, NEW s \in Sessions, WriteStatus(s)
  PROVE LET q == serving[s]  row == ticket[q.r]
            new == [row EXCEPT !.status = q.to, !.closedAt = ClosedAtAfter(q, row),
                               !.resolvedAt = ResolvedAtAfter(q, row)]
        IN  /\ q.r \in Records /\ Exists(q.r) /\ q.op = "status" /\ row \in Row
            /\ q.to \in Statuses(row.kind)
            /\ new \in Row /\ ticket' = [ticket EXCEPT ![q.r] = new]
            /\ UNCHANGED now /\ serving' = [serving EXCEPT ![s] = Idle]
<1> DEFINE q == serving[s]  row == ticket[q.r]
<1>1. q.op = "status" /\ q \in Requests /\ FitIn(ticket, source, q)
  BY DEF WriteStatus, DeskInv, Serving
<1>2. q.r \in Records /\ q.to \in AllStatuses
  BY <1>1 DEF Requests, TicketRequest, IntakeRequest
<1>3. Exists(q.r) /\ q.to \in Statuses(row.kind) BY <1>1 DEF FitIn, Exists
<1>4. row \in Row BY <1>2, <1>3, TheRow
<1>5. ClosedAtAfter(q, row) \in Times \cup {Null} /\ ResolvedAtAfter(q, row) \in Times \cup {Null}
  BY <1>4 DEF ClosedAtAfter, ResolvedAtAfter, DeskInv, Rows, Row
<1>6. [row EXCEPT !.status = q.to, !.closedAt = ClosedAtAfter(q, row),
                  !.resolvedAt = ResolvedAtAfter(q, row)] \in Row
  BY <1>2, <1>4, <1>5 DEF Row
<1> QED BY <1>1, <1>2, <1>3, <1>4, <1>6 DEF WriteStatus, End

LEMMA WriteStatusTyped ==
  ASSUME DeskInv, NEW s \in Sessions, WriteStatus(s), UNCHANGED source
  PROVE Rows' /\ Serving'
<1> DEFINE q == serving[s]  row == ticket[q.r]
           new == [row EXCEPT !.status = q.to, !.closedAt = ClosedAtAfter(q, row),
                              !.resolvedAt = ResolvedAtAfter(q, row)]
<1>1. /\ q.r \in Records /\ Exists(q.r) /\ row \in Row /\ q.to \in Statuses(row.kind)
      /\ new \in Row /\ ticket' = [ticket EXCEPT ![q.r] = new]
      /\ UNCHANGED now /\ serving' = [serving EXCEPT ![s] = Idle]
  BY WriteStatusRow
<1>2. new.kind = row.kind /\ new.status = q.to /\ new.dueAtManual = row.dueAtManual
  BY <1>1 DEF Row
<1>5. row.dueAtManual => HasSla(row.kind) BY <1>1, TheRow
<1>3. Rows' /\ RecordsStay
  <2> HIDE DEF new
  <2> QED BY <1>1, <1>2, <1>5, PutRow
<1>4. Stay BY <1>3, Untouched, StayParts
<1> QED BY <1>1, <1>3, <1>4, EndServing

LEMMA WriteEditRow ==
  ASSUME DeskInv, NEW s \in Sessions, WriteEdit(s)
  PROVE \E new \in Row :
          LET q == serving[s]  row == ticket[q.r]
          IN  /\ q.r \in Records /\ Exists(q.r) /\ q.op = "edit" /\ row \in Row
              /\ new.kind = row.kind /\ new.status = row.status
              /\ new.closedAt = row.closedAt /\ new.resolvedAt = row.resolvedAt
              /\ new.dueAtManual = IF q.dueAt = Keep THEN row.dueAtManual ELSE q.dueAtManual
              /\ ticket' = [ticket EXCEPT ![q.r] = new]
              /\ UNCHANGED now /\ serving' = [serving EXCEPT ![s] = Idle]
<1> DEFINE q == serving[s]  row == ticket[q.r]
           due == Given(q.dueAt, row.dueAt)
           manual == IF q.dueAt = Keep THEN row.dueAtManual ELSE q.dueAtManual
           priority == Given(q.priority, row.priority)
           who == Given(q.assigneeId, row.assigneeId)
           new == [row EXCEPT !.dueAt = due, !.dueAtManual = manual,
                              !.priority = priority, !.assigneeId = who]
<1>1. q.op = "edit" /\ q \in Requests /\ FitIn(ticket, source, q)
  BY DEF WriteEdit, DeskInv, Serving
<1>2. /\ q.r \in Records /\ q.dueAt \in Due \cup {Keep} /\ q.dueAtManual \in BOOLEAN
      /\ q.priority \in Priorities \cup {Keep} /\ q.assigneeId \in People \cup {Null, Keep}
  BY <1>1 DEF Requests, TicketRequest, IntakeRequest
<1>3. Exists(q.r) BY <1>1 DEF FitIn, Exists
<1>4. row \in Row BY <1>2, <1>3, TheRow
<1>5. due \in Due /\ manual \in BOOLEAN /\ priority \in Priorities /\ who \in People \cup {Null}
  BY <1>2, <1>4 DEF Given, Row
<1>6. ticket' = [ticket EXCEPT ![q.r] = new] /\ UNCHANGED now
      /\ serving' = [serving EXCEPT ![s] = Idle]
  BY DEF WriteEdit, End
<1> HIDE DEF due, priority, who, manual
<1>7. new \in Row BY <1>4, <1>5 DEF Row
<1>8. /\ new.kind = row.kind /\ new.status = row.status /\ new.dueAtManual = manual
      /\ new.closedAt = row.closedAt /\ new.resolvedAt = row.resolvedAt
  BY <1>4 DEF Row
<1>9. manual = IF q.dueAt = Keep THEN row.dueAtManual ELSE q.dueAtManual BY DEF manual
<1> HIDE DEF new
<1> QED BY <1>1, <1>2, <1>3, <1>4, <1>6, <1>7, <1>8, <1>9

LEMMA WriteEditTyped ==
  ASSUME DeskInv, NEW s \in Sessions, WriteEdit(s), UNCHANGED source
  PROVE Rows' /\ Serving'
<1> DEFINE q == serving[s]  row == ticket[q.r]
<1>1. PICK new \in Row :
        /\ q.r \in Records /\ Exists(q.r) /\ row \in Row
        /\ new.kind = row.kind /\ new.status = row.status /\ q.op = "edit"
        /\ new.dueAtManual = IF q.dueAt = Keep THEN row.dueAtManual ELSE q.dueAtManual
        /\ ticket' = [ticket EXCEPT ![q.r] = new]
        /\ UNCHANGED now /\ serving' = [serving EXCEPT ![s] = Idle]
  BY WriteEditRow
<1>2. new.status \in Statuses(new.kind) BY <1>1, TheRow
<1>5. new.dueAtManual => HasSla(new.kind)
  <2>1. q.dueAtManual => HasSla(row.kind) BY <1>1 DEF DeskInv, Serving, FitIn
  <2> QED BY <1>1, <2>1, TheRow
<1>3. Rows' /\ RecordsStay BY <1>1, <1>2, <1>5, PutRow
<1>4. Stay BY <1>3, Untouched, StayParts
<1> QED BY <1>1, <1>3, <1>4, EndServing

LEMMA TicketStepTyped ==
  ASSUME DeskInv, TicketStep, UNCHANGED <<intakeVars, sweepVars>> PROVE DeskInv'
<1>1. UNCHANGED source /\ IntakeTypeOK' /\ SweepTypeOK' BY Untouched DEF intakeVars
<1>2. SUFFICES Rows' /\ Serving' BY <1>1 DEF DeskInv
<1>3. ASSUME NEW s \in Sessions, NEW r \in Records, CreateForClient(s, r)
      PROVE Rows' /\ Serving'
  <2>1. PICK row \in Row : /\ ~Exists(r) /\ row.status \in Statuses(row.kind)
                           /\ row.dueAtManual => HasSla(row.kind)
                           /\ ticket' = [ticket EXCEPT ![r] = row]
    BY <1>3, CreateRows
  <2>2. UNCHANGED <<now, serving>> BY <1>3 DEF CreateForClient
  <2>3. Rows' /\ RecordsStay BY <2>1, <2>2, PutRow
  <2> QED BY <1>1, <2>2, <2>3, StillServing, Untouched, StayParts
<1>4. ASSUME NEW s \in Sessions, Fail(s) PROVE Rows' /\ Serving'
  <2>1. UNCHANGED <<now, ticket>> /\ serving' = [serving EXCEPT ![s] = Idle]
    BY <1>4 DEF Fail, End
  <2> QED BY <1>1, <2>1, Untouched, StayParts, EndServing
<1>5. CASE Tick
  <2>1. UNCHANGED <<ticket, serving>> /\ now' \in Times
    BY <1>5, TicketsAssumption DEF Tick, DeskInv, Rows, Times
  <2>2. RecordsStay BY <2>1 DEF RecordsStay, Exists
  <2>3. Rows' BY <2>1 DEF DeskInv, Rows, Exists
  <2> QED BY <1>1, <2>1, <2>2, <2>3, StillServing, Untouched, StayParts
<1> QED
  BY <1>1, <1>3, <1>4, <1>5, ReadStatusTyped, ReadEditTyped, WriteStatusTyped, WriteEditTyped
  DEF TicketStep

----------------------------------------------------------------------------
(* Types: the requests of Intake.                                          *)

LEMMA MakeTyped ==
  ASSUME DeskInv, NEW x \in Sources, NEW r \in Records, NEW kind \in Kinds,
         Make(x, r, kind), UNCHANGED now
  PROVE /\ Rows' /\ RecordsStay /\ ~Exists(r) /\ Exists(r)'
        /\ made' = [made EXCEPT ![x] = @ \cup {r}]
        /\ ticket'[r].status = "OPEN" /\ ticket'[r].closedAt = Null
        /\ ticket'[r].resolvedAt = Null
        /\ \A t \in Records \ {r} : ticket'[t] = ticket[t]
<1>1. PICK priority \in Priorities, dueAt \in IF kind = "Task" THEN DueDates ELSE {Null} :
        ticket' = [ticket EXCEPT ![r] = NewRow(kind, priority, dueAt, FALSE, Null)]
  BY DEF Make
<1> DEFINE row == NewRow(kind, priority, dueAt, FALSE, Null)
<1>2. /\ row \in Row /\ row # Null /\ row.kind = kind /\ row.status \in Statuses(kind)
      /\ row.dueAtManual = FALSE
      /\ row.status = "OPEN" /\ row.closedAt = Null /\ row.resolvedAt = Null
  <2>1. PICK manual \in BOOLEAN : manual = FALSE OBVIOUS
  <2>2. now \in Times /\ dueAt \in Due BY TicketsAssumption DEF DeskInv, Rows, Due
  <2>3. row = NewRow(kind, priority, dueAt, manual, Null) BY <2>1
  <2>4. PICK due \in Due, who \in People \cup {Null} : due = dueAt /\ who = Null BY <2>2
  <2>5. row = NewRow(kind, priority, due, manual, who) BY <2>3, <2>4
  <2> HIDE DEF row
  <2> QED BY <2>1, <2>2, <2>5, NewRowTyped
<1> HIDE DEF row
<1>3. ~Exists(r) /\ ticket' = [ticket EXCEPT ![r] = row] /\ ticket \in [Records -> Row \cup {Null}]
  BY <1>1 DEF Make, DeskInv, Rows, row
<1>4. Rows' /\ RecordsStay BY <1>2, <1>3, PutRow
<1> QED BY <1>2, <1>3, <1>4 DEF Make, Exists

LEMMA MarkTyped ==
  ASSUME DeskInv, NEW s \in Sessions, NEW x \in Sources, Came(x),
         NEW status \in Open \cup {"CONVERTED", "REJECTED"}, NEW link \in Records \cup {Null},
         Mark(s, x, status, link)
  PROVE /\ source' \in [Sources -> Source \cup {Null}] /\ SourcesStay
        /\ overtaken' \subseteq Sources
<1>1. source[x] \in Source BY DEF DeskInv, IntakeTypeOK, Came
<1>2. [source[x] EXCEPT !.status = status, !.link = link] \in Source BY <1>1 DEF Source
<1>3. source' = [source EXCEPT ![x] = [source[x] EXCEPT !.status = status, !.link = link]]
  BY DEF Mark, DeskInv, IntakeTypeOK
<1>4. [source[x] EXCEPT !.status = status, !.link = link] # Null BY <1>2, IntakeAssumption
<1>5. overtaken' \subseteq Sources BY DEF Mark, DeskInv, IntakeTypeOK
<1> QED BY <1>2, <1>3, <1>4, <1>5 DEF SourcesStay, Came, DeskInv, IntakeTypeOK

\* What the request of a session of the triage names.
LEMMA TheRequest ==
  ASSUME DeskInv, NEW s \in Sessions
  PROVE /\ serving[s].op \in {"convert", "triage", "submission", "mark"} =>
             serving[s].x \in Sources /\ Came(serving[s].x)
        /\ serving[s].op = "convert" => serving[s].kind \in Kinds
        /\ serving[s].op = "triage" => serving[s].to \in {"UNDER_REVIEW", "REJECTED"}
        /\ serving[s].op = "mark" => serving[s].r \in Records /\ Exists(serving[s].r)
BY DEF DeskInv, Serving, FitIn, Requests, TicketRequest, IntakeRequest, Came, Exists

LEMMA NewTyped ==
  ASSUME DeskInv, NEW x \in Sources, NEW type \in Types, ~Came(x),
         source' = [source EXCEPT ![x] = New(type)]
  PROVE source' \in [Sources -> Source \cup {Null}] /\ SourcesStay
<1>1. New(type) \in Source BY DEF New, Source, Open
<1> QED BY <1>1, IntakeAssumption DEF DeskInv, IntakeTypeOK, SourcesStay, Came

LEMMA IntakeReadsTyped ==
  ASSUME DeskInv, NEW s \in Sessions, NEW x \in Sources,
         ReadConvert(s, x) \/ ReadTriage(s, x) \/ ReadSubmission(s, x)
  PROVE Rows' /\ Serving' /\ UNCHANGED intakeVars
<1>1. UNCHANGED intakeVars /\ UNCHANGED source
  BY DEF ReadConvert, ReadTriage, ReadSubmission, intakeVars
<1>3. CASE ReadConvert(s, x)
  <2>1. PICK kind \in ConversionKinds :
          Begin(s, [op |-> "convert", x |-> x, was |-> source[x].status, kind |-> kind])
    BY <1>3 DEF ReadConvert
  <2> DEFINE q == [op |-> "convert", x |-> x, was |-> source[x].status, kind |-> kind]
  <2>2. Came(x) /\ source[x].status \in Open BY <1>3 DEF ReadConvert, MayConvert
  <2>3. q \in Requests BY <2>2 DEF Requests, IntakeRequest, ConversionKinds
  <2>4. FitIn(ticket, source, q) BY <2>2 DEF FitIn, Came
  <2> QED BY <1>1, <2>1, <2>3, <2>4, BeginFits
<1>4. CASE ReadTriage(s, x)
  <2>1. PICK to \in {"UNDER_REVIEW", "REJECTED"} :
          Begin(s, [op |-> "triage", x |-> x, was |-> source[x].status, to |-> to])
    BY <1>4 DEF ReadTriage
  <2> DEFINE q == [op |-> "triage", x |-> x, was |-> source[x].status, to |-> to]
  <2>2. Came(x) /\ source[x].status \in Open
    BY <1>4 DEF ReadTriage, Came, DeskInv, IntakeTypeOK, Source
  <2>3. q \in Requests BY <2>2 DEF Requests, IntakeRequest
  <2>4. FitIn(ticket, source, q) BY <2>2 DEF FitIn, Came
  <2> QED BY <1>1, <2>1, <2>3, <2>4, BeginFits
<1>5. CASE ReadSubmission(s, x)
  <2> DEFINE q == [op |-> "submission", x |-> x, was |-> "NEW"]
  <2>1. q \in Requests BY DEF Requests, IntakeRequest
  <2>2. FitIn(ticket, source, q) BY <1>5 DEF ReadSubmission, FitIn, Came
  <2> QED BY <1>1, <1>5, <2>1, <2>2, BeginFits DEF ReadSubmission
<1> QED BY <1>1, <1>3, <1>4, <1>5

LEMMA ArrivesTyped ==
  ASSUME DeskInv, NEW x \in Sources,
         \/ CreatePublic(x) \/ AgeOut(x)
         \/ ~Came(x) /\ source' = [source EXCEPT ![x] = New("REQUEST_INTAKE")]
  PROVE source' \in [Sources -> Source \cup {Null}] /\ SourcesStay
<1>1. CASE CreatePublic(x) BY <1>1, NewTyped DEF CreatePublic, Types
<1>2. CASE ~Came(x) /\ source' = [source EXCEPT ![x] = New("REQUEST_INTAKE")]
  BY <1>2, NewTyped DEF Types
<1>3. CASE AgeOut(x)
  <2>1. source[x] \in Source BY <1>3 DEF AgeOut, DeskInv, IntakeTypeOK, Came
  <2>2. [source[x] EXCEPT !.recent = FALSE] \in Source BY <2>1 DEF Source
  <2>3. source' = [source EXCEPT ![x] = [source[x] EXCEPT !.recent = FALSE]]
    BY <1>3 DEF AgeOut, DeskInv, IntakeTypeOK
  <2> QED BY <2>2, <2>3, IntakeAssumption DEF SourcesStay, Came, DeskInv, IntakeTypeOK
<1> QED BY <1>1, <1>2, <1>3

LEMMA ConversionsTyped ==
  ASSUME DeskInv, NEW s \in Sessions,
         \/ \E r \in Records : CommitConvert(s, r) \/ CreateFromSubmission(s, r)
         \/ CommitTriage(s) \/ MarkSubmission(s) \/ FailIntake(s)
  PROVE Rows' /\ Serving' /\ IntakeTypeOK'
<1> DEFINE q == serving[s]
<1>0. UNCHANGED <<now, unseen>>
  BY DEF CommitConvert, CommitTriage, CreateFromSubmission, MarkSubmission, FailIntake, End
<1>1. ASSUME NEW r \in Records, CommitConvert(s, r) PROVE Rows' /\ Serving' /\ IntakeTypeOK'
  <2>1. q.x \in Sources /\ Came(q.x) /\ q.kind \in Kinds
    BY <1>1, TheRequest DEF CommitConvert
  <2>2. /\ Make(q.x, r, q.kind) /\ Mark(s, q.x, "CONVERTED", r) /\ UNCHANGED abandoned
        /\ serving' = [serving EXCEPT ![s] = Idle]
    BY <1>1 DEF CommitConvert, End
  <2>3. Rows' /\ RecordsStay /\ made' = [made EXCEPT ![q.x] = @ \cup {r}]
    BY <1>0, <2>1, <2>2, MakeTyped
  <2>4. /\ source' \in [Sources -> Source \cup {Null}] /\ SourcesStay
        /\ overtaken' \subseteq Sources
    BY <2>1, <2>2, MarkTyped
  <2>5. Serving' BY <2>2, <2>3, <2>4, StayParts, EndServing
  <2> QED BY <1>0, <2>1, <2>2, <2>3, <2>4, <2>5 DEF DeskInv, IntakeTypeOK
<1>2. CASE CommitTriage(s)
  <2>1. q.x \in Sources /\ Came(q.x) /\ q.to \in {"UNDER_REVIEW", "REJECTED"}
    BY <1>2, TheRequest DEF CommitTriage
  <2>2. /\ Mark(s, q.x, q.to, source[q.x].link) /\ UNCHANGED <<ticket, made, abandoned>>
        /\ serving' = [serving EXCEPT ![s] = Idle]
    BY <1>2 DEF CommitTriage, End
  <2>3. source[q.x].link \in Records \cup {Null}
    BY <2>1 DEF DeskInv, IntakeTypeOK, Came, Source
  <2>4. /\ source' \in [Sources -> Source \cup {Null}] /\ SourcesStay
        /\ overtaken' \subseteq Sources
    BY <2>1, <2>2, <2>3, MarkTyped DEF Open
  <2>5. Rows' /\ Stay BY <1>0, <2>2, <2>4, Untouched, StayParts
  <2>6. Serving' BY <2>2, <2>5, EndServing
  <2> QED BY <1>0, <2>2, <2>4, <2>5, <2>6 DEF DeskInv, IntakeTypeOK
<1>3. ASSUME NEW r \in Records, CreateFromSubmission(s, r)
      PROVE Rows' /\ Serving' /\ IntakeTypeOK'
  <2>1. q.x \in Sources /\ Came(q.x) BY <1>3, TheRequest DEF CreateFromSubmission
  <2> DEFINE m == [op |-> "mark", x |-> q.x, was |-> "NEW", r |-> r]
  <2>2. /\ Make(q.x, r, "ServiceRequest") /\ UNCHANGED <<source, overtaken, abandoned>>
        /\ serving' = [serving EXCEPT ![s] = m]
    BY <1>3 DEF CreateFromSubmission
  <2>3. Rows' /\ RecordsStay /\ Exists(r)' /\ made' = [made EXCEPT ![q.x] = @ \cup {r}]
    BY <1>0, <2>1, <2>2, MakeTyped, IntakeAssumption
  <2>4. Stay BY <2>2, <2>3, Untouched, StayParts
  <2>5. m \in Requests BY <2>1 DEF Requests, IntakeRequest
  <2>6. FitIn(ticket', source', m) BY <2>1, <2>2, <2>3 DEF FitIn, Exists, Came
  <2>7. Serving'
    <3> HIDE DEF m
    <3> QED BY <2>2, <2>4, <2>5, <2>6, ServingNext
  <2> QED BY <1>0, <2>1, <2>2, <2>3, <2>7 DEF DeskInv, IntakeTypeOK
<1>4. CASE MarkSubmission(s)
  <2>1. q.x \in Sources /\ Came(q.x) /\ q.r \in Records
    BY <1>4, TheRequest DEF MarkSubmission
  <2>2. /\ Mark(s, q.x, "CONVERTED", q.r) /\ UNCHANGED <<ticket, made, abandoned>>
        /\ serving' = [serving EXCEPT ![s] = Idle]
    BY <1>4 DEF MarkSubmission, End
  <2>3. /\ source' \in [Sources -> Source \cup {Null}] /\ SourcesStay
        /\ overtaken' \subseteq Sources
    BY <2>1, <2>2, MarkTyped
  <2>4. Rows' /\ Stay BY <1>0, <2>2, <2>3, Untouched, StayParts
  <2>5. Serving' BY <2>2, <2>4, EndServing
  <2> QED BY <1>0, <2>2, <2>3, <2>4, <2>5 DEF DeskInv, IntakeTypeOK
<1>5. CASE FailIntake(s)
  <2>1. /\ UNCHANGED <<ticket, source, made, overtaken>>
        /\ serving' = [serving EXCEPT ![s] = Idle]
    BY <1>5 DEF FailIntake, End
  <2>2. abandoned' \subseteq Records
    BY <1>5, TheRequest DEF FailIntake, DeskInv, IntakeTypeOK
  <2>3. Rows' /\ Stay BY <1>0, <2>1, Untouched, StayParts
  <2>4. Serving' BY <2>1, <2>3, EndServing
  <2> QED BY <1>0, <2>1, <2>2, <2>3, <2>4 DEF DeskInv, IntakeTypeOK
<1> QED BY <1>1, <1>2, <1>3, <1>4, <1>5

LEMMA IntakeStepTyped ==
  ASSUME DeskInv, IntakeStep, UNCHANGED sweepVars PROVE DeskInv'
<1>1. SweepTypeOK' BY Untouched
<1>2. SUFFICES Rows' /\ Serving' /\ IntakeTypeOK' BY <1>1 DEF DeskInv
<1>3. ASSUME NEW x \in Sources, CreatePublic(x) \/ AgeOut(x)
      PROVE Rows' /\ Serving' /\ IntakeTypeOK'
  <2>1. UNCHANGED <<now, ticket, serving, made, overtaken, abandoned, unseen>>
    BY <1>3 DEF CreatePublic, AgeOut
  <2>2. source' \in [Sources -> Source \cup {Null}] /\ SourcesStay BY <1>3, ArrivesTyped
  <2>3. Rows' /\ Stay BY <2>1, <2>2, Untouched, StayParts
  <2> QED BY <2>1, <2>2, <2>3, StillServing DEF DeskInv, IntakeTypeOK
<1>4. ASSUME NEW s \in Sessions, ReadIntake(s) PROVE Rows' /\ Serving' /\ IntakeTypeOK'
  <2> DEFINE q == [op |-> "intake", there |-> Intakes]
  <2>1. q \in Requests BY DEF Requests, IntakeRequest, Intakes
  <2>2. FitIn(ticket, source, q) BY DEF FitIn
  <2>3. UNCHANGED intakeVars /\ UNCHANGED source BY <1>4 DEF ReadIntake, intakeVars
  <2> QED BY <1>4, <2>1, <2>2, <2>3, BeginFits, Untouched DEF ReadIntake
<1>5. ASSUME NEW s \in Sessions, NEW x \in Sources,
             ReadConvert(s, x) \/ ReadTriage(s, x) \/ ReadSubmission(s, x)
      PROVE Rows' /\ Serving' /\ IntakeTypeOK'
  BY <1>5, IntakeReadsTyped, Untouched
<1>8. ASSUME NEW s \in Sessions, NEW x \in Sources, WriteIntake(s, x)
      PROVE Rows' /\ Serving' /\ IntakeTypeOK'
  <2>1. /\ UNCHANGED <<now, ticket, made, overtaken, abandoned>>
        /\ serving' = [serving EXCEPT ![s] = Idle]
    BY <1>8 DEF WriteIntake, End
  <2>2. source' \in [Sources -> Source \cup {Null}] /\ SourcesStay
    BY <1>8, ArrivesTyped DEF WriteIntake
  <2>3. Rows' /\ Stay BY <2>1, <2>2, Untouched, StayParts
  <2>4. unseen' \in [Sources -> SUBSET Sources]
    BY <1>8 DEF WriteIntake, DeskInv, IntakeTypeOK, OpenRecent, Intakes
  <2> QED BY <2>1, <2>2, <2>3, <2>4, EndServing DEF DeskInv, IntakeTypeOK
<1>6. ASSUME NEW s \in Sessions, CommitTriage(s) \/ MarkSubmission(s) \/ FailIntake(s)
      PROVE Rows' /\ Serving' /\ IntakeTypeOK'
  BY <1>6, ConversionsTyped
<1>7. ASSUME NEW s \in Sessions, NEW r \in Records,
             CommitConvert(s, r) \/ CreateFromSubmission(s, r)
      PROVE Rows' /\ Serving' /\ IntakeTypeOK'
  BY <1>7, ConversionsTyped
<1> QED BY <1>3, <1>4, <1>5, <1>6, <1>7, <1>8 DEF IntakeStep

----------------------------------------------------------------------------
(* Types: the sweeps.                                                      *)

RowsState == [op : {"rows"}, now : Times, left : Tails, rows : SUBSET SweepRow]
EmitState == [op : {"emit"}, now : Times, left : Tails, rows : SUBSET SweepRow,
              row : SweepRow, anyone : BOOLEAN]

LEMMA SweepStates ==
  /\ SweepState = {Resting} \cup RowsState \cup EmitState
  /\ \A state \in SweepState :
       /\ state.op = "rows" => state \in RowsState
       /\ state.op = "emit" => state \in EmitState
       /\ state.op \in {"rows", "emit"} => state # Resting
BY DEF SweepState, RowsState, EmitState, Resting

\* A sweeper whose state is replaced by one of the right shape.
LEMMA SweptTyped ==
  ASSUME DeskInv, NEW w \in Sweepers, NEW state \in SweepState, Swept(w, state)
  PROVE sweep' \in [Sweepers -> SweepState]
BY DEF DeskInv, SweepTypeOK, Swept

LEMMA ChosenRow ==
  ASSUME DeskInv, NEW w \in Sweepers, sweep[w].op = "rows"
  PROVE /\ sweep[w] \in RowsState
        /\ \A row \in sweep[w].rows :
             /\ row \in SweepRow
             /\ [sweep[w] EXCEPT !.rows = @ \ {row}] \in SweepState
<1>1. sweep[w] \in RowsState BY SweepStates DEF DeskInv, SweepTypeOK
<1>2. ASSUME NEW row \in sweep[w].rows
      PROVE /\ row \in SweepRow
            /\ [sweep[w] EXCEPT !.rows = @ \ {row}] \in RowsState
  BY <1>1 DEF RowsState
<1> QED BY <1>1, <1>2, SweepStates

LEMMA FetchTyped ==
  ASSUME DeskInv, NEW w \in Sweepers, Fetch(w) PROVE sweep' \in [Sweepers -> SweepState]
<1> DEFINE s == sweep[w]
           rows == {[r |-> r, signal |-> SignalAt(r, s.now), assigneeId |-> ticket[r].assigneeId] :
                      r \in OpenDue(Head(s.left), s.now)}
<1>1. s \in RowsState /\ s.left # <<>> BY ChosenRow DEF Fetch
<1>2. Tail(s.left) \in Tails
  <2>1. s.left \in Tails BY <1>1 DEF RowsState
  <2>2. Tail(<<"Incident", "ServiceRequest", "Task">>) = <<"ServiceRequest", "Task">> OBVIOUS
  <2>3. Tail(<<"ServiceRequest", "Task">>) = <<"Task">> OBVIOUS
  <2>4. Tail(<<"Task">>) = <<>> OBVIOUS
  <2> QED BY <1>1, <2>1, <2>2, <2>3, <2>4 DEF Tails, SweptKinds
<1>3. rows \subseteq SweepRow
  <2>1. ASSUME NEW r \in OpenDue(Head(s.left), s.now)
        PROVE [r |-> r, signal |-> SignalAt(r, s.now), assigneeId |-> ticket[r].assigneeId]
              \in SweepRow
    <3>1. r \in Records /\ Exists(r) BY DEF OpenDue, Live
    <3>2. ticket[r].assigneeId \in People \cup {Null} BY <3>1, TheRow DEF Row
    <3>3. SignalAt(r, s.now) \in Signals BY DEF SignalAt, Signals
    <3> QED BY <3>1, <3>2, <3>3 DEF SweepRow, Signals
  <2> QED BY <2>1
<1>4. [s EXCEPT !.left = Tail(@), !.rows = rows] \in RowsState
  <2> HIDE DEF rows
  <2> QED BY <1>1, <1>2, <1>3 DEF RowsState
<1>5. Swept(w, [s EXCEPT !.left = Tail(@), !.rows = rows]) BY DEF Fetch
<1> HIDE DEF rows
<1> QED BY <1>4, <1>5, SweepStates, SweptTyped

LEMMA ClaimTyped ==
  ASSUME DeskInv, NEW w \in Sweepers, Claim(w)
  PROVE sweep' \in [Sweepers -> SweepState] /\ markers' \subseteq Alerts
<1>1. sweep[w].op = "rows" BY DEF Claim
<1>2. PICK row \in sweep[w].rows :
       IF Unclaimed(row)
       THEN /\ markers' = markers \cup {<<row.r, row.signal>>}
            /\ Swept(w, [op |-> "emit", now |-> sweep[w].now, left |-> sweep[w].left,
                         rows |-> sweep[w].rows \ {row}, row |-> row,
                         anyone |-> Anyone(row)])
       ELSE Drop(w, row) /\ UNCHANGED markers
  BY DEF Claim
<1>3. /\ sweep[w] \in RowsState /\ row \in SweepRow
      /\ [sweep[w] EXCEPT !.rows = @ \ {row}] \in SweepState
  BY <1>1, ChosenRow
<1>4. <<row.r, row.signal>> \in Alerts BY <1>3 DEF SweepRow, Alerts, Signals
<1>5. CASE Unclaimed(row)
  <2> DEFINE state == [op |-> "emit", now |-> sweep[w].now, left |-> sweep[w].left,
                       rows |-> sweep[w].rows \ {row}, row |-> row, anyone |-> Anyone(row)]
  <2>1. state \in EmitState BY <1>3 DEF EmitState, RowsState, Anyone
  <2>2. Swept(w, state) /\ markers' = markers \cup {<<row.r, row.signal>>} BY <1>2, <1>5
  <2> HIDE DEF state
  <2>3. sweep' \in [Sweepers -> SweepState] BY <2>1, <2>2, SweepStates, SweptTyped
  <2> QED BY <1>4, <2>2, <2>3 DEF DeskInv, SweepTypeOK
<1>6. CASE ~Unclaimed(row)
  BY <1>2, <1>3, <1>6, SweptTyped DEF Drop, DeskInv, SweepTypeOK
<1> QED BY <1>5, <1>6

LEMMA OnwardTyped ==
  ASSUME DeskInv, NEW w \in Sweepers, sweep[w].op = "emit", Onward(w)
  PROVE /\ sweep' \in [Sweepers -> SweepState]
        /\ <<sweep[w].row.r, sweep[w].row.signal>> \in Alerts
<1> DEFINE state == [op |-> "rows", now |-> sweep[w].now, left |-> sweep[w].left,
                     rows |-> sweep[w].rows]
<1>1. sweep[w] \in EmitState BY SweepStates DEF DeskInv, SweepTypeOK
<1>2. state \in RowsState BY <1>1 DEF EmitState, RowsState
<1>3. Swept(w, state) BY DEF Onward
<1>4. <<sweep[w].row.r, sweep[w].row.signal>> \in Alerts
  BY <1>1 DEF EmitState, SweepRow, Alerts, Signals
<1> HIDE DEF state
<1> QED BY <1>2, <1>3, <1>4, SweepStates, SweptTyped

LEMMA UntellTyped ==
  ASSUME DeskInv, NEW w \in Sweepers, Untell(w) PROVE untold' \subseteq Alerts
<1>1. CASE sweep[w].op = "emit"
  <2>1. sweep[w] \in EmitState BY <1>1, SweepStates DEF DeskInv, SweepTypeOK
  <2>2. <<sweep[w].row.r, sweep[w].row.signal>> \in Alerts
    BY <2>1 DEF EmitState, SweepRow, Alerts, Signals
  <2> QED BY <1>1, <2>2 DEF Untell, DeskInv, SweepTypeOK
<1>2. CASE sweep[w].op # "emit" BY <1>2 DEF Untell, DeskInv, SweepTypeOK
<1> QED BY <1>1, <1>2

LEMMA SweeperTyped ==
  ASSUME DeskInv, NEW w \in Sweepers,
         SweeperStep(w) \/ ClaimFails(w) \/ EmitFails(w) \/ SweepDies(w), UNCHANGED ticketVars
  PROVE SweepTypeOK'
<1>0. /\ watching \subseteq Records /\ markers \subseteq Alerts
      /\ sweep \in [Sweepers -> SweepState] /\ alerts \in [Alerts -> Nat]
      /\ untold \subseteq Alerts /\ troubles \in 0..MaxTroubles
  BY DEF DeskInv, SweepTypeOK
<1>t. troubles < MaxTroubles => troubles + 1 \in 0..MaxTroubles BY <1>0, SweepAssumption
<1>r. Resting \in SweepState BY SweepStates
<1> USE DEF SweepTypeOK
<1>1. CASE StartSweep(w)
  <2> DEFINE state == [op |-> "rows", now |-> now, left |-> SweptKinds, rows |-> {}]
  <2>1. state \in RowsState BY DEF RowsState, Tails, DeskInv, Rows
  <2>2. Swept(w, state) BY <1>1 DEF StartSweep
  <2> HIDE DEF state
  <2>3. sweep' \in [Sweepers -> SweepState] BY <2>1, <2>2, SweepStates, SweptTyped
  <2> QED BY <1>0, <1>1, <2>3 DEF StartSweep
<1>2. CASE Fetch(w) BY <1>0, <1>2, FetchTyped DEF Fetch
<1>3. CASE Skip(w) BY <1>0, <1>3, ChosenRow, SweptTyped DEF Skip, Drop
<1>4. CASE Claim(w) BY <1>0, <1>4, ClaimTyped DEF Claim
<1>5. CASE Emit(w)
  <2>1. /\ sweep' \in [Sweepers -> SweepState]
        /\ <<sweep[w].row.r, sweep[w].row.signal>> \in Alerts
    BY <1>5, OnwardTyped DEF Emit
  <2>2. alerts' \in [Alerts -> Nat] BY <1>0, <1>5, <2>1 DEF Emit
  <2> QED BY <1>0, <1>5, <2>1, <2>2 DEF Emit
<1>6. CASE EndSweep(w) BY <1>0, <1>r, <1>6, SweptTyped DEF EndSweep
<1>7. CASE ClaimFails(w)
  <2>1. sweep' \in [Sweepers -> SweepState]
    BY <1>7, ChosenRow, SweptTyped DEF ClaimFails, Drop
  <2> QED BY <1>0, <1>t, <1>7, <2>1 DEF ClaimFails
<1>8. CASE EmitFails(w)
  <2>1. sweep' \in [Sweepers -> SweepState] BY <1>8, OnwardTyped DEF EmitFails
  <2>2. untold' \subseteq Alerts BY <1>8, UntellTyped DEF EmitFails
  <2> QED BY <1>0, <1>t, <1>8, <2>1, <2>2 DEF EmitFails
<1>9. CASE SweepDies(w)
  <2>1. sweep' \in [Sweepers -> SweepState] BY <1>r, <1>9, SweptTyped DEF SweepDies
  <2>2. untold' \subseteq Alerts BY <1>9, UntellTyped DEF SweepDies
  <2> QED BY <1>0, <1>t, <1>9, <2>1, <2>2 DEF SweepDies
<1> QED BY <1>1, <1>2, <1>3, <1>4, <1>5, <1>6, <1>7, <1>8, <1>9 DEF SweeperStep

LEMMA SweepStepTyped ==
  ASSUME DeskInv, SweepStep, UNCHANGED intakeVars PROVE DeskInv'
<1>1. UNCHANGED ticketVars BY DEF SweepStep
<1>2. UNCHANGED <<now, ticket, serving, source>> BY <1>1 DEF ticketVars, intakeVars
<1>3. Rows' /\ Stay BY <1>2, Untouched, StayParts
<1>4. Serving' BY <1>2, <1>3, StillServing
<1>5. SweepTypeOK'
  <2>1. ASSUME NEW r \in Records, Watch(r) PROVE SweepTypeOK'
    BY <2>1 DEF Watch, DeskInv, SweepTypeOK
  <2> QED BY <1>1, <2>1, SweeperTyped DEF SweepStep
<1> QED BY <1>3, <1>4, <1>5, Untouched DEF DeskInv

----------------------------------------------------------------------------

LEMMA InitTyped == DeskInit => DeskInv
<1> SUFFICES ASSUME DeskInit PROVE DeskInv OBVIOUS
<1>1. Rows BY TicketsAssumption DEF DeskInit, TicketsInit, Rows, Times, Exists
<1>2. Serving
  <2>1. Idle \in Requests /\ FitIn(ticket, source, Idle)
    BY DEF Idle, Requests, TicketRequest, FitIn
  <2> QED BY <2>1 DEF DeskInit, TicketsInit, Serving
<1>3. IntakeTypeOK BY DEF DeskInit, IntakeInit, IntakeTypeOK
<1>4. SweepTypeOK BY SweepAssumption, SweepStates DEF DeskInit, SweepInit, SweepTypeOK
<1> QED BY <1>1, <1>2, <1>3, <1>4 DEF DeskInv

LEMMA DeskInvNext == DeskInv /\ [DeskNext]_deskVars => DeskInv'
<1> SUFFICES ASSUME DeskInv, [DeskNext]_deskVars PROVE DeskInv' OBVIOUS
<1>1. CASE UNCHANGED deskVars
  <2>1. UNCHANGED <<now, ticket, serving, source, intakeVars, sweepVars>>
    BY <1>1 DEF deskVars, ticketVars, intakeVars
  <2>2. Rows' /\ Stay BY <2>1, Untouched, StayParts
  <2> QED BY <2>1, <2>2, StillServing, Untouched DEF DeskInv
<1> QED BY <1>1, TicketStepTyped, IntakeStepTyped, SweepStepTyped DEF DeskNext

LEMMA DeskAlways == DeskSpec => []DeskInv
BY InitTyped, DeskInvNext, PTL DEF DeskSpec

\* Every row, source and sweep, and every request in service, is of its type,
\* whatever the sessions, the sweeps and the triage do to each other.
THEOREM DeskTyped == DeskSpec => []DeskTypeOK
BY DeskAlways, InvImpliesType, PTL

----------------------------------------------------------------------------
(* The dates and the pin.                                                  *)

\* What a step may do to a row: nothing, create it open, or one write of a
\* request that names it.
Created(r) ==
  /\ ~Exists(r) /\ Exists(r)'
  /\ ticket'[r].status = "OPEN" /\ ticket'[r].closedAt = Null /\ ticket'[r].resolvedAt = Null

StatusWritten(r, s) ==
  /\ serving[s].op = "status" /\ serving[s].r = r /\ serving'[s] = Idle
  /\ Exists(r) /\ Exists(r)'
  /\ serving[s].to \in Statuses(ticket[r].kind)
  /\ ticket'[r].kind = ticket[r].kind /\ ticket'[r].status = serving[s].to
  /\ ticket'[r].closedAt = ClosedAtAfter(serving[s], ticket[r])
  /\ ticket'[r].resolvedAt = ResolvedAtAfter(serving[s], ticket[r])
  /\ ticket'[r].dueAtManual = ticket[r].dueAtManual

Edited(r, s) ==
  /\ serving[s].op = "edit" /\ serving[s].r = r /\ serving'[s] = Idle
  /\ Exists(r) /\ Exists(r)'
  /\ ticket'[r].kind = ticket[r].kind /\ ticket'[r].status = ticket[r].status
  /\ ticket'[r].closedAt = ticket[r].closedAt /\ ticket'[r].resolvedAt = ticket[r].resolvedAt
  /\ ticket'[r].dueAtManual = IF serving[s].dueAt = Keep THEN ticket[r].dueAtManual
                              ELSE serving[s].dueAtManual

LEMMA StatusWrites ==
  ASSUME DeskInv, NEW s \in Sessions, WriteStatus(s), NEW r \in Records
  PROVE ticket'[r] = ticket[r] \/ StatusWritten(r, s)
<1> DEFINE q == serving[s]  row == ticket[q.r]
           new == [row EXCEPT !.status = q.to, !.closedAt = ClosedAtAfter(q, row),
                              !.resolvedAt = ResolvedAtAfter(q, row)]
<1>1. /\ q.r \in Records /\ Exists(q.r) /\ q.op = "status" /\ row \in Row
      /\ q.to \in Statuses(row.kind) /\ new \in Row
      /\ ticket' = [ticket EXCEPT ![q.r] = new] /\ serving' = [serving EXCEPT ![s] = Idle]
  BY WriteStatusRow
<1>2. /\ new.kind = row.kind /\ new.status = q.to /\ new.closedAt = ClosedAtAfter(q, row)
      /\ new.resolvedAt = ResolvedAtAfter(q, row) /\ new.dueAtManual = row.dueAtManual
  BY <1>1 DEF Row
<1> HIDE DEF new
<1>3. ticket \in [Records -> Row \cup {Null}] /\ serving \in [Sessions -> Requests]
  BY DEF DeskInv, Rows, Serving
<1>4. CASE q.r = r BY <1>1, <1>2, <1>3, <1>4, NullIsNoRow DEF StatusWritten, Exists
<1>5. CASE q.r # r BY <1>1, <1>3, <1>5
<1> QED BY <1>4, <1>5

LEMMA EditWrites ==
  ASSUME DeskInv, NEW s \in Sessions, WriteEdit(s), NEW r \in Records
  PROVE ticket'[r] = ticket[r] \/ Edited(r, s)
<1> DEFINE q == serving[s]  row == ticket[q.r]
<1>1. PICK new \in Row :
        /\ q.r \in Records /\ Exists(q.r) /\ q.op = "edit" /\ row \in Row
        /\ new.kind = row.kind /\ new.status = row.status
        /\ new.closedAt = row.closedAt /\ new.resolvedAt = row.resolvedAt
        /\ new.dueAtManual = IF q.dueAt = Keep THEN row.dueAtManual ELSE q.dueAtManual
        /\ ticket' = [ticket EXCEPT ![q.r] = new]
        /\ serving' = [serving EXCEPT ![s] = Idle]
  BY WriteEditRow
<1>2. ticket \in [Records -> Row \cup {Null}] /\ serving \in [Sessions -> Requests]
  BY DEF DeskInv, Rows, Serving
<1>3. CASE q.r = r BY <1>1, <1>2, <1>3, NullIsNoRow DEF Edited, Exists
<1>4. CASE q.r # r BY <1>1, <1>2, <1>4
<1> QED BY <1>3, <1>4

LEMMA MakeCreates ==
  ASSUME DeskInv, NEW x \in Sources, NEW t \in Records, NEW kind \in Kinds,
         Make(x, t, kind), UNCHANGED now, NEW r \in Records
  PROVE ticket'[r] = ticket[r] \/ Created(r)
BY MakeTyped DEF Created

LEMMA RowStep ==
  ASSUME DeskInv, [DeskNext]_deskVars, NEW r \in Records
  PROVE \/ ticket'[r] = ticket[r]
        \/ Created(r)
        \/ \E s \in Sessions : StatusWritten(r, s) \/ Edited(r, s)
<1> DEFINE Goal == \/ ticket'[r] = ticket[r]
                   \/ Created(r)
                   \/ \E s \in Sessions : StatusWritten(r, s) \/ Edited(r, s)
<1>1. CASE TicketStep
  <2>1. ASSUME NEW s \in Sessions, NEW t \in Records, CreateForClient(s, t) PROVE Goal
    <3>1. PICK row \in Row :
            /\ ~Exists(t) /\ row.status = "OPEN" /\ row.closedAt = Null
            /\ row.resolvedAt = Null /\ row # Null /\ ticket' = [ticket EXCEPT ![t] = row]
      BY <2>1, CreateRows
    <3> QED BY <3>1 DEF Created, Exists, DeskInv, Rows
  <2>2. ASSUME NEW s \in Sessions, NEW t \in Records,
               ReadStatus(s, t) \/ ReadClose(s, t) \/ ReadEdit(s, t) \/ Fail(s)
        PROVE Goal
    BY <2>2 DEF ReadStatus, ReadClose, ReadEdit, Begin, Fail
  <2>3. ASSUME NEW s \in Sessions, Fail(s) PROVE Goal BY <2>3 DEF Fail
  <2>4. CASE Tick BY <2>4 DEF Tick
  <2> QED BY <1>1, <2>1, <2>2, <2>3, <2>4, StatusWrites, EditWrites DEF TicketStep
<1>2. CASE IntakeStep
  <2>1. ASSUME NEW s \in Sessions, NEW t \in Records, CommitConvert(s, t) PROVE Goal
    <3>1. /\ Make(serving[s].x, t, serving[s].kind) /\ UNCHANGED now
          /\ serving[s].x \in Sources /\ serving[s].kind \in Kinds
      BY <2>1, TheRequest DEF CommitConvert, End
    <3> QED BY <3>1, MakeCreates
  <2>2. ASSUME NEW s \in Sessions, NEW t \in Records, CreateFromSubmission(s, t) PROVE Goal
    <3>1. /\ Make(serving[s].x, t, "ServiceRequest") /\ UNCHANGED now
          /\ serving[s].x \in Sources
      BY <2>2, TheRequest DEF CreateFromSubmission
    <3> QED BY <3>1, MakeCreates, IntakeAssumption
  <2>3. ASSUME NEW x \in Sources, CreatePublic(x) \/ AgeOut(x) PROVE Goal
    BY <2>3 DEF CreatePublic, AgeOut
  <2>4. ASSUME NEW s \in Sessions, NEW x \in Sources,
               WriteIntake(s, x) \/ ReadConvert(s, x) \/ ReadTriage(s, x) \/ ReadSubmission(s, x)
        PROVE Goal
    BY <2>4 DEF WriteIntake, ReadConvert, ReadTriage, ReadSubmission, Begin
  <2>5. ASSUME NEW s \in Sessions,
               ReadIntake(s) \/ CommitTriage(s) \/ MarkSubmission(s) \/ FailIntake(s)
        PROVE Goal
    BY <2>5 DEF ReadIntake, Begin, CommitTriage, MarkSubmission, FailIntake
  <2> QED BY <1>2, <2>1, <2>2, <2>3, <2>4, <2>5 DEF IntakeStep
<1>3. CASE SweepStep BY <1>3 DEF SweepStep, ticketVars
<1>4. CASE UNCHANGED deskVars BY <1>4 DEF deskVars, ticketVars
<1> QED BY <1>1, <1>2, <1>3, <1>4 DEF DeskNext

LEMMA NowIsNoNull == DeskInv => now # Null
BY TicketsAssumption DEF DeskInv, Rows, Times

\* However requests overlap, no record of the live list carries a closedAt.
THEOREM LiveWithoutClosedAt == DeskSpec => []LiveHasNoClosedAt
<1>1. DeskInit => LiveHasNoClosedAt
  BY DEF DeskInit, TicketsInit, LiveHasNoClosedAt, Live, Exists
<1>2. DeskInv /\ LiveHasNoClosedAt /\ [DeskNext]_deskVars => LiveHasNoClosedAt'
  <2> SUFFICES ASSUME DeskInv, LiveHasNoClosedAt, [DeskNext]_deskVars,
                      NEW r \in Records, Live(r)'
               PROVE ticket'[r].closedAt = Null
    BY DEF LiveHasNoClosedAt
  <2>1. CASE ticket'[r] = ticket[r] BY <2>1 DEF LiveHasNoClosedAt, Live, Exists
  <2>2. CASE Created(r) BY <2>2 DEF Created
  <2>3. ASSUME NEW s \in Sessions, StatusWritten(r, s) PROVE ticket'[r].closedAt = Null
    BY <2>3 DEF StatusWritten, Live, ClosedAtAfter
  <2>4. ASSUME NEW s \in Sessions, Edited(r, s) PROVE ticket'[r].closedAt = Null
    BY <2>4 DEF Edited, LiveHasNoClosedAt, Live
  <2> QED BY <2>1, <2>2, <2>3, <2>4, RowStep
<1> QED BY <1>1, <1>2, DeskAlways, PTL DEF DeskSpec

\* Only a write of a status computed from another one breaks the dates.
THEOREM DatesKept == DeskSpec => DatesFollowStatus
<1>1. DeskInv /\ [DeskNext]_deskVars =>
        [\A r \in Records : DatesRight(r) => DatesRight(r)' \/ StaleStatusWrite(r)]_ticketVars
  <2> SUFFICES ASSUME DeskInv, [DeskNext]_deskVars, NEW r \in Records,
                      DatesRight(r), ~StaleStatusWrite(r)
               PROVE DatesRight(r)'
    OBVIOUS
  <2> USE DEF DatesRight, Closed, IsResolved
  <2>1. CASE ticket'[r] = ticket[r] BY <2>1 DEF Exists
  <2>2. CASE Created(r) BY <2>2 DEF Created, Terminal, Resolved
  <2>3. ASSUME NEW s \in Sessions, StatusWritten(r, s) PROVE DatesRight(r)'
    <3>1. serving[s].was = ticket[r].status BY <2>3 DEF StatusWritten, StaleStatusWrite
    <3>2. now # Null BY NowIsNoNull
    <3>3. Closed(r)' <=> ticket'[r].closedAt # Null
      BY <2>3, <3>1, <3>2 DEF StatusWritten, ClosedAtAfter
    <3>4. IsResolved(r)' <=> ticket'[r].resolvedAt # Null
      BY <2>3, <3>1, <3>2 DEF StatusWritten, ResolvedAtAfter
    <3> QED BY <3>3, <3>4
  <2>4. ASSUME NEW s \in Sessions, Edited(r, s) PROVE DatesRight(r)' BY <2>4 DEF Edited
  <2> QED BY <2>1, <2>2, <2>3, <2>4, RowStep
<1> QED BY <1>1, DeskAlways, PTL DEF DeskSpec, DatesFollowStatus

\* The moment of the first resolution outlives every move between resolved
\* statuses.
THEOREM ResolvedMomentStays == DeskSpec => ResolvedMomentKept
<1>1. DeskInv /\ [DeskNext]_deskVars =>
        [\A r \in Records :
           IsResolved(r) /\ ticket[r].resolvedAt # Null /\ IsResolved(r)'
             => ticket'[r].resolvedAt = ticket[r].resolvedAt \/ StaleStatusWrite(r)]_ticketVars
  <2> SUFFICES ASSUME DeskInv, [DeskNext]_deskVars, NEW r \in Records,
                      IsResolved(r), IsResolved(r)', ~StaleStatusWrite(r)
               PROVE ticket'[r].resolvedAt = ticket[r].resolvedAt
    OBVIOUS
  <2>1. CASE Created(r) BY <2>1 DEF Created, IsResolved
  <2>2. ASSUME NEW s \in Sessions, StatusWritten(r, s)
        PROVE ticket'[r].resolvedAt = ticket[r].resolvedAt
    BY <2>2 DEF StatusWritten, StaleStatusWrite, ResolvedAtAfter, IsResolved
  <2>3. ASSUME NEW s \in Sessions, Edited(r, s)
        PROVE ticket'[r].resolvedAt = ticket[r].resolvedAt
    BY <2>3 DEF Edited
  <2> QED BY <2>1, <2>2, <2>3, RowStep
<1> QED BY <1>1, DeskAlways, PTL DEF DeskSpec, ResolvedMomentKept

\* Only a request that read the record before it was pinned unpins it.
THEOREM PinsHold == DeskSpec => PinHolds
<1>1. DeskInv /\ [DeskNext]_deskVars =>
        [\A r \in Records : Pinned(r) /\ ~Pinned(r)' =>
           \E s \in Sessions : /\ serving[s].op = "edit" /\ serving[s].r = r
                               /\ ~serving[s].wasManual /\ serving'[s] = Idle]_ticketVars
  <2> SUFFICES ASSUME DeskInv, [DeskNext]_deskVars, NEW r \in Records,
                      Pinned(r), ~Pinned(r)'
               PROVE \E s \in Sessions : /\ serving[s].op = "edit" /\ serving[s].r = r
                                         /\ ~serving[s].wasManual /\ serving'[s] = Idle
    OBVIOUS
  <2> USE DEF Pinned
  <2>1. ticket'[r] # ticket[r] /\ ~Created(r) BY DEF Exists, Created
  <2>2. ASSUME NEW s \in Sessions, StatusWritten(r, s) PROVE FALSE BY <2>2 DEF StatusWritten
  <2>3. PICK s \in Sessions : Edited(r, s) BY <2>1, <2>2, RowStep
  <2>4. serving[s].dueAt # Keep /\ ~serving[s].dueAtManual BY <2>3 DEF Edited
  <2>5. ~serving[s].wasManual BY <2>3, <2>4 DEF Edited, DeskInv, Serving, FitIn
  <2> QED BY <2>3, <2>5 DEF Edited
<1> QED BY <1>1, DeskAlways, PTL DEF DeskSpec, PinHolds

----------------------------------------------------------------------------
(* The alerts.                                                             *)

Of(w) == <<sweep[w].row.r, sweep[w].row.signal>>

\* Whoever claimed a marker alone tells it, once, unless it fails.
AlertInv ==
  /\ \A w \in Sweepers : sweep[w].op = "emit" =>
       /\ sweep[w].anyone /\ Of(w) \in markers
       /\ alerts[Of(w)] = 0 /\ Of(w) \notin untold
  /\ \A w, v \in Sweepers :
       sweep[w].op = "emit" /\ sweep[v].op = "emit" /\ Of(w) = Of(v) => w = v
  /\ \A a \in Alerts : alerts[a] \in {0, 1} /\ (a \notin markers => alerts[a] = 0 /\ a \notin untold)
  /\ \A a \in markers : alerts[a] = 1 \/ Telling(a) \/ a \in untold

LEMMA OfTyped ==
  ASSUME DeskInv, NEW w \in Sweepers, sweep[w].op = "emit" PROVE Of(w) \in Alerts
<1>1. sweep[w] \in EmitState BY SweepStates DEF DeskInv, SweepTypeOK
<1> QED BY <1>1 DEF EmitState, SweepRow, Alerts, Signals, Of

\* A step that neither claims nor tells.
LEMMA Quiet ==
  ASSUME DeskInv, AlertInv, UNCHANGED <<markers, alerts, untold>>,
         \/ UNCHANGED sweep
         \/ \E w \in Sweepers, state \in SweepState :
              sweep[w].op # "emit" /\ state.op # "emit" /\ Swept(w, state)
  PROVE AlertInv'
<1>1. CASE UNCHANGED sweep BY <1>1 DEF AlertInv, Of, Telling
<1>2. ASSUME NEW w \in Sweepers, NEW state \in SweepState,
             sweep[w].op # "emit", state.op # "emit", Swept(w, state)
      PROVE AlertInv'
  <2>1. \A v \in Sweepers : (sweep'[v].op = "emit" <=> sweep[v].op = "emit")
                            /\ (sweep[v].op = "emit" => sweep'[v] = sweep[v])
    BY <1>2 DEF Swept, DeskInv, SweepTypeOK
  <2>2. \A a : Telling(a)' <=> Telling(a) BY <2>1 DEF Telling
  <2> QED BY <2>1, <2>2 DEF AlertInv, Of
<1> QED BY <1>1, <1>2

LEMMA ClaimAlerts ==
  ASSUME DeskInv, AlertInv, NEW w \in Sweepers, Claim(w) PROVE AlertInv'
<1>1. sweep[w].op = "rows" /\ UNCHANGED <<alerts, untold>> BY DEF Claim
<1>2. PICK row \in sweep[w].rows :
       /\ HasRecipients(row)
       /\ IF Unclaimed(row)
          THEN /\ markers' = markers \cup {<<row.r, row.signal>>}
               /\ Swept(w, [op |-> "emit", now |-> sweep[w].now, left |-> sweep[w].left,
                            rows |-> sweep[w].rows \ {row}, row |-> row,
                            anyone |-> Anyone(row)])
          ELSE Drop(w, row) /\ UNCHANGED markers
  BY DEF Claim
<1>3. /\ sweep[w] \in RowsState /\ row \in SweepRow
      /\ [sweep[w] EXCEPT !.rows = @ \ {row}] \in SweepState
  BY <1>1, ChosenRow
<1>4. CASE Unclaimed(row)
  <2> DEFINE a == <<row.r, row.signal>>
  <2>1. /\ sweep' = [sweep EXCEPT ![w] =
              [op |-> "emit", now |-> sweep[w].now, left |-> sweep[w].left,
               rows |-> sweep[w].rows \ {row}, row |-> row, anyone |-> Anyone(row)]]
        /\ markers' = markers \cup {a} /\ a \notin markers
    BY <1>2, <1>4 DEF Swept, Unclaimed
  <2>2. a \in Alerts BY <1>3 DEF SweepRow, Alerts, Signals
  <2>3. alerts[a] = 0 /\ a \notin untold BY <2>1, <2>2 DEF AlertInv
  <2>4. sweep'[w].op = "emit" /\ Of(w)' = a /\ sweep'[w].anyone
    BY <1>2, <2>1 DEF Of, HasRecipients, DeskInv, SweepTypeOK
  <2>5. \A v \in Sweepers \ {w} : sweep'[v] = sweep[v] /\ Of(v)' = Of(v)
    BY <2>1 DEF Of, DeskInv, SweepTypeOK
  <2>6. \A v \in Sweepers \ {w} : sweep[v].op = "emit" => Of(v) # a BY <2>1 DEF AlertInv
  <2>7. Telling(a)' BY <2>4 DEF Telling, Of
  <2>8. \A b \in markers : Telling(b) => Telling(b)'
    BY <1>1, <2>5 DEF Telling, Of
  <2> HIDE DEF a
  <2>9. \A v \in Sweepers : sweep'[v].op = "emit" =>
          /\ sweep'[v].anyone /\ Of(v)' \in markers'
          /\ alerts[Of(v)'] = 0 /\ Of(v)' \notin untold
    BY <2>1, <2>3, <2>4, <2>5 DEF AlertInv
  <2>10. \A v, u \in Sweepers :
           sweep'[v].op = "emit" /\ sweep'[u].op = "emit" /\ Of(v)' = Of(u)' => v = u
    BY <2>4, <2>5, <2>6 DEF AlertInv
  <2>11. \A b \in Alerts : alerts[b] \in {0, 1} /\ (b \notin markers' => alerts[b] = 0 /\ b \notin untold)
    BY <2>1 DEF AlertInv
  <2>12. \A b \in markers' : alerts[b] = 1 \/ Telling(b)' \/ b \in untold
    BY <2>1, <2>7, <2>8 DEF AlertInv
  <2> QED BY <1>1, <2>9, <2>10, <2>11, <2>12 DEF AlertInv
<1>5. CASE ~Unclaimed(row)
  <2>1. [sweep[w] EXCEPT !.rows = @ \ {row}].op = "rows" BY <1>3 DEF RowsState
  <2> QED BY <1>1, <1>2, <1>3, <1>5, <2>1, Quiet DEF Drop
<1> QED BY <1>4, <1>5

\* The teller is done with its alert: told, or lost.
LEMMA TellerDone ==
  ASSUME DeskInv, AlertInv, NEW w \in Sweepers, sweep[w].op = "emit",
         NEW state \in SweepState, state.op # "emit", Swept(w, state), UNCHANGED markers,
         \/ /\ alerts' = [alerts EXCEPT ![Of(w)] = @ + 1] /\ UNCHANGED untold
         \/ /\ untold' = untold \cup {Of(w)} /\ UNCHANGED alerts
  PROVE AlertInv'
<1>1. /\ Of(w) \in Alerts /\ Of(w) \in markers /\ alerts[Of(w)] = 0 /\ Of(w) \notin untold
      /\ alerts \in [Alerts -> Nat]
  BY OfTyped DEF AlertInv, DeskInv, SweepTypeOK
<1>2. sweep'[w].op # "emit" /\ \A v \in Sweepers \ {w} : sweep'[v] = sweep[v] /\ Of(v)' = Of(v)
  BY DEF Swept, DeskInv, SweepTypeOK, Of
<1>3. \A v \in Sweepers \ {w} : sweep[v].op = "emit" => Of(v) # Of(w) BY DEF AlertInv
<1>4. \A a \in Alerts \ {Of(w)} : alerts'[a] = alerts[a] /\ (a \in untold' <=> a \in untold)
  BY <1>1
<1>5. \A a \in markers : a # Of(w) => (Telling(a) => Telling(a)')
  BY <1>2 DEF Telling, Of
<1>6. alerts'[Of(w)] \in {0, 1} /\ (alerts'[Of(w)] = 1 \/ Of(w) \in untold') BY <1>1
<1>7. \A v \in Sweepers : sweep'[v].op = "emit" =>
        /\ sweep'[v].anyone /\ Of(v)' \in markers'
        /\ alerts'[Of(v)'] = 0 /\ Of(v)' \notin untold'
  BY <1>2, <1>3, <1>4, OfTyped DEF AlertInv
<1>8. \A v, u \in Sweepers :
        sweep'[v].op = "emit" /\ sweep'[u].op = "emit" /\ Of(v)' = Of(u)' => v = u
  BY <1>2 DEF AlertInv
<1>9. \A a \in Alerts :
        alerts'[a] \in {0, 1} /\ (a \notin markers' => alerts'[a] = 0 /\ a \notin untold')
  BY <1>1, <1>4, <1>6 DEF AlertInv
<1>10. \A a \in markers' : alerts'[a] = 1 \/ Telling(a)' \/ a \in untold'
  BY <1>4, <1>5, <1>6 DEF AlertInv, DeskInv, SweepTypeOK
<1> QED BY <1>7, <1>8, <1>9, <1>10 DEF AlertInv

LEMMA SweeperAlerts ==
  ASSUME DeskInv, AlertInv, NEW w \in Sweepers,
         SweeperStep(w) \/ ClaimFails(w) \/ EmitFails(w) \/ SweepDies(w)
  PROVE AlertInv'
<1>r. Resting \in SweepState /\ Resting.op = "rest" BY SweepStates DEF Resting
<1>1. CASE StartSweep(w) \/ Fetch(w)
  <2>1. PICK state : Swept(w, state) /\ state.op = "rows" /\ sweep[w].op # "emit"
    <3>1. CASE StartSweep(w) BY <3>1 DEF StartSweep, Resting
    <3>2. CASE Fetch(w)
      <4> DEFINE rows == {[r |-> r, signal |-> SignalAt(r, sweep[w].now),
                           assigneeId |-> ticket[r].assigneeId] :
                            r \in OpenDue(Head(sweep[w].left), sweep[w].now)}
      <4>1. sweep[w] \in RowsState /\ Swept(w, [sweep[w] EXCEPT !.left = Tail(@), !.rows = rows])
        BY <3>2, ChosenRow DEF Fetch
      <4> HIDE DEF rows
      <4>2. [sweep[w] EXCEPT !.left = Tail(@), !.rows = rows].op = "rows"
        BY <4>1 DEF RowsState
      <4> QED BY <3>2, <4>1, <4>2 DEF Fetch
    <3> QED BY <1>1, <3>1, <3>2
  <2>2. \A v \in Sweepers : (sweep'[v].op = "emit" <=> sweep[v].op = "emit")
                            /\ (sweep[v].op = "emit" => sweep'[v] = sweep[v])
    BY <2>1 DEF Swept, DeskInv, SweepTypeOK
  <2>3. UNCHANGED <<markers, alerts, untold>> BY <1>1 DEF StartSweep, Fetch
  <2>4. \A a : Telling(a)' <=> Telling(a) BY <2>2 DEF Telling
  <2> QED BY <2>2, <2>3, <2>4 DEF AlertInv, Of
<1>2. CASE Skip(w) \/ ClaimFails(w)
  <2>1. PICK row \in sweep[w].rows : Drop(w, row) BY <1>2 DEF Skip, ClaimFails
  <2>2. sweep[w].op = "rows" /\ UNCHANGED <<markers, alerts, untold>>
    BY <1>2 DEF Skip, ClaimFails
  <2>3. sweep[w] \in RowsState /\ [sweep[w] EXCEPT !.rows = @ \ {row}] \in SweepState
    BY <2>2, ChosenRow
  <2>4. [sweep[w] EXCEPT !.rows = @ \ {row}].op = "rows" BY <2>3 DEF RowsState
  <2> QED BY <2>1, <2>2, <2>3, <2>4, Quiet DEF Drop
<1>3. CASE EndSweep(w)
  <2>1. /\ sweep[w].op = "rows" /\ Swept(w, Resting) /\ UNCHANGED <<markers, alerts, untold>>
    BY <1>3 DEF EndSweep
  <2> QED BY <1>r, <2>1, Quiet
<1>4. CASE Claim(w) BY <1>4, ClaimAlerts
<1>5. CASE Emit(w) \/ EmitFails(w)
  <2> DEFINE state == [op |-> "rows", now |-> sweep[w].now, left |-> sweep[w].left,
                       rows |-> sweep[w].rows]
  <2>1. sweep[w].op = "emit" /\ Swept(w, state) /\ UNCHANGED markers
    BY <1>5 DEF Emit, EmitFails, Onward
  <2>2. sweep[w] \in EmitState /\ sweep[w].anyone
    BY <2>1, SweepStates DEF DeskInv, SweepTypeOK, AlertInv
  <2>3. state \in SweepState /\ state.op # "emit"
    BY <2>2, SweepStates DEF EmitState, RowsState
  <2>4. \/ /\ alerts' = [alerts EXCEPT ![Of(w)] = @ + 1] /\ UNCHANGED untold
        \/ /\ untold' = untold \cup {Of(w)} /\ UNCHANGED alerts
    BY <1>5, <2>1, <2>2 DEF Emit, EmitFails, Untell, Of
  <2> HIDE DEF state
  <2> QED BY <2>1, <2>3, <2>4, TellerDone
<1>6. CASE SweepDies(w)
  <2>1. Swept(w, Resting) /\ UNCHANGED <<markers, alerts>> /\ Untell(w)
    BY <1>6 DEF SweepDies
  <2>2. CASE sweep[w].op = "emit"
    <3>1. untold' = untold \cup {Of(w)} BY <2>1, <2>2 DEF Untell, Of
    <3> QED BY <1>r, <2>1, <2>2, <3>1, TellerDone
  <2>3. CASE sweep[w].op # "emit"
    <3>1. UNCHANGED untold BY <2>1, <2>3 DEF Untell
    <3> QED BY <1>r, <2>1, <2>3, <3>1, Quiet
  <2> QED BY <2>2, <2>3
<1> QED BY <1>1, <1>2, <1>3, <1>4, <1>5, <1>6 DEF SweeperStep

LEMMA AlertsAlways == DeskSpec => []AlertInv
<1>1. DeskInit => AlertInv
  BY DEF DeskInit, SweepInit, AlertInv, Resting, Alerts
<1>2. DeskInv /\ AlertInv /\ [DeskNext]_deskVars => AlertInv'
  <2> SUFFICES ASSUME DeskInv, AlertInv, [DeskNext]_deskVars PROVE AlertInv' OBVIOUS
  <2>1. ASSUME UNCHANGED sweepVars PROVE AlertInv' BY <2>1, Quiet DEF sweepVars
  <2>2. ASSUME NEW r \in Records, Watch(r) PROVE AlertInv' BY <2>2, Quiet DEF Watch
  <2> QED BY <2>1, <2>2, SweeperAlerts DEF DeskNext, SweepStep, deskVars
<1> QED BY <1>1, <1>2, DeskAlways, PTL DEF DeskSpec

\* However sweeps overlap, fail and die, no alert fires twice.
THEOREM AlertsFireOnce == DeskSpec => []AlertedAtMostOnce
<1>1. AlertInv => AlertedAtMostOnce BY DEF AlertInv, AlertedAtMostOnce
<1> QED BY <1>1, AlertsAlways, PTL

\* A marker without its alert is being told, or its sweep failed.
THEOREM MarkersAreTold == DeskSpec => []ClaimsAreTold
<1>1. AlertInv => ClaimsAreTold BY DEF AlertInv, ClaimsAreTold
<1> QED BY <1>1, AlertsAlways, PTL
=============================================================================
