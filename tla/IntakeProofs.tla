---------------------------- MODULE IntakeProofs ----------------------------
(***************************************************************************)
(* Conversions of submissions and intakes, and the search for duplicates,  *)
(* for any number of sources, records and sessions.                        *)
(***************************************************************************)
EXTENDS ServiceDeskProofs

----------------------------------------------------------------------------
(* Conversions.                                                            *)

MarkedBy(s, x) == serving[s].op = "mark" /\ serving[s].x = x

\* The records of the conversions of x that are halfway.
Marking(x) == {serving[s].r : s \in {t \in Sessions : MarkedBy(t, x)}}

Settled(x) == Came(x) /\ x \notin overtaken /\ made[x] \cap abandoned = {}

\* A record is made from one source, which is there; the link of a source, and
\* the record a halfway conversion will link it to, were made from it.
OwnRecords ==
  /\ \A x \in Sources : made[x] # {} => Came(x)
  /\ \A x \in Sources, r \in Records : r \in made[x] => Exists(r)
  /\ \A x, y \in Sources, r \in Records : r \in made[x] /\ r \in made[y] => x = y
  /\ \A x \in Sources : Came(x) /\ source[x].link # Null => source[x].link \in made[x]
  /\ \A s \in Sessions : serving[s].op = "mark" => serving[s].r \in made[serving[s].x]

LinkOf(x) == IF source[x].status = "CONVERTED" THEN {source[x].link} ELSE {}

\* Why ConvertedOnce holds: every record made from a source no request overtook
\* and no failure abandoned is its link or is about to be.
Accounted == \A x \in Sources : Settled(x) => made[x] = LinkOf(x) \cup Marking(x)

\* A step that makes no record, marks no source and ends no halfway conversion.
MarksStay ==
  \A s \in Sessions :
    serving[s].op = "mark" \/ serving'[s].op = "mark" => serving'[s] = serving[s]

LinksStay ==
  \A x \in Sources :
    IF Came(x) THEN /\ Came(x)'
                    /\ source'[x].status = source[x].status
                    /\ source'[x].link = source[x].link
    ELSE Came(x)' => source'[x].status = "NEW" /\ source'[x].link = Null

LEMMA MarkingStays == ASSUME MarksStay, NEW x \in Sources PROVE Marking(x)' = Marking(x)
<1>1. ASSUME NEW t \in Sessions
      PROVE  /\ MarkedBy(t, x)' <=> MarkedBy(t, x)
             /\ MarkedBy(t, x) => serving'[t].r = serving[t].r
  BY DEF MarksStay, MarkedBy
<1> QED BY <1>1 DEF Marking

\* A source nobody has sent yet has no conversion.
LEMMA NoMarking ==
  ASSUME DeskInv, NEW x \in Sources, ~Came(x) PROVE Marking(x) = {}
BY TheRequest DEF Marking, MarkedBy

LEMMA SourceTyped ==
  ASSUME IntakeTypeOK, NEW x \in Sources
  PROVE  /\ made[x] \subseteq Records
         /\ Came(x) => source[x] \in Source
BY DEF IntakeTypeOK, Came

LEMMA QuietConversions ==
  ASSUME DeskInv, OwnRecords, Accounted, Stay, MarksStay, LinksStay,
         UNCHANGED <<made, overtaken, abandoned>>
  PROVE  OwnRecords' /\ Accounted'
<1>1. OwnRecords'
  <2>1. ASSUME NEW x \in Sources, Came(x)', source'[x].link # Null
        PROVE  source'[x].link \in made[x]
    BY <2>1 DEF OwnRecords, LinksStay
  <2>2. ASSUME NEW x \in Sources, made[x] # {} PROVE Came(x)'
    BY <2>2 DEF OwnRecords, Stay
  <2>3. ASSUME NEW x \in Sources, NEW r \in Records, r \in made[x] PROVE Exists(r)'
    BY <2>3 DEF OwnRecords, Stay
  <2>4. ASSUME NEW s \in Sessions, serving'[s].op = "mark"
        PROVE  serving'[s].r \in made[serving'[s].x]
    BY <2>4 DEF OwnRecords, MarksStay
  <2> QED BY <2>1, <2>2, <2>3, <2>4 DEF OwnRecords, Came, Exists
<1>2. ASSUME NEW x \in Sources, Settled(x)' PROVE made[x] = LinkOf(x)' \cup Marking(x)'
  <2>1. Marking(x)' = Marking(x) BY MarkingStays
  <2>2. CASE Came(x)
    <3>1. Settled(x) BY <1>2, <2>2 DEF Settled
    <3>2. LinkOf(x)' = LinkOf(x) BY <2>2 DEF LinksStay, LinkOf
    <3> QED BY <2>1, <3>1, <3>2 DEF Accounted
  <2>3. CASE ~Came(x)
    <3>1. made[x] = {} /\ Marking(x) = {} BY <2>3, NoMarking DEF OwnRecords
    <3>2. LinkOf(x)' = {} BY <1>2, <2>3 DEF LinksStay, LinkOf, Settled
    <3> QED BY <2>1, <3>1, <3>2
  <2> QED BY <2>2, <2>3
<1> QED BY <1>1, <1>2 DEF Accounted

LEMMA NoMarkDone ==
  ASSUME DeskInv, NEW s \in Sessions, NEW q, serving' = [serving EXCEPT ![s] = q],
         serving[s].op # "mark", q.op # "mark"
  PROVE  MarksStay
BY DEF MarksStay, DeskInv, Serving

LEMMA NoMarkEnded ==
  ASSUME DeskInv, NEW s \in Sessions, serving' = [serving EXCEPT ![s] = Idle],
         serving[s].op # "mark"
  PROVE  MarksStay
<1>1. Idle.op # "mark" BY DEF Idle
<1> QED BY <1>1, NoMarkDone

\* What Mark leaves of the sources.
LEMMA MarkedSource ==
  ASSUME DeskInv, NEW s \in Sessions, NEW x \in Sources, Came(x),
         NEW status \in Open \cup {"CONVERTED", "REJECTED"}, NEW link \in Records \cup {Null},
         Mark(s, x, status, link)
  PROVE  /\ Came(x)' /\ source'[x].status = status /\ source'[x].link = link
         /\ \A y \in Sources \ {x} : source'[y] = source[y]
         /\ \A y \in Sources : Came(y)' <=> Came(y)
         /\ overtaken \subseteq overtaken'
         /\ x \notin overtaken' => serving[s].was = source[x].status
<1>1. source[x] \in Source BY SourceTyped DEF DeskInv
<1>2. source' = [source EXCEPT ![x] = [source[x] EXCEPT !.status = status, !.link = link]]
  BY DEF Mark, DeskInv, IntakeTypeOK
<1>3. [source[x] EXCEPT !.status = status, !.link = link] # Null
  <2>1. [source[x] EXCEPT !.status = status, !.link = link] \in Source
    BY <1>1 DEF Source
  <2> QED BY <2>1, IntakeAssumption
<1> QED BY <1>1, <1>2, <1>3 DEF Mark, Came, DeskInv, IntakeTypeOK, Source

\* A record that is made belongs to the source it is made from alone.
LEMMA MakeOwned ==
  ASSUME DeskInv, OwnRecords, NEW x \in Sources, Came(x), NEW r \in Records, ~Exists(r),
         RecordsStay, SourcesStay, Exists(r)', made' = [made EXCEPT ![x] = @ \cup {r}]
  PROVE  /\ made'[x] = made[x] \cup {r} /\ r \notin made[x]
         /\ \A y \in Sources \ {x} : made'[y] = made[y]
         /\ \A y \in Sources : made'[y] # {} => Came(y)'
         /\ \A y \in Sources, t \in Records : t \in made'[y] => Exists(t)'
         /\ \A y, z \in Sources, t \in Records : t \in made'[y] /\ t \in made'[z] => y = z
<1>1. made'[x] = made[x] \cup {r} /\ \A y \in Sources \ {x} : made'[y] = made[y]
  BY DEF DeskInv, IntakeTypeOK
<1>2. \A y \in Sources : r \notin made[y] BY DEF OwnRecords
<1>3. \A y \in Sources, t \in Records : t \in made[y] => Exists(t)'
  BY DEF OwnRecords, RecordsStay
<1>4. \A y \in Sources : made[y] # {} => Came(y)' BY DEF OwnRecords, SourcesStay
<1>5. Came(x)' BY DEF SourcesStay
<1>6. ASSUME NEW y \in Sources, NEW z \in Sources, NEW t \in Records,
             t \in made'[y], t \in made'[z]
      PROVE  y = z
  <2>1. CASE t = r BY <1>1, <1>2, <1>6, <2>1
  <2>2. CASE t # r
    <3>1. t \in made[y] /\ t \in made[z] BY <1>1, <1>6, <2>2
    <3> QED BY <3>1 DEF OwnRecords
  <2> QED BY <2>1, <2>2
<1> QED BY <1>1, <1>2, <1>3, <1>4, <1>5, <1>6

LEMMA ConvertConversions ==
  ASSUME DeskInv, OwnRecords, Accounted,
         NEW s \in Sessions, NEW r \in Records, CommitConvert(s, r)
  PROVE  OwnRecords' /\ Accounted'
<1>0. PICK x \in Sources : x = serving[s].x
  BY TheRequest DEF CommitConvert
<1>1. x \in Sources /\ Came(x) /\ serving[s].kind \in Kinds /\ serving[s].op = "convert"
  BY <1>0, TheRequest DEF CommitConvert
<1>2. /\ Make(x, r, serving[s].kind) /\ Mark(s, x, "CONVERTED", r) /\ UNCHANGED <<now, abandoned>>
      /\ serving' = [serving EXCEPT ![s] = Idle]
  BY <1>0 DEF CommitConvert, End
<1>3. /\ RecordsStay /\ ~Exists(r) /\ Exists(r)' /\ made' = [made EXCEPT ![x] = @ \cup {r}]
  BY <1>1, <1>2, MakeTyped
<1>4. /\ Came(x)' /\ source'[x].status = "CONVERTED" /\ source'[x].link = r
      /\ \A y \in Sources \ {x} : source'[y] = source[y]
      /\ \A y \in Sources : Came(y)' <=> Came(y)
      /\ overtaken \subseteq overtaken'
      /\ x \notin overtaken' => serving[s].was = source[x].status
  BY <1>1, <1>2, MarkedSource
<1>5. SourcesStay BY <1>4 DEF SourcesStay
<1>6. /\ made'[x] = made[x] \cup {r} /\ r \notin made[x]
      /\ \A y \in Sources \ {x} : made'[y] = made[y]
      /\ \A y \in Sources : made'[y] # {} => Came(y)'
      /\ \A y \in Sources, t \in Records : t \in made'[y] => Exists(t)'
      /\ \A y, z \in Sources, t \in Records : t \in made'[y] /\ t \in made'[z] => y = z
  BY <1>1, <1>3, <1>5, MakeOwned
<1>7. MarksStay BY <1>1, <1>2, NoMarkEnded
<1>8. \A y \in Sources : made[y] \subseteq made'[y] BY <1>6
<1>9. OwnRecords'
  <2>1. ASSUME NEW y \in Sources, Came(y)', source'[y].link # Null
        PROVE  source'[y].link \in made'[y]
    BY <1>4, <1>6, <2>1 DEF OwnRecords
  <2>2. ASSUME NEW t \in Sessions, serving'[t].op = "mark"
        PROVE  serving'[t].r \in made'[serving'[t].x]
    <3>1. serving'[t] = serving[t] BY <1>7, <2>2 DEF MarksStay
    <3>2. serving[t].r \in made[serving[t].x] /\ serving[t].x \in Sources
      BY <2>2, <3>1, TheRequest DEF OwnRecords
    <3> QED BY <1>8, <3>1, <3>2
  <2> QED BY <1>6, <2>1, <2>2 DEF OwnRecords, Came, Exists
<1>10. ASSUME NEW y \in Sources, Settled(y)' PROVE made'[y] = LinkOf(y)' \cup Marking(y)'
  <2>1. Marking(y)' = Marking(y) BY <1>7, MarkingStays
  <2>2. Settled(y) BY <1>2, <1>4, <1>8, <1>10 DEF Settled
  <2>3. CASE y = x
    <3>1. source[x].status \in Open
      <4>1. serving[s].was = source[x].status BY <1>4, <1>10, <2>3 DEF Settled
      <4>2. serving[s].was \in Open
        BY <1>1 DEF DeskInv, Serving, Requests, TicketRequest, IntakeRequest
      <4> QED BY <4>1, <4>2
    <3>2. made[x] = Marking(x) BY <2>2, <2>3, <3>1 DEF Accounted, LinkOf, Open
    <3> QED BY <1>4, <1>6, <2>1, <2>3, <3>2 DEF LinkOf
  <2>4. CASE y # x BY <1>4, <1>6, <2>1, <2>2, <2>4 DEF Accounted, LinkOf
  <2> QED BY <2>3, <2>4
<1> QED BY <1>9, <1>10 DEF Accounted

LEMMA TriageConversions ==
  ASSUME DeskInv, OwnRecords, Accounted, NEW s \in Sessions, CommitTriage(s)
  PROVE  OwnRecords' /\ Accounted'
<1>0. PICK x \in Sources, to \in {"UNDER_REVIEW", "REJECTED"} :
        x = serving[s].x /\ to = serving[s].to
  BY TheRequest DEF CommitTriage
<1>1. x \in Sources /\ Came(x) /\ to \in {"UNDER_REVIEW", "REJECTED"} /\ serving[s].op = "triage"
  BY <1>0, TheRequest DEF CommitTriage
<1>2. /\ Mark(s, x, to, source[x].link) /\ UNCHANGED <<now, ticket, made, abandoned>>
      /\ serving' = [serving EXCEPT ![s] = Idle]
  BY <1>0 DEF CommitTriage, End
<1>3. source[x].link \in Records \cup {Null} BY <1>1, SourceTyped DEF DeskInv, Source
<1>4. /\ Came(x)' /\ source'[x].status = to /\ source'[x].link = source[x].link
      /\ \A y \in Sources \ {x} : source'[y] = source[y]
      /\ \A y \in Sources : Came(y)' <=> Came(y)
      /\ overtaken \subseteq overtaken'
      /\ x \notin overtaken' => serving[s].was = source[x].status
  BY <1>1, <1>2, <1>3, MarkedSource DEF Open
<1>5. MarksStay BY <1>1, <1>2, NoMarkEnded
<1>6. OwnRecords'
  <2>1. ASSUME NEW y \in Sources, Came(y)', source'[y].link # Null
        PROVE  source'[y].link \in made[y]
    BY <1>4, <2>1 DEF OwnRecords
  <2>2. ASSUME NEW t \in Sessions, serving'[t].op = "mark"
        PROVE  serving'[t].r \in made[serving'[t].x]
    BY <1>5, <2>2 DEF OwnRecords, MarksStay
  <2> QED BY <1>2, <1>4, <2>1, <2>2 DEF OwnRecords, Came, Exists
<1>7. ASSUME NEW y \in Sources, Settled(y)' PROVE made[y] = LinkOf(y)' \cup Marking(y)'
  <2>1. Marking(y)' = Marking(y) BY <1>5, MarkingStays
  <2>2. Settled(y) BY <1>2, <1>4, <1>7 DEF Settled
  <2>3. LinkOf(y)' = LinkOf(y)
    <3>1. CASE y = x
      <4>1. serving[s].was = source[x].status BY <1>4, <1>7, <3>1 DEF Settled
      <4>2. serving[s].was \in Open
        BY <1>1 DEF DeskInv, Serving, Requests, TicketRequest, IntakeRequest
      <4> QED BY <1>1, <1>4, <3>1, <4>1, <4>2 DEF LinkOf, Open
    <3>2. CASE y # x BY <1>4, <3>2 DEF LinkOf
    <3> QED BY <3>1, <3>2
  <2> QED BY <2>1, <2>2, <2>3 DEF Accounted
<1> QED BY <1>2, <1>6, <1>7 DEF Accounted

LEMMA SubmissionConversions ==
  ASSUME DeskInv, OwnRecords, Accounted,
         NEW s \in Sessions, NEW r \in Records, CreateFromSubmission(s, r)
  PROVE  OwnRecords' /\ Accounted'
<1>0. PICK x \in Sources : x = serving[s].x
  BY TheRequest DEF CreateFromSubmission
<1>1. Came(x) /\ serving[s].op = "submission"
  BY <1>0, TheRequest DEF CreateFromSubmission
<1>2. /\ Make(x, r, "ServiceRequest") /\ UNCHANGED <<now, source, overtaken, abandoned>>
      /\ serving' = [serving EXCEPT ![s] = [op |-> "mark", x |-> x, was |-> "NEW", r |-> r]]
  BY <1>0 DEF CreateFromSubmission
<1>3. /\ RecordsStay /\ ~Exists(r) /\ Exists(r)' /\ made' = [made EXCEPT ![x] = @ \cup {r}]
  BY <1>1, <1>2, MakeTyped, IntakeAssumption
<1>4. SourcesStay BY <1>2 DEF SourcesStay, Came
<1>5. /\ made'[x] = made[x] \cup {r} /\ r \notin made[x]
      /\ \A y \in Sources \ {x} : made'[y] = made[y]
      /\ \A y \in Sources : made'[y] # {} => Came(y)'
      /\ \A y \in Sources, t \in Records : t \in made'[y] => Exists(t)'
      /\ \A y, z \in Sources, t \in Records : t \in made'[y] /\ t \in made'[z] => y = z
  BY <1>1, <1>3, <1>4, MakeOwned
<1>6. /\ serving'[s].op = "mark" /\ serving'[s].x = x /\ serving'[s].r = r
      /\ \A t \in Sessions \ {s} : serving'[t] = serving[t]
  BY <1>2 DEF DeskInv, Serving
<1>7. OwnRecords'
  <2>1. ASSUME NEW y \in Sources, Came(y)', source'[y].link # Null
        PROVE  source'[y].link \in made'[y]
    BY <1>2, <1>5, <2>1 DEF OwnRecords, Came
  <2>2. ASSUME NEW t \in Sessions, serving'[t].op = "mark"
        PROVE  serving'[t].r \in made'[serving'[t].x]
    <3>1. CASE t = s BY <1>5, <1>6, <3>1
    <3>2. CASE t # s
      <4>1. serving'[t] = serving[t] BY <1>6, <3>2
      <4>2. serving[t].r \in made[serving[t].x] /\ serving[t].x \in Sources
        BY <2>2, <4>1, TheRequest DEF OwnRecords
      <4> QED BY <1>5, <4>1, <4>2
    <3> QED BY <3>1, <3>2
  <2> QED BY <1>5, <2>1, <2>2 DEF OwnRecords, Came, Exists
<1>8. ASSUME NEW y \in Sources, Settled(y)' PROVE made'[y] = LinkOf(y)' \cup Marking(y)'
  <2>1. Settled(y) BY <1>2, <1>5, <1>8 DEF Settled, Came
  <2>2. LinkOf(y)' = LinkOf(y) BY <1>2 DEF LinkOf
  <2>3. Marking(y)' = Marking(y) \cup (IF y = x THEN {r} ELSE {})
    <3>1. ~MarkedBy(s, y) /\ (MarkedBy(s, y)' <=> y = x) BY <1>1, <1>6 DEF MarkedBy
    <3>2. \A t \in Sessions \ {s} : MarkedBy(t, y)' <=> MarkedBy(t, y) BY <1>6 DEF MarkedBy
    <3> QED BY <1>6, <3>1, <3>2 DEF Marking
  <2> QED BY <1>5, <2>1, <2>2, <2>3 DEF Accounted
<1> QED BY <1>7, <1>8 DEF Accounted

\* A conversion that ends is no longer halfway; the others are.
LEMMA MarkEnds ==
  ASSUME DeskInv, NEW s \in Sessions, serving' = [serving EXCEPT ![s] = Idle],
         NEW x \in Sources, MarkedBy(s, x)
  PROVE  /\ \A t \in Sessions : serving'[t].op = "mark" => serving'[t] = serving[t]
         /\ \A y \in Sources \ {x} : Marking(y)' = Marking(y)
         /\ Marking(x) = Marking(x)' \cup {serving[s].r}
<1>1. /\ serving'[s].op # "mark"
      /\ \A t \in Sessions \ {s} : serving'[t] = serving[t]
  BY DEF DeskInv, Serving, Idle
<1>2. \A y \in Sources : ~MarkedBy(s, y)' BY <1>1 DEF MarkedBy
<1>3. \A t \in Sessions \ {s}, y \in Sources : MarkedBy(t, y)' <=> MarkedBy(t, y)
  BY <1>1 DEF MarkedBy
<1>4. \A y \in Sources \ {x} : ~MarkedBy(s, y) BY DEF MarkedBy
<1> QED BY <1>1, <1>2, <1>3, <1>4 DEF Marking

LEMMA MarkConversions ==
  ASSUME DeskInv, OwnRecords, Accounted, NEW s \in Sessions, MarkSubmission(s)
  PROVE  OwnRecords' /\ Accounted'
<1>0. PICK x \in Sources, r \in Records : x = serving[s].x /\ r = serving[s].r
  BY TheRequest DEF MarkSubmission
<1>1. Came(x) /\ serving[s].op = "mark" /\ MarkedBy(s, x)
  BY <1>0, TheRequest DEF MarkSubmission, MarkedBy
<1>2. /\ Mark(s, x, "CONVERTED", r) /\ UNCHANGED <<now, ticket, made, abandoned>>
      /\ serving' = [serving EXCEPT ![s] = Idle]
  BY <1>0 DEF MarkSubmission, End
<1>3. /\ Came(x)' /\ source'[x].status = "CONVERTED" /\ source'[x].link = r
      /\ \A y \in Sources \ {x} : source'[y] = source[y]
      /\ \A y \in Sources : Came(y)' <=> Came(y)
      /\ overtaken \subseteq overtaken'
      /\ x \notin overtaken' => serving[s].was = source[x].status
  BY <1>1, <1>2, MarkedSource
<1>4. /\ \A t \in Sessions : serving'[t].op = "mark" => serving'[t] = serving[t]
      /\ \A y \in Sources \ {x} : Marking(y)' = Marking(y)
      /\ Marking(x) = Marking(x)' \cup {r}
  BY <1>0, <1>1, <1>2, MarkEnds
<1>5. r \in made[x] BY <1>0, <1>1 DEF OwnRecords
<1>6. OwnRecords'
  <2>1. ASSUME NEW y \in Sources, Came(y)', source'[y].link # Null
        PROVE  source'[y].link \in made[y]
    BY <1>3, <1>5, <2>1 DEF OwnRecords
  <2>2. ASSUME NEW t \in Sessions, serving'[t].op = "mark"
        PROVE  serving'[t].r \in made[serving'[t].x]
    BY <1>4, <2>2 DEF OwnRecords
  <2> QED BY <1>2, <1>3, <2>1, <2>2 DEF OwnRecords, Came, Exists
<1>7. ASSUME NEW y \in Sources, Settled(y)' PROVE made[y] = LinkOf(y)' \cup Marking(y)'
  <2>1. Settled(y) BY <1>2, <1>3, <1>7 DEF Settled
  <2>2. CASE y = x
    <3>1. serving[s].was = source[x].status BY <1>3, <1>7, <2>2 DEF Settled
    <3>2. serving[s].was \in Open
      BY <1>1 DEF DeskInv, Serving, Requests, TicketRequest, IntakeRequest, Open
    <3>3. made[x] = Marking(x) BY <2>1, <2>2, <3>1, <3>2 DEF Accounted, LinkOf, Open
    <3> QED BY <1>3, <1>4, <2>2, <3>3 DEF LinkOf
  <2>3. CASE y # x BY <1>3, <1>4, <2>1, <2>3 DEF Accounted, LinkOf
  <2> QED BY <2>2, <2>3
<1> QED BY <1>2, <1>6, <1>7 DEF Accounted

LEMMA FailConversions ==
  ASSUME DeskInv, OwnRecords, Accounted, Stay, NEW s \in Sessions, FailIntake(s)
  PROVE  OwnRecords' /\ Accounted'
<1>1. /\ UNCHANGED <<now, ticket, source, made, overtaken>>
      /\ serving' = [serving EXCEPT ![s] = Idle]
  BY DEF FailIntake, End
<1>2. CASE serving[s].op # "mark"
  <2>1. UNCHANGED abandoned BY <1>2 DEF FailIntake
  <2>2. MarksStay BY <1>1, <1>2, NoMarkEnded
  <2>3. LinksStay BY <1>1 DEF LinksStay, Came
  <2> QED BY <1>1, <2>1, <2>2, <2>3, QuietConversions
<1>3. CASE serving[s].op = "mark"
  <2>1. PICK x \in Sources, r \in Records : x = serving[s].x /\ r = serving[s].r
    BY <1>3, TheRequest
  <2>2. MarkedBy(s, x) /\ r \in made[x] BY <1>3, <2>1 DEF MarkedBy, OwnRecords
  <2>3. abandoned' = abandoned \cup {r} BY <1>3, <2>1 DEF FailIntake
  <2>4. /\ \A t \in Sessions : serving'[t].op = "mark" => serving'[t] = serving[t]
        /\ \A y \in Sources \ {x} : Marking(y)' = Marking(y)
    BY <1>1, <2>2, MarkEnds
  <2>5. OwnRecords' BY <1>1, <2>4 DEF OwnRecords, Came, Exists
  <2>6. ASSUME NEW y \in Sources, Settled(y)' PROVE made[y] = LinkOf(y)' \cup Marking(y)'
    <3>1. Settled(y) /\ y # x BY <1>1, <2>2, <2>3, <2>6 DEF Settled, Came
    <3> QED BY <1>1, <2>4, <3>1 DEF Accounted, LinkOf
  <2> QED BY <1>1, <2>5, <2>6 DEF Accounted
<1> QED BY <1>2, <1>3

\* The steps of tickets and sweeps, and those that only read or let something in.
LEMMA QuietStep ==
  ASSUME DeskInv, [DeskNext]_deskVars
  PROVE  \/ MarksStay /\ LinksStay /\ UNCHANGED <<made, overtaken, abandoned>>
         \/ \E s \in Sessions :
              \/ \E r \in Records : CommitConvert(s, r) \/ CreateFromSubmission(s, r)
              \/ CommitTriage(s) \/ MarkSubmission(s) \/ FailIntake(s)
<1> DEFINE Quiet1 == MarksStay /\ LinksStay /\ UNCHANGED <<made, overtaken, abandoned>>
<1>s. UNCHANGED source => LinksStay BY DEF LinksStay, Came
<1>m. UNCHANGED serving => MarksStay BY DEF MarksStay
<1>b. ASSUME NEW s \in Sessions, NEW q, Begin(s, q), q.op # "mark" PROVE MarksStay
  <2>1. serving[s].op # "mark" /\ serving' = [serving EXCEPT ![s] = q] BY <1>b DEF Begin, Idle
  <2> QED BY <1>b, <2>1, NoMarkDone
<1>1. CASE TicketStep /\ UNCHANGED <<intakeVars, sweepVars>>
  <2>1. LinksStay /\ UNCHANGED <<made, overtaken, abandoned>>
    BY <1>1, <1>s DEF intakeVars
  <2>2. ASSUME NEW s \in Sessions, NEW r \in Records,
               CreateForClient(s, r) \/ ReadStatus(s, r) \/ ReadClose(s, r) \/ ReadEdit(s, r)
        PROVE  MarksStay
    <3>1. CASE CreateForClient(s, r) BY <1>m, <3>1 DEF CreateForClient
    <3>2. CASE ReadStatus(s, r) \/ ReadClose(s, r)
      <4>1. PICK to, fresh : Begin(s, [op |-> "status", r |-> r, was |-> ticket[r].status,
                                       to |-> to, fresh |-> fresh])
        BY <3>2 DEF ReadStatus, ReadClose
      <4> QED BY <1>b, <4>1
    <3>3. CASE ReadEdit(s, r)
      <4>1. PICK manual, dueAt, pin, priority, assigneeId :
              Begin(s, [op |-> "edit", r |-> r, wasManual |-> manual, dueAt |-> dueAt,
                        dueAtManual |-> pin, priority |-> priority, assigneeId |-> assigneeId])
        BY <3>3 DEF ReadEdit
      <4> QED BY <1>b, <4>1
    <3> QED BY <2>2, <3>1, <3>2, <3>3
  <2>3. ASSUME NEW s \in Sessions, WriteStatus(s) \/ WriteEdit(s) \/ Fail(s) PROVE MarksStay
    <3>1. serving[s].op # "mark" /\ serving' = [serving EXCEPT ![s] = Idle]
      BY <2>3 DEF WriteStatus, WriteEdit, Fail, End
    <3> QED BY <3>1, NoMarkEnded
  <2>4. ASSUME Tick PROVE MarksStay
    <3>1. UNCHANGED serving BY <2>4 DEF Tick
    <3> QED BY <1>m, <3>1
  <2> QED BY <1>1, <2>1, <2>2, <2>3, <2>4 DEF TicketStep
<1>2. CASE SweepStep /\ UNCHANGED intakeVars
  BY <1>2, <1>s, <1>m DEF SweepStep, ticketVars, intakeVars
<1>3. CASE UNCHANGED deskVars
  BY <1>3, <1>s, <1>m DEF deskVars, ticketVars, intakeVars
<1>4. ASSUME NEW x \in Sources, CreatePublic(x) \/ AgeOut(x) PROVE Quiet1
  <2>0. SourcesStay BY <1>4, ArrivesTyped
  <2>1. LinksStay
    BY <1>4, <2>0 DEF SourcesStay, CreatePublic, AgeOut, LinksStay, New, Came, DeskInv, IntakeTypeOK, Source
  <2> QED BY <1>4, <1>m, <2>1 DEF CreatePublic, AgeOut
<1>5. ASSUME NEW s \in Sessions, NEW x \in Sources, WriteIntake(s, x) PROVE Quiet1
  <2>0. SourcesStay BY <1>5, ArrivesTyped DEF WriteIntake
  <2>1. LinksStay
    BY <1>5, <2>0 DEF SourcesStay, WriteIntake, LinksStay, New, Came, DeskInv, IntakeTypeOK
  <2>2. serving[s].op # "mark" /\ serving' = [serving EXCEPT ![s] = Idle]
    BY <1>5 DEF WriteIntake, End
  <2> QED BY <1>5, <2>1, <2>2, NoMarkEnded DEF WriteIntake
<1>6. ASSUME NEW s \in Sessions, NEW x \in Sources,
             ReadConvert(s, x) \/ ReadTriage(s, x) \/ ReadSubmission(s, x)
      PROVE  Quiet1
  <2>1. UNCHANGED <<source, made, overtaken, abandoned>>
    BY <1>6 DEF ReadConvert, ReadTriage, ReadSubmission, intakeVars
  <2>2. CASE ReadConvert(s, x)
    <3>1. PICK kind : Begin(s, [op |-> "convert", x |-> x, was |-> source[x].status, kind |-> kind])
      BY <2>2 DEF ReadConvert
    <3> QED BY <1>b, <1>s, <2>1, <3>1
  <2>3. CASE ReadTriage(s, x)
    <3>1. PICK to : Begin(s, [op |-> "triage", x |-> x, was |-> source[x].status, to |-> to])
      BY <2>3 DEF ReadTriage
    <3> QED BY <1>b, <1>s, <2>1, <3>1
  <2>4. CASE ReadSubmission(s, x)
    <3>1. Begin(s, [op |-> "submission", x |-> x, was |-> "NEW"])
      BY <2>4 DEF ReadSubmission
    <3> QED BY <1>b, <1>s, <2>1, <3>1
  <2> QED BY <1>6, <2>2, <2>3, <2>4
<1>7. ASSUME NEW s \in Sessions, ReadIntake(s) PROVE Quiet1
  <2>1. /\ UNCHANGED <<source, made, overtaken, abandoned>>
        /\ Begin(s, [op |-> "intake", there |-> Intakes])
    BY <1>7 DEF ReadIntake, intakeVars
  <2> QED BY <1>b, <1>s, <2>1
<1> QED BY <1>1, <1>2, <1>3, <1>4, <1>5, <1>6, <1>7 DEF DeskNext, IntakeStep

\* No step takes a record away, or changes its kind.
LEMMA RecordsRemain ==
  ASSUME DeskInv, [DeskNext]_deskVars PROVE RecordsStay
<1> SUFFICES ASSUME NEW r \in Records, Exists(r)
             PROVE  Exists(r)' /\ ticket'[r].kind = ticket[r].kind
  BY DEF RecordsStay
<1> QED BY RowStep DEF Created, StatusWritten, Edited, Exists

LEMMA ConversionsNext ==
  ASSUME DeskInv, OwnRecords, Accounted, [DeskNext]_deskVars
  PROVE  OwnRecords' /\ Accounted'
<1>1. RecordsStay BY RecordsRemain
<1>2. CASE MarksStay /\ LinksStay /\ UNCHANGED <<made, overtaken, abandoned>>
  <2>1. SourcesStay BY <1>2 DEF LinksStay, SourcesStay
  <2> QED BY <1>1, <1>2, <2>1, StayParts, QuietConversions
<1>3. ASSUME NEW s \in Sessions, FailIntake(s) PROVE OwnRecords' /\ Accounted'
  <2>1. SourcesStay BY <1>3 DEF FailIntake, SourcesStay, Came
  <2> QED BY <1>1, <1>3, <2>1, StayParts, FailConversions
<1> QED BY <1>2, <1>3, QuietStep, ConvertConversions, SubmissionConversions,
           TriageConversions, MarkConversions

LEMMA ConversionsAlways == DeskSpec => [](OwnRecords /\ Accounted)
<1>1. DeskInit => OwnRecords /\ Accounted
  BY DEF DeskInit, IntakeInit, TicketsInit, OwnRecords, Accounted, Settled, Came, Idle
<1> QED BY <1>1, ConversionsNext, DeskAlways, PTL DEF DeskSpec

\* Whatever overtakes whatever and wherever a process dies, the ticket a submission
\* or intake points to was made from it and from no other.
THEOREM LinksAreOwn == DeskSpec => []LinkIsOwn
<1>1. DeskInv /\ OwnRecords => LinkIsOwn
  BY SourceTyped DEF DeskInv, OwnRecords, LinkIsOwn, Source
<1> QED BY <1>1, ConversionsAlways, DeskAlways, PTL

\* A submission or intake becomes one ticket, is CONVERTED exactly then and points
\* to it, once no conversion of it is halfway, unless a request wrote over a status
\* it had not read or a conversion without a transaction died halfway.
THEOREM ConversionsHappenOnce == DeskSpec => []ConvertedOnce
<1>1. Accounted => ConvertedOnce
  <2> SUFFICES ASSUME Accounted, NEW x \in Sources, Settled(x), ~BeingMarked(x)
               PROVE  made[x] = LinkOf(x)
    BY DEF ConvertedOnce, Settled, LinkOf
  <2>1. Marking(x) = {} BY DEF Marking, MarkedBy, BeingMarked
  <2> QED BY <2>1 DEF Accounted
<1> QED BY <1>1, ConversionsAlways, PTL

----------------------------------------------------------------------------
(* Duplicates.                                                             *)

\* Why SimilarOpenHaveACause holds: what is open since a request searched has come
\* since, or was reopened.
SearchHolds ==
  \A s \in Sessions : serving[s].op = "intake" =>
    /\ serving[s].there \subseteq Intakes
    /\ OpenRecent \subseteq (Intakes \ serving[s].there) \cup overtaken

Similar == SearchHolds /\ SimilarOpenHaveACause

\* A step that stores no intake and starts no search: what is open was open, or
\* is a source that the step overtakes.
Calm ==
  /\ overtaken \subseteq overtaken' /\ UNCHANGED unseen
  /\ OpenRecent' \subseteq OpenRecent \cup overtaken'
  /\ Intakes \subseteq Intakes'
  /\ \A s \in Sessions : serving'[s].op = "intake" => serving'[s] = serving[s]

LEMMA CalmSimilar == ASSUME Similar, Calm PROVE Similar'
<1>1. SearchHolds' BY DEF Similar, SearchHolds, Calm
<1>2. ASSUME NEW x \in OpenRecent', NEW y \in OpenRecent'
      PROVE  x = y \/ x \in unseen'[y] \/ y \in unseen'[x] \/ {x, y} \cap overtaken' # {}
  BY <1>2 DEF Similar, SimilarOpenHaveACause, Calm
<1> QED BY <1>1, <1>2 DEF Similar, SimilarOpenHaveACause

LEMMA UntouchedCalm ==
  ASSUME UNCHANGED <<source, overtaken, unseen>>,
         \A s \in Sessions : serving'[s].op = "intake" => serving'[s] = serving[s]
  PROVE  Calm
BY DEF Calm, OpenRecent, Intakes, Came

LEMMA BegunCalm ==
  ASSUME DeskInv, UNCHANGED <<source, overtaken, unseen>>, NEW s \in Sessions, NEW q,
         serving' = [serving EXCEPT ![s] = q], q.op # "intake"
  PROVE  Calm
<1>1. serving'[s] = q /\ \A t \in Sessions \ {s} : serving'[t] = serving[t]
  BY DEF DeskInv, Serving
<1> QED BY <1>1, UntouchedCalm

LEMMA BeginCalm ==
  ASSUME DeskInv, UNCHANGED <<source, overtaken, unseen>>, NEW s \in Sessions, NEW q,
         Begin(s, q), q.op # "intake"
  PROVE  Calm
BY BegunCalm DEF Begin

LEMMA IdledCalm ==
  ASSUME DeskInv, UNCHANGED <<source, overtaken, unseen>>, NEW s \in Sessions,
         serving' = [serving EXCEPT ![s] = Idle]
  PROVE  Calm
<1>1. Idle.op = "idle" BY DEF Idle
<1> QED BY <1>1, BegunCalm

\* A source is marked: it is open afterwards only if it was open, or if it is
\* overtaken, because what its request read was open.
LEMMA MarkedCalm ==
  ASSUME DeskInv, NEW s \in Sessions, NEW x \in Sources, Came(x), serving[s].was \in Open,
         NEW status \in Open \cup {"CONVERTED", "REJECTED"}, NEW link \in Records \cup {Null},
         Mark(s, x, status, link), serving' = [serving EXCEPT ![s] = Idle], UNCHANGED unseen
  PROVE  Calm
<1>1. /\ Came(x)' /\ source'[x].status = status /\ source'[x].link = link
      /\ \A y \in Sources \ {x} : source'[y] = source[y]
      /\ \A y \in Sources : Came(y)' <=> Came(y)
      /\ overtaken \subseteq overtaken'
      /\ x \notin overtaken' => serving[s].was = source[x].status
  BY MarkedSource
<1>2. source'[x].type = source[x].type /\ source'[x].recent = source[x].recent
  BY DEF Mark, DeskInv, IntakeTypeOK, Came, Source
<1>3. serving'[s].op = "idle" /\ \A t \in Sessions \ {s} : serving'[t] = serving[t]
  BY DEF DeskInv, Serving, Idle
<1>4. Intakes' = Intakes BY <1>1, <1>2 DEF Intakes
<1>5. ASSUME NEW y \in OpenRecent' PROVE y \in OpenRecent \cup overtaken'
  <2>1. y \in Sources BY DEF OpenRecent, Intakes
  <2>2. CASE y = x BY <1>1, <1>2, <1>4, <2>2 DEF OpenRecent
  <2>3. CASE y # x BY <1>1, <1>4, <2>1, <2>3 DEF OpenRecent
  <2> QED BY <2>2, <2>3
<1> QED BY <1>1, <1>3, <1>4, <1>5 DEF Calm

LEMMA TicketsCalm == ASSUME DeskInv, TicketStep, UNCHANGED intakeVars PROVE Calm
<1>0. UNCHANGED <<source, overtaken, unseen>> BY DEF intakeVars
<1>u. UNCHANGED serving => Calm BY <1>0, UntouchedCalm
<1>1. ASSUME NEW s \in Sessions, NEW r \in Records,
             CreateForClient(s, r) \/ ReadStatus(s, r) \/ ReadClose(s, r) \/ ReadEdit(s, r)
      PROVE  Calm
  <2>1. CASE CreateForClient(s, r) BY <1>u, <2>1 DEF CreateForClient
  <2>2. CASE ReadStatus(s, r) \/ ReadClose(s, r)
    <3>1. PICK to, fresh : Begin(s, [op |-> "status", r |-> r, was |-> ticket[r].status,
                                     to |-> to, fresh |-> fresh])
      BY <2>2 DEF ReadStatus, ReadClose
    <3> QED BY <1>0, <3>1, BeginCalm
  <2>3. CASE ReadEdit(s, r)
    <3>1. PICK manual, dueAt, pin, priority, assigneeId :
            Begin(s, [op |-> "edit", r |-> r, wasManual |-> manual, dueAt |-> dueAt,
                      dueAtManual |-> pin, priority |-> priority, assigneeId |-> assigneeId])
      BY <2>3 DEF ReadEdit
    <3> QED BY <1>0, <3>1, BeginCalm
  <2> QED BY <1>1, <2>1, <2>2, <2>3
<1>2. ASSUME NEW s \in Sessions, WriteStatus(s) \/ WriteEdit(s) \/ Fail(s) PROVE Calm
  <2>1. serving' = [serving EXCEPT ![s] = Idle] BY <1>2 DEF WriteStatus, WriteEdit, Fail, End
  <2> QED BY <1>0, <2>1, IdledCalm
<1>3. ASSUME Tick PROVE Calm
  <2>1. UNCHANGED serving BY <1>3 DEF Tick
  <2> QED BY <1>u, <2>1
<1> QED BY <1>1, <1>2, <1>3 DEF TicketStep

LEMMA TriageCalm ==
  ASSUME DeskInv, NEW s \in Sessions,
         \/ \E r \in Records : CommitConvert(s, r) \/ CreateFromSubmission(s, r)
         \/ CommitTriage(s) \/ MarkSubmission(s) \/ FailIntake(s)
  PROVE  Calm
<1>0. serving[s].op \in {"convert", "triage", "mark"} => serving[s].was \in Open
  BY DEF DeskInv, Serving, Requests, TicketRequest, IntakeRequest, Open
<1>1. ASSUME NEW r \in Records, CommitConvert(s, r) PROVE Calm
  <2>1. /\ serving[s].x \in Sources /\ Came(serving[s].x) /\ serving[s].op = "convert"
    BY <1>1, TheRequest DEF CommitConvert
  <2>2. /\ Mark(s, serving[s].x, "CONVERTED", r) /\ UNCHANGED unseen
        /\ serving' = [serving EXCEPT ![s] = Idle]
    BY <1>1 DEF CommitConvert, End
  <2> QED BY <1>0, <2>1, <2>2, MarkedCalm
<1>2. ASSUME NEW r \in Records, CreateFromSubmission(s, r) PROVE Calm
  <2> DEFINE q == [op |-> "mark", x |-> serving[s].x, was |-> "NEW", r |-> r]
  <2>1. UNCHANGED <<source, overtaken, unseen>> /\ serving' = [serving EXCEPT ![s] = q]
    BY <1>2 DEF CreateFromSubmission
  <2>2. q.op = "mark" OBVIOUS
  <2> HIDE DEF q
  <2> QED BY <2>1, <2>2, BegunCalm
<1>3. CASE CommitTriage(s)
  <2>1. /\ serving[s].x \in Sources /\ Came(serving[s].x) /\ serving[s].op = "triage"
        /\ serving[s].to \in {"UNDER_REVIEW", "REJECTED"}
    BY <1>3, TheRequest DEF CommitTriage
  <2>2. /\ Mark(s, serving[s].x, serving[s].to, source[serving[s].x].link)
        /\ serving' = [serving EXCEPT ![s] = Idle] /\ UNCHANGED unseen
    BY <1>3 DEF CommitTriage, End
  <2>3. source[serving[s].x].link \in Records \cup {Null}
    BY <2>1, SourceTyped DEF DeskInv, Source
  <2>4. serving[s].to \in Open \cup {"CONVERTED", "REJECTED"} BY <2>1 DEF Open
  <2> QED BY <1>0, <2>1, <2>2, <2>3, <2>4, MarkedCalm
<1>4. CASE MarkSubmission(s)
  <2>1. /\ serving[s].x \in Sources /\ Came(serving[s].x) /\ serving[s].r \in Records
        /\ serving[s].op = "mark"
    BY <1>4, TheRequest DEF MarkSubmission
  <2>2. /\ Mark(s, serving[s].x, "CONVERTED", serving[s].r) /\ UNCHANGED unseen
        /\ serving' = [serving EXCEPT ![s] = Idle]
    BY <1>4 DEF MarkSubmission, End
  <2> QED BY <1>0, <2>1, <2>2, MarkedCalm
<1>5. CASE FailIntake(s)
  BY <1>5, IdledCalm DEF FailIntake, End
<1> QED BY <1>1, <1>2, <1>3, <1>4, <1>5

LEMMA ReadsCalm ==
  ASSUME DeskInv, NEW s \in Sessions, NEW x \in Sources,
         ReadConvert(s, x) \/ ReadTriage(s, x) \/ ReadSubmission(s, x)
  PROVE  Calm
<1>1. UNCHANGED <<source, overtaken, unseen>>
  BY DEF ReadConvert, ReadTriage, ReadSubmission, intakeVars
<1>2. CASE ReadConvert(s, x)
  <2>1. PICK kind : Begin(s, [op |-> "convert", x |-> x, was |-> source[x].status, kind |-> kind])
    BY <1>2 DEF ReadConvert
  <2> QED BY <1>1, <2>1, BeginCalm
<1>3. CASE ReadTriage(s, x)
  <2>1. PICK to : Begin(s, [op |-> "triage", x |-> x, was |-> source[x].status, to |-> to])
    BY <1>3 DEF ReadTriage
  <2> QED BY <1>1, <2>1, BeginCalm
<1>4. CASE ReadSubmission(s, x)
  <2>1. Begin(s, [op |-> "submission", x |-> x, was |-> "NEW"]) BY <1>4 DEF ReadSubmission
  <2> QED BY <1>1, <2>1, BeginCalm
<1> QED BY <1>2, <1>3, <1>4

LEMMA ArrivalsCalm ==
  ASSUME DeskInv, NEW x \in Sources, CreatePublic(x) \/ AgeOut(x) PROVE Calm
<1>1. UNCHANGED <<serving, overtaken, unseen>> BY DEF CreatePublic, AgeOut
<1>2. \A y \in Sources \ {x} : source'[y] = source[y]
  BY DEF CreatePublic, AgeOut, DeskInv, IntakeTypeOK
<1>3. x \notin OpenRecent' /\ (x \in Intakes => x \in Intakes')
  <2>1. CASE CreatePublic(x)
    <3>1. source'[x].type = "PUBLIC_SUBMISSION" /\ ~Came(x)
      BY <2>1 DEF CreatePublic, New, DeskInv, IntakeTypeOK
    <3> QED BY <3>1 DEF OpenRecent, Intakes
  <2>2. CASE AgeOut(x)
    <3>1. source[x] \in Source BY <2>2, SourceTyped DEF AgeOut, DeskInv
    <3>2. source'[x] = [source[x] EXCEPT !.recent = FALSE]
      BY <2>2 DEF AgeOut, DeskInv, IntakeTypeOK
    <3>3. source'[x] \in Source /\ ~source'[x].recent /\ source'[x].type = source[x].type
      BY <3>1, <3>2 DEF Source
    <3> QED BY <3>3, IntakeAssumption DEF OpenRecent, Intakes, Came
  <2> QED BY <2>1, <2>2
<1>4. OpenRecent' \subseteq OpenRecent BY <1>2, <1>3 DEF OpenRecent, Intakes, Came
<1>5. Intakes \subseteq Intakes' BY <1>2, <1>3 DEF Intakes, Came
<1> QED BY <1>1, <1>4, <1>5 DEF Calm

LEMMA SearchNext ==
  ASSUME DeskInv, Similar, NEW s \in Sessions, ReadIntake(s) PROVE Similar'
<1> DEFINE q == [op |-> "intake", there |-> Intakes]
<1>1. OpenRecent = {} /\ UNCHANGED source /\ serving' = [serving EXCEPT ![s] = q]
  BY DEF ReadIntake, Begin, intakeVars, NoDuplicate
<1>2. OpenRecent' = {} /\ Intakes' = Intakes BY <1>1 DEF OpenRecent, Intakes, Came
<1>3. ASSUME NEW t \in Sessions, serving'[t].op = "intake"
      PROVE  serving'[t].there \subseteq Intakes'
  <2>1. serving'[s] = q /\ (t # s => serving'[t] = serving[t])
    BY <1>1 DEF DeskInv, Serving
  <2> QED BY <1>2, <1>3, <2>1 DEF Similar, SearchHolds
<1> QED BY <1>2, <1>3 DEF Similar, SearchHolds, SimilarOpenHaveACause

LEMMA AddingNext ==
  ASSUME DeskInv, Similar, NEW s \in Sessions, NEW x \in Sources, WriteIntake(s, x)
  PROVE  Similar'
<1>1. /\ serving[s].op = "intake" /\ source' = [source EXCEPT ![x] = New("REQUEST_INTAKE")]
      /\ serving' = [serving EXCEPT ![s] = Idle] /\ ~Came(x) /\ UNCHANGED overtaken
      /\ unseen' = [unseen EXCEPT ![x] = OpenRecent \ serving[s].there]
  BY DEF WriteIntake, End
<1>2. serving'[s].op = "idle" /\ \A t \in Sessions \ {s} : serving'[t] = serving[t]
  BY <1>1 DEF DeskInv, Serving, Idle
<1>3. \A y \in Sources \ {x} : source'[y] = source[y]
  BY <1>1 DEF DeskInv, IntakeTypeOK
<1>4. /\ unseen'[x] = OpenRecent \ serving[s].there
      /\ \A y \in Sources \ {x} : unseen'[y] = unseen[y]
  BY <1>1 DEF DeskInv, IntakeTypeOK
<1>5. source'[x] = New("REQUEST_INTAKE") BY <1>1 DEF DeskInv, IntakeTypeOK
<1>6. x \notin Intakes /\ Intakes' = Intakes \cup {x}
  <2>1. New("REQUEST_INTAKE") \in Source BY DEF New, Source, Open, Types
  <2>2. source'[x] # Null /\ source'[x].type = "REQUEST_INTAKE"
    <3>1. source'[x] # Null BY <1>5, <2>1, IntakeAssumption
    <3> QED BY <1>5, <3>1 DEF New
  <2>3. x \notin Intakes BY <1>1 DEF Intakes
  <2>4. x \in Intakes' BY <2>2 DEF Intakes, Came
  <2>5. \A y \in Sources \ {x} : y \in Intakes' <=> y \in Intakes BY <1>3 DEF Intakes, Came
  <2> QED BY <2>3, <2>4, <2>5 DEF Intakes
<1>7. OpenRecent' \subseteq OpenRecent \cup {x} /\ x \notin OpenRecent
  <2>1. ASSUME NEW y \in OpenRecent', y # x PROVE y \in OpenRecent
    <3>1. y \in Intakes' BY <2>1 DEF OpenRecent
    <3>2. y \in Intakes BY <1>6, <2>1, <3>1
    <3>3. source'[y] = source[y] BY <1>3, <2>1, <3>2 DEF Intakes
    <3> QED BY <2>1, <3>2, <3>3 DEF OpenRecent
  <2> QED BY <1>6, <2>1 DEF OpenRecent
<1>8. SearchHolds'
  <2> SUFFICES ASSUME NEW t \in Sessions, serving'[t].op = "intake"
               PROVE  /\ serving'[t].there \subseteq Intakes'
                      /\ OpenRecent' \subseteq (Intakes' \ serving'[t].there) \cup overtaken'
    BY DEF SearchHolds
  <2>1. t # s /\ serving'[t] = serving[t] BY <1>2
  <2>2. /\ serving[t].there \subseteq Intakes
        /\ OpenRecent \subseteq (Intakes \ serving[t].there) \cup overtaken
    BY <2>1 DEF Similar, SearchHolds
  <2> QED BY <1>1, <1>6, <1>7, <2>1, <2>2
<1>9. ASSUME NEW y \in OpenRecent', NEW z \in OpenRecent'
      PROVE  y = z \/ y \in unseen'[z] \/ z \in unseen'[y] \/ {y, z} \cap overtaken' # {}
  <2>1. OpenRecent \subseteq unseen'[x] \cup overtaken'
    BY <1>1, <1>4 DEF Similar, SearchHolds
  <2>2. y \in Sources /\ z \in Sources BY DEF OpenRecent, Intakes
  <2>3. CASE y = x \/ z = x BY <1>7, <2>1, <2>3
  <2>4. CASE y # x /\ z # x
    BY <1>1, <1>4, <1>7, <2>2, <2>4 DEF Similar, SimilarOpenHaveACause
  <2> QED BY <2>3, <2>4
<1> QED BY <1>8, <1>9 DEF Similar, SimilarOpenHaveACause

LEMMA SimilarNext ==
  ASSUME DeskInv, Similar, [DeskNext]_deskVars PROVE Similar'
<1>1. CASE TicketStep /\ UNCHANGED <<intakeVars, sweepVars>>
  BY <1>1, TicketsCalm, CalmSimilar
<1>2. CASE IntakeStep
  BY <1>2, ArrivalsCalm, ReadsCalm, TriageCalm, CalmSimilar, SearchNext, AddingNext
     DEF IntakeStep
<1>3. CASE SweepStep /\ UNCHANGED intakeVars
  BY <1>3, UntouchedCalm, CalmSimilar DEF SweepStep, ticketVars, intakeVars
<1>4. CASE UNCHANGED deskVars
  BY <1>4, UntouchedCalm, CalmSimilar DEF deskVars, ticketVars, intakeVars
<1> QED BY <1>1, <1>2, <1>3, <1>4 DEF DeskNext

\* However searches, reviews and conversions overlap, similar requests are open
\* together only if one was stored between the search and the store of the other,
\* or a triage wrote over a status of one that it had not read.
THEOREM SimilarOpenExplained == DeskSpec => []SimilarOpenHaveACause
<1>1. DeskInit => Similar
  BY DEF DeskInit, IntakeInit, TicketsInit, Similar, SearchHolds, SimilarOpenHaveACause,
         OpenRecent, Intakes, Came, Idle
<1>2. DeskInv /\ Similar /\ [DeskNext]_deskVars => Similar' BY SimilarNext
<1>3. Similar => SimilarOpenHaveACause BY DEF Similar
<1> QED BY <1>1, <1>2, <1>3, DeskAlways, PTL DEF DeskSpec
=============================================================================
