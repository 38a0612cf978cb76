----------------------------- MODULE DealsProofs -----------------------------
(***************************************************************************)
(* Deals, for any number of quotes, opportunities and sessions: the stored *)
(* value of a quote is the sum of its stored lines, and a deal yields one  *)
(* work package, won first, where no two requests on it crossed.           *)
(***************************************************************************)
EXTENDS BackOfficeProofs

----------------------------------------------------------------------------
(* Sums.                                                                   *)

LEMMA SumOfNone == SumSet({}) = 0
<1> DEFINE pick(s) == CHOOSE x \in s : TRUE
           Sums(f) == f = [s \in SUBSET {} |->
                             IF s = {} THEN 0 ELSE pick(s) + f[s \ {pick(s)}]]
<1>1. Sums([s \in SUBSET {} |-> 0])
  OBVIOUS
<1>2. Sums(CHOOSE f : Sums(f))
  BY <1>1
<1>3. (CHOOSE f : Sums(f))[{}] = 0
  BY <1>2
<1> QED BY <1>3 DEF SumSet, FoldSet, MapThenFoldSet

LEMMA SumOfOne ==
  ASSUME NEW b \in Nat
  PROVE  SumSet({b}) = b
<1> DEFINE pick(s) == CHOOSE x \in s : TRUE
           Sums(f) == f = [s \in SUBSET {b} |->
                             IF s = {} THEN 0 ELSE pick(s) + f[s \ {pick(s)}]]
           total == [s \in SUBSET {b} |-> IF s = {} THEN 0 ELSE b]
           chosen == CHOOSE f : Sums(f)
<1>1. \A s \in SUBSET {b} : s # {} => s = {b} /\ pick(s) = b /\ s \ {pick(s)} = {}
  OBVIOUS
<1>2. \A s \in SUBSET {b} : total[s] = IF s = {} THEN 0 ELSE pick(s) + total[s \ {pick(s)}]
  BY <1>1
<1>3. Sums(total)
  BY <1>2
<1>4. Sums(chosen)
  BY <1>3
<1>5. chosen[{}] = 0 /\ chosen[{b}] = pick({b}) + chosen[{b} \ {pick({b})}]
  BY <1>4
<1>6. pick({b}) = b /\ {b} \ {pick({b})} = {}
  OBVIOUS
<1>7. chosen[{b}] = b
  <2> HIDE DEF chosen, pick
  <2> QED BY <1>5, <1>6
<1> QED BY <1>7 DEF SumSet, FoldSet, MapThenFoldSet

----------------------------------------------------------------------------
(* Lines and value.                                                        *)

\* The lines of one request, or none, with their sum.
OneBatch(row) ==
  \E b \in Batches \cup {Null} : row.lines = LinesOf(b) /\ row.value = SumLines(b)

\* Where no two replacements crossed a quote holds the lines of one request, and so do
\* the rows a creation or a revision is about to insert, unless its reads were torn.
WholeLists ==
  /\ \A q \in Quotes \ crossed : HasQuote(q) => OneBatch(quote[q])
  /\ \A s \in Sessions :
       /\ dealing[s].op = "create" => OneBatch(dealing[s].row)
       /\ dealing[s].op = "read" => dealing[s].d \in crossed \/ OneBatch(dealing[s].row)
       /\ dealing[s].op = "revise" =>
            dealing[s].torn \/ dealing[s].d \in crossed \/ OneBatch(dealing[s].row)

LEMMA OneBatchSums ==
  ASSUME NEW row, OneBatch(row)
  PROVE  row.value = SumSet(row.lines)
<1>1. PICK b \in Batches \cup {Null} : row.lines = LinesOf(b) /\ row.value = SumLines(b)
  BY DEF OneBatch
<1>2. CASE b = Null
  BY <1>1, <1>2, SumOfNone DEF LinesOf, SumLines
<1>3. CASE b # Null
  BY <1>1, <1>3, SumOfOne, DealsAssumption DEF LinesOf, SumLines
<1> QED BY <1>2, <1>3

\* A session takes up, goes on with or ends a request, and no lines change but those of
\* crossed quotes and of quotes that now hold one batch.
LEMMA WholeServe ==
  ASSUME WholeLists, DealsInv, NEW s \in Sessions, NEW r,
         dealing' = [dealing EXCEPT ![s] = r], crossed \subseteq crossed',
         r.op = "create" => OneBatch(r.row),
         r.op = "read" => r.d \in crossed \/ OneBatch(r.row),
         r.op = "revise" => r.torn \/ r.d \in crossed \/ OneBatch(r.row),
         \A q \in Quotes \ crossed' : HasQuote(q)' =>
           \/ OneBatch(quote'[q])
           \/ /\ HasQuote(q) /\ quote'[q].lines = quote[q].lines
              /\ quote'[q].value = quote[q].value
  PROVE  WholeLists'
<1>1. \A t \in Sessions : dealing'[t] = IF t = s THEN r ELSE dealing[t]
  BY DEF DealsInv, DealsFit, DealsTypeOK
<1>2. ASSUME NEW q \in Quotes \ crossed', HasQuote(q)' PROVE OneBatch(quote[q])'
  <2>1. HasQuote(q) => OneBatch(quote[q])
    BY <1>2 DEF WholeLists
  <2>2. CASE OneBatch(quote'[q])
    BY <2>2 DEF OneBatch, LinesOf, SumLines
  <2>3. CASE ~OneBatch(quote'[q])
    BY <1>2, <2>1, <2>3 DEF OneBatch, LinesOf, SumLines
  <2> QED BY <2>2, <2>3
<1>3. ASSUME NEW t \in Sessions
      PROVE /\ dealing'[t].op = "create" => OneBatch(dealing'[t].row)
            /\ dealing'[t].op = "read" =>
                 dealing'[t].d \in crossed' \/ OneBatch(dealing'[t].row)
            /\ dealing'[t].op = "revise" =>
                 dealing'[t].torn \/ dealing'[t].d \in crossed' \/ OneBatch(dealing'[t].row)
  BY <1>1 DEF WholeLists
<1> QED BY <1>2, <1>3 DEF WholeLists, OneBatch, LinesOf, SumLines

LEMMA WholeRead ==
  ASSUME WholeLists, DealsInv, NEW s \in Sessions, NEW r,
         dealing' = [dealing EXCEPT ![s] = r], UNCHANGED <<quote, crossed>>,
         r.op = "create" => OneBatch(r.row),
         r.op = "read" => r.d \in crossed \/ OneBatch(r.row),
         r.op = "revise" => r.torn \/ r.d \in crossed \/ OneBatch(r.row)
  PROVE  WholeLists'
BY WholeServe DEF HasQuote

LEMMA WholeEnd ==
  ASSUME WholeLists, DealsInv, NEW s \in Sessions, Finish(s), crossed \subseteq crossed',
         \A q \in Quotes \ crossed' : HasQuote(q)' =>
           \/ OneBatch(quote'[q])
           \/ /\ HasQuote(q) /\ quote'[q].lines = quote[q].lines
              /\ quote'[q].value = quote[q].value
  PROVE  WholeLists'
<1>1. Idle.op = "idle"
  BY DEF Idle
<1> QED BY <1>1, WholeServe DEF Finish

LEMMA WholeReads ==
  ASSUME WholeLists, DealsInv, NEW s \in Sessions, NEW q \in Quotes,
         ReadCreate(s, q) \/ ReadQuoteEdit(s, q) \/ ReadLines(s, q) \/ ReadRevise(s, q)
  PROVE  WholeLists'
<1>1. CASE ReadCreate(s, q)
  <2>1. PICK reference \in References, o \in Opportunities \cup {Null},
             b \in Batches \cup {Null} :
          \E sees : TakeUp(s, [op |-> "create", d |-> q,
                               row |-> NewQuote(reference, 1, o, LinesOf(b), SumLines(b)),
                               sees |-> sees])
    BY <1>1 DEF ReadCreate
  <2>2. OneBatch(NewQuote(reference, 1, o, LinesOf(b), SumLines(b)))
    BY DEF OneBatch, NewQuote
  <2>3. PICK r : TakeUp(s, r) /\ r.op = "create" /\ OneBatch(r.row)
    BY <2>1, <2>2
  <2> QED BY <1>1, <2>3, WholeRead DEF TakeUp, ReadCreate
<1>2. CASE ReadRevise(s, q)
  <2>1. q \in crossed \/ OneBatch(quote[q])
    BY <1>2 DEF WholeLists, ReadRevise
  <2>2. PICK r : TakeUp(s, r) /\ r.op = "read" /\ r.d = q /\ r.row = quote[q]
    BY <1>2 DEF ReadRevise
  <2>3. UNCHANGED <<quote, crossed>>
    BY <1>2 DEF ReadRevise
  <2> QED BY <2>1, <2>2, <2>3, WholeRead DEF TakeUp
<1>3. CASE ReadQuoteEdit(s, q)
  <2>1. PICK r : TakeUp(s, r) /\ r.op = "edit"
    BY <1>3 DEF ReadQuoteEdit
  <2>2. UNCHANGED <<quote, crossed>>
    BY <1>3 DEF ReadQuoteEdit
  <2> QED BY <2>1, <2>2, WholeRead DEF TakeUp
<1>4. CASE ReadLines(s, q)
  <2>1. PICK r : TakeUp(s, r) /\ r.op = "lines"
    BY <1>4 DEF ReadLines
  <2>2. UNCHANGED <<quote, crossed>>
    BY <1>4 DEF ReadLines
  <2> QED BY <2>1, <2>2, WholeRead DEF TakeUp
<1> QED BY <1>1, <1>2, <1>3, <1>4

\* Whatever is written to a quote, its lines come and go only with their sum.
LEMMA WholeWrites ==
  ASSUME WholeLists, DealsInv, NEW s \in Sessions,
         WriteQuoteEdit(s) \/ CommitLines(s) \/ CommitCreate(s) \/ CommitRevise(s)
           \/ LinkPackage(s)
  PROVE  WholeLists'
<1> DEFINE r == dealing[s]
<1>0. DealsTypeOK /\ r \in DealRequest /\ FitDeal(quote, r)
  BY DEF DealsInv, DealsFit, DealsTypeOK
<1>1. Finish(s)
  BY DEF WriteQuoteEdit, CommitLines, CommitCreate, CommitRevise, LinkPackage
<1>2. \A q \in Quotes : HasQuote(q) => quote[q] \in QuoteRow
  BY <1>0 DEF DealsTypeOK, HasQuote
<1>3. CASE WriteQuoteEdit(s)
  <2>1. r.d \in Quotes /\ HasQuote(r.d)
    BY <1>0, <1>3, RequestParts DEF WriteQuoteEdit, FitDeal, HasQuote
  <2>2. \A q \in Quotes : HasQuote(q)' =>
          /\ HasQuote(q) /\ quote'[q].lines = quote[q].lines
          /\ quote'[q].value = quote[q].value
    BY <1>0, <1>2, <1>3, <2>1 DEF WriteQuoteEdit, HasQuote, DealsTypeOK, QuoteRow
  <2> QED BY <1>1, <1>3, <2>2, WholeEnd DEF WriteQuoteEdit
<1>4. CASE CommitLines(s)
  <2>1. r.d \in Quotes /\ r.batch \in Batches /\ HasQuote(r.d)
    BY <1>0, <1>4, RequestParts DEF CommitLines, FitDeal, HasQuote
  <2>2. quote'[r.d] = Replaced(quote[r.d], r.sees, r.batch)
        /\ \A q \in Quotes \ {r.d} : quote'[q] = quote[q]
    BY <1>0, <1>4, <2>1 DEF CommitLines, DealsTypeOK
  <2>3. r.d \notin crossed' => quote[r.d].lines \subseteq r.sees
    BY <1>4 DEF CommitLines
  <2>4. r.d \notin crossed' => OneBatch(quote'[r.d])
    <3>1. quote'[r.d].lines = (quote[r.d].lines \ r.sees) \cup {r.batch}
          /\ quote'[r.d].value = SumLines(r.batch)
      BY <1>2, <2>1, <2>2 DEF Replaced, QuoteRow
    <3>2. r.d \notin crossed' => quote'[r.d].lines = {r.batch}
      BY <2>3, <3>1
    <3> QED BY <2>1, <3>1, <3>2, DealsAssumption DEF OneBatch, LinesOf
  <2>5. crossed \subseteq crossed'
    BY <1>4 DEF CommitLines
  <2>6. \A q \in Quotes \ crossed' : HasQuote(q)' =>
          \/ OneBatch(quote'[q])
          \/ /\ HasQuote(q) /\ quote'[q].lines = quote[q].lines
             /\ quote'[q].value = quote[q].value
    BY <2>2, <2>4 DEF HasQuote
  <2> QED BY <1>1, <2>5, <2>6, WholeEnd
<1>5. CASE CommitCreate(s)
  <2>1. OneBatch(r.row) /\ \A q \in r.sees : HasQuote(q)
    BY <1>0, <1>5 DEF WholeLists, CommitCreate, FitDeal, HasQuote
  <2>2. \A q \in Quotes : \/ quote'[q] = r.row
                          \/ quote'[q] = quote[q]
                          \/ HasQuote(q) /\ quote'[q] = [quote[q] EXCEPT !.isPrimary = FALSE]
    <3> DEFINE loses(q) == q \in r.sees /\ quote[q].opportunityId = r.row.opportunityId
    <3>1. quote' = [q \in Quotes |->
                      IF q = r.d THEN r.row
                      ELSE IF loses(q) THEN [quote[q] EXCEPT !.isPrimary = FALSE]
                      ELSE quote[q]]
      BY <1>5 DEF CommitCreate
    <3>2. \A q \in Quotes : loses(q) => HasQuote(q)
      BY <2>1
    <3> HIDE DEF loses, r
    <3> QED BY <3>1, <3>2
  <2>3. \A q \in Quotes \ crossed' : HasQuote(q)' =>
          \/ OneBatch(quote'[q])
          \/ /\ HasQuote(q) /\ quote'[q].lines = quote[q].lines
             /\ quote'[q].value = quote[q].value
    BY <1>2, <2>1, <2>2 DEF HasQuote, QuoteRow
  <2> QED BY <1>1, <1>5, <2>3, WholeEnd DEF CommitCreate
<1>6. CASE CommitRevise(s)
  <2>1. PICK n \in Quotes :
          /\ ~HasQuote(n)
          /\ quote' = [quote EXCEPT
                ![r.d] = Superseded(@, r.row.status),
                ![n] = NewQuote(r.row.reference, r.row.version + 1, r.row.opportunityId,
                                r.row.lines, r.row.value)]
          /\ crossed' = IF r.torn \/ r.d \in crossed THEN crossed \cup {n} ELSE crossed
    BY <1>6 DEF CommitRevise
  <2>2. r.d \in Quotes /\ HasQuote(r.d)
    BY <1>0, <1>6, RequestParts DEF CommitRevise, FitDeal, HasQuote
  <2>3. /\ quote'[n] = NewQuote(r.row.reference, r.row.version + 1, r.row.opportunityId,
                                r.row.lines, r.row.value)
        /\ quote'[r.d] = Superseded(quote[r.d], r.row.status)
        /\ \A q \in Quotes \ {n, r.d} : quote'[q] = quote[q]
    BY <1>0, <2>1, <2>2 DEF DealsTypeOK
  <2>4. quote'[r.d].lines = quote[r.d].lines /\ quote'[r.d].value = quote[r.d].value
    BY <1>2, <2>2, <2>3 DEF Superseded, QuoteRow
  <2>5. n \notin crossed' => OneBatch(quote'[n])
    <3>1. quote'[n].lines = r.row.lines /\ quote'[n].value = r.row.value
      BY <2>3 DEF NewQuote
    <3>2. r.torn \/ r.d \in crossed \/ OneBatch(r.row)
      BY <1>6 DEF WholeLists, CommitRevise
    <3> QED BY <2>1, <3>1, <3>2 DEF OneBatch
  <2>6. \A q \in Quotes \ crossed' : HasQuote(q)' =>
          \/ OneBatch(quote'[q])
          \/ /\ HasQuote(q) /\ quote'[q].lines = quote[q].lines
             /\ quote'[q].value = quote[q].value
    BY <2>2, <2>3, <2>4, <2>5 DEF HasQuote
  <2> QED BY <1>1, <2>1, <2>6, WholeEnd
<1>7. CASE LinkPackage(s)
  <2>1. r.d \in Quotes => HasQuote(r.d)
    BY <1>0, <1>7 DEF LinkPackage, FitDeal, HasQuote
  <2>2. \A q \in Quotes : \/ quote'[q] = quote[q]
                          \/ HasQuote(q) /\ quote'[q] = [quote[q] EXCEPT !.workPackageId = r.p]
    <3>1. CASE r.d \in Quotes /\ quote' = [quote EXCEPT ![r.d].workPackageId = r.p]
      <4>1. /\ quote'[r.d] = [quote[r.d] EXCEPT !.workPackageId = r.p]
            /\ \A q \in Quotes \ {r.d} : quote'[q] = quote[q]
        BY <1>0, <3>1 DEF DealsTypeOK
      <4> QED BY <2>1, <3>1, <4>1
    <3>2. CASE quote' = quote
      BY <3>2
    <3> QED BY <1>7, <3>1, <3>2 DEF LinkPackage
  <2>3. \A q \in Quotes : HasQuote(q)' =>
          /\ HasQuote(q) /\ quote'[q].lines = quote[q].lines
          /\ quote'[q].value = quote[q].value
    BY <1>2, <2>2 DEF HasQuote, QuoteRow
  <2> QED BY <1>1, <1>7, <2>3, WholeEnd DEF LinkPackage
<1> QED BY <1>3, <1>4, <1>5, <1>6, <1>7

LEMMA WholeNext ==
  ASSUME WholeLists, DealsInv, DealStep
  PROVE  WholeLists'
<1>1. ASSUME NEW o \in Opportunities, CreateOpportunity(o) PROVE WholeLists'
  BY <1>1 DEF CreateOpportunity, WholeLists, HasQuote, OneBatch, LinesOf, SumLines
<1>2. ASSUME NEW s \in Sessions, NEW o \in Opportunities, ReadStage(s, o) PROVE WholeLists'
  <2>1. PICK r : TakeUp(s, r) /\ r.op = "stage"
    BY <1>2 DEF ReadStage
  <2> QED BY <1>2, <2>1, WholeRead DEF TakeUp, ReadStage
<1>3. ASSUME NEW s \in Sessions, NEW d \in AllDeals, ReadEngage(s, d) PROVE WholeLists'
  <2>1. PICK r : TakeUp(s, r) /\ r.op = "engage"
    BY <1>3 DEF ReadEngage
  <2> QED BY <1>3, <2>1, WholeRead DEF TakeUp, ReadEngage
<1>4. ASSUME NEW s \in Sessions, WriteStage(s) \/ FailDeal(s) PROVE WholeLists'
  <2>1. Finish(s) /\ UNCHANGED <<quote, crossed>>
    BY <1>4 DEF WriteStage, FailDeal
  <2> QED BY <2>1, WholeEnd DEF HasQuote
<1>5. ASSUME NEW s \in Sessions, DeleteLines(s) PROVE WholeLists'
  <2> DEFINE q == dealing[s]
             r == [op |-> "replace", d |-> q.d, was |-> q.was, batch |-> q.batch,
                   sees |-> quote[q.d].lines]
  <2>1. dealing' = [dealing EXCEPT ![s] = r] /\ UNCHANGED <<quote, crossed>>
    BY <1>5 DEF DeleteLines
  <2>2. r.op = "replace"
    OBVIOUS
  <2> HIDE DEF r
  <2> QED BY <2>1, <2>2, WholeRead
<1>6. ASSUME NEW s \in Sessions, MakePackage(s) PROVE WholeLists'
  <2>1. PICK p \in Packages :
          dealing' = [dealing EXCEPT ![s] = [op |-> "link", d |-> dealing[s].d, p |-> p]]
    BY <1>6 DEF MakePackage
  <2> DEFINE r == [op |-> "link", d |-> dealing[s].d, p |-> p]
  <2>2. dealing' = [dealing EXCEPT ![s] = r] /\ UNCHANGED <<quote, crossed>>
    BY <1>6, <2>1 DEF MakePackage
  <2>3. r.op = "link"
    OBVIOUS
  <2> HIDE DEF r
  <2> QED BY <2>2, <2>3, WholeRead
<1>7. ASSUME NEW s \in Sessions, ReadReviseLines(s) PROVE WholeLists'
  <2> DEFINE q == dealing[s]
             row == [q.row EXCEPT !.lines = quote[q.d].lines]
             r == [op |-> "revise", d |-> q.d, row |-> row,
                   torn |-> quote[q.d].lines # q.row.lines]
  <2>1. dealing' = [dealing EXCEPT ![s] = r] /\ UNCHANGED <<quote, crossed>>
    BY <1>7 DEF ReadReviseLines
  <2>2. q.op = "read" /\ q \in DealRequest
    BY <1>7 DEF ReadReviseLines, DealsInv, DealsFit, DealsTypeOK
  <2>3. q.row \in QuoteRow /\ (q.d \in crossed \/ OneBatch(q.row))
    BY <2>2, RequestParts DEF WholeLists
  <2>4. ~r.torn => row.lines = q.row.lines /\ row.value = q.row.value
    BY <2>3 DEF QuoteRow
  <2> HIDE DEF row
  <2>5. r.op = "revise" /\ (r.torn \/ r.d \in crossed \/ OneBatch(r.row))
    BY <2>3, <2>4 DEF OneBatch
  <2> HIDE DEF r
  <2> QED BY <2>1, <2>5, WholeRead
<1> QED BY <1>1, <1>2, <1>3, <1>4, <1>5, <1>6, <1>7, WholeReads, WholeWrites DEF DealStep

----------------------------------------------------------------------------
(* Work packages.                                                          *)

Exists(d) == IF d \in Quotes THEN HasQuote(d) ELSE HasOpp(d)

\* At most one making, which started from a deal without a package; what was made is
\* linked or about to be.
Engaged(d) ==
  /\ made[d] = {} \/ \E p \in Packages : made[d] = {p}
  /\ \A s, t \in Making(d) : s = t
  /\ \A s \in Making(d) : LinkOf(d) = Null /\ (dealing[s].op = "engage" => made[d] = {})
  /\ made[d] # {} => Making(d) # {} \/ LinkOf(d) # Null

Engagements ==
  /\ \A s \in Sessions : dealing[s].op = "stage" => dealing[s].was \notin {"WON", "LOST"}
  /\ \A d \in AllDeals :
       /\ made[d] # {} \/ Making(d) # {} => Exists(d) /\ (d \in overtaken \/ Won(d))
       /\ d \notin doubled => Engaged(d)

\* Deals keep their link, and stay won unless overtaken.
DealsStand ==
  /\ \A q \in Quotes : HasQuote(q) =>
       /\ HasQuote(q)'
       /\ quote'[q].workPackageId = quote[q].workPackageId
       /\ quote[q].status = "ACCEPTED" => quote'[q].status = "ACCEPTED" \/ q \in overtaken'
  /\ \A o \in Opportunities : HasOpp(o) =>
       /\ HasOpp(o)'
       /\ opp'[o].workPackageId = opp[o].workPackageId
       /\ opp[o].stage = "WON" => opp'[o].stage = "WON" \/ o \in overtaken'

LEMMA EngagedFrame ==
  ASSUME Engagements, DealsStand, UNCHANGED <<made, doubled>>, overtaken \subseteq overtaken',
         \A d \in AllDeals : /\ Making(d)' = Making(d)
                             /\ \A s \in Making(d) : dealing'[s] = dealing[s],
         \A s \in Sessions : dealing'[s].op = "stage" => dealing'[s].was \notin {"WON", "LOST"}
  PROVE  Engagements'
<1> SUFFICES ASSUME NEW d \in AllDeals
             PROVE  /\ made'[d] # {} \/ Making(d)' # {} =>
                         Exists(d)' /\ (d \in overtaken' \/ Won(d)')
                    /\ d \notin doubled' => Engaged(d)'
  BY DEF Engagements
<1>1. Exists(d) => /\ Exists(d)' /\ LinkOf(d)' = LinkOf(d)
                   /\ Won(d) => Won(d)' \/ d \in overtaken'
  <2>1. CASE d \in Quotes
    BY <2>1 DEF DealsStand, Exists, LinkOf, Won
  <2>2. CASE d \notin Quotes
    BY <2>2 DEF DealsStand, Exists, LinkOf, Won, AllDeals
  <2> QED BY <2>1, <2>2
<1>2. made[d] # {} \/ Making(d) # {} => Exists(d) /\ (d \in overtaken \/ Won(d))
  BY DEF Engagements
<1>3. d \notin doubled' => Engaged(d)'
  BY <1>1, <1>2 DEF Engagements, Engaged
<1> QED BY <1>1, <1>2, <1>3

\* The makings after a session takes up, goes on with or ends a request.
LEMMA MakingOf ==
  ASSUME DealsInv, NEW s \in Sessions, NEW r, dealing' = [dealing EXCEPT ![s] = r]
  PROVE  /\ dealing'[s] = r
         /\ \A t \in Sessions \ {s} : dealing'[t] = dealing[t]
         /\ \A d \in AllDeals :
              Making(d)' = IF r.op \in {"engage", "link"} /\ r.d = d
                           THEN Making(d) \cup {s} ELSE Making(d) \ {s}
<1>1. \A t \in Sessions : dealing'[t] = IF t = s THEN r ELSE dealing[t]
  BY DEF DealsInv, DealsFit, DealsTypeOK
<1> QED BY <1>1 DEF Making

\* A step of a request that makes no package.
LEMMA OtherRequest ==
  ASSUME Engagements, DealsInv, DealsStand, NEW s \in Sessions, NEW r,
         dealing' = [dealing EXCEPT ![s] = r],
         dealing[s].op \notin {"engage", "link"}, r.op \notin {"engage", "link"},
         r.op = "stage" => r.was \notin {"WON", "LOST"},
         UNCHANGED <<made, doubled>>, overtaken \subseteq overtaken'
  PROVE  Engagements'
<1>1. /\ dealing'[s] = r
      /\ \A t \in Sessions \ {s} : dealing'[t] = dealing[t]
      /\ \A d \in AllDeals : Making(d)' = Making(d) \ {s}
  BY MakingOf
<1>2. \A d \in AllDeals : s \notin Making(d) /\ Making(d) \subseteq Sessions
  BY DEF Making
<1>3. \A t \in Sessions : dealing'[t].op = "stage" => dealing'[t].was \notin {"WON", "LOST"}
  BY <1>1 DEF Engagements
<1> QED BY <1>1, <1>2, <1>3, EngagedFrame

LEMMA OtherEnd ==
  ASSUME Engagements, DealsInv, DealsStand, NEW s \in Sessions, Finish(s),
         dealing[s].op \notin {"engage", "link"},
         UNCHANGED <<made, doubled>>, overtaken \subseteq overtaken'
  PROVE  Engagements'
<1>1. Idle.op = "idle"
  BY DEF Idle
<1> QED BY <1>1, OtherRequest DEF Finish

LEMMA StandStill ==
  ASSUME UNCHANGED <<opp, quote>>
  PROVE  DealsStand
BY DEF DealsStand, HasQuote, HasOpp

LEMMA OtherRead ==
  ASSUME Engagements, DealsInv, NEW s \in Sessions, NEW r, TakeUp(s, r),
         r.op \notin {"engage", "link"}, r.op = "stage" => r.was \notin {"WON", "LOST"},
         UNCHANGED <<opp, quote, made, overtaken, doubled>>
  PROVE  Engagements'
<1>1. Idle.op = "idle"
  BY DEF Idle
<1> QED BY <1>1, StandStill, OtherRequest DEF TakeUp

LEMMA OtherReads ==
  ASSUME Engagements, DealsInv, NEW s \in Sessions,
         \/ \E o \in Opportunities : ReadStage(s, o)
         \/ \E q \in Quotes :
              ReadCreate(s, q) \/ ReadQuoteEdit(s, q) \/ ReadLines(s, q) \/ ReadRevise(s, q)
  PROVE  Engagements'
<1>1. ASSUME NEW o \in Opportunities, ReadStage(s, o) PROVE Engagements'
  <2>1. PICK r : TakeUp(s, r) /\ r.op = "stage" /\ r.was \notin {"WON", "LOST"}
    BY <1>1 DEF ReadStage, MayMove
  <2>2. UNCHANGED <<opp, quote, made, overtaken, doubled>>
    BY <1>1 DEF ReadStage
  <2> QED BY <2>1, <2>2, OtherRead
<1>2. ASSUME NEW q \in Quotes, ReadCreate(s, q) PROVE Engagements'
  <2>1. PICK r : TakeUp(s, r) /\ r.op = "create"
    BY <1>2 DEF ReadCreate
  <2>2. UNCHANGED <<opp, quote, made, overtaken, doubled>>
    BY <1>2 DEF ReadCreate
  <2> QED BY <2>1, <2>2, OtherRead
<1>3. ASSUME NEW q \in Quotes, ReadQuoteEdit(s, q) PROVE Engagements'
  <2>1. PICK r : TakeUp(s, r) /\ r.op = "edit"
    BY <1>3 DEF ReadQuoteEdit
  <2>2. UNCHANGED <<opp, quote, made, overtaken, doubled>>
    BY <1>3 DEF ReadQuoteEdit
  <2> QED BY <2>1, <2>2, OtherRead
<1>4. ASSUME NEW q \in Quotes, ReadLines(s, q) PROVE Engagements'
  <2>1. PICK r : TakeUp(s, r) /\ r.op = "lines"
    BY <1>4 DEF ReadLines
  <2>2. UNCHANGED <<opp, quote, made, overtaken, doubled>>
    BY <1>4 DEF ReadLines
  <2> QED BY <2>1, <2>2, OtherRead
<1>5. ASSUME NEW q \in Quotes, ReadRevise(s, q) PROVE Engagements'
  <2>1. PICK r : TakeUp(s, r) /\ r.op = "read"
    BY <1>5 DEF ReadRevise
  <2>2. UNCHANGED <<opp, quote, made, overtaken, doubled>>
    BY <1>5 DEF ReadRevise
  <2> QED BY <2>1, <2>2, OtherRead
<1> QED BY <1>1, <1>2, <1>3, <1>4, <1>5

\* A stage or status that a request read before it was won or accepted can undo the win
\* only by overtaking it.
LEMMA OtherWrites ==
  ASSUME Engagements, DealsInv, NEW s \in Sessions,
         WriteStage(s) \/ CommitCreate(s) \/ WriteQuoteEdit(s) \/ CommitLines(s)
           \/ CommitRevise(s)
  PROVE  Engagements'
<1> DEFINE r == dealing[s]
<1>0. DealsTypeOK /\ r \in DealRequest /\ FitDeal(quote, r)
  BY DEF DealsInv, DealsFit, DealsTypeOK
<1>1. /\ \A q \in Quotes : HasQuote(q) => quote[q] \in QuoteRow
      /\ \A o \in Opportunities : HasOpp(o) => opp[o] \in OppRow
  BY <1>0 DEF DealsTypeOK, HasQuote, HasOpp
<1>2. CASE WriteStage(s)
  <2>1. r.d \in Opportunities /\ r.was \notin {"WON", "LOST"} /\ r.op = "stage" /\ HasOpp(r.d)
    BY <1>0, <1>2, RequestParts DEF WriteStage, Engagements, DealsInv, DealsFit
  <2>2. /\ opp'[r.d] = [opp[r.d] EXCEPT !.stage = r.to]
        /\ \A o \in Opportunities \ {r.d} : opp'[o] = opp[o]
    BY <1>0, <1>2, <2>1 DEF WriteStage, DealsTypeOK
  <2>3. overtaken \subseteq overtaken' /\ (opp[r.d].stage = "WON" => r.d \in overtaken')
    BY <1>2, <2>1 DEF WriteStage
  <2>4. opp'[r.d] # Null /\ opp'[r.d].workPackageId = opp[r.d].workPackageId
    <3>1. opp[r.d] \in OppRow /\ r.to \in Stages
      BY <1>0, <1>1, <2>1, RequestParts
    <3>2. opp'[r.d] \in OppRow
      BY <2>2, <3>1 DEF OppRow
    <3> QED BY <2>2, <3>1, <3>2, NullIsNoDeal DEF OppRow
  <2>5. DealsStand
    BY <1>2, <2>1, <2>2, <2>3, <2>4 DEF DealsStand, WriteStage, HasQuote, HasOpp
  <2> QED BY <1>2, <2>1, <2>3, <2>5, OtherEnd DEF WriteStage
<1>3. CASE CommitCreate(s)
  <2>0. r.d \in Quotes /\ ~HasQuote(r.d)
    BY <1>0, <1>3, RequestParts DEF CommitCreate
  <2>1. \A q \in Quotes : HasQuote(q) =>
          quote'[q] \in {quote[q], [quote[q] EXCEPT !.isPrimary = FALSE]}
    <3> DEFINE loses(q) == q \in r.sees /\ quote[q].opportunityId = r.row.opportunityId
    <3>1. quote' = [q \in Quotes |->
                      IF q = r.d THEN r.row
                      ELSE IF loses(q) THEN [quote[q] EXCEPT !.isPrimary = FALSE]
                      ELSE quote[q]]
      BY <1>3 DEF CommitCreate
    <3> HIDE DEF loses, r
    <3> QED BY <2>0, <3>1
  <2>2. \A q \in Quotes : HasQuote(q) =>
          /\ quote'[q] \in QuoteRow /\ quote'[q].status = quote[q].status
          /\ quote'[q].workPackageId = quote[q].workPackageId
    <3> SUFFICES ASSUME NEW q \in Quotes, HasQuote(q)
                 PROVE  /\ quote'[q] \in QuoteRow /\ quote'[q].status = quote[q].status
                        /\ quote'[q].workPackageId = quote[q].workPackageId
      OBVIOUS
    <3>1. CASE quote'[q] = quote[q]
      BY <1>1, <3>1
    <3>2. CASE quote'[q] = [quote[q] EXCEPT !.isPrimary = FALSE]
      BY <1>1, <3>2 DEF QuoteRow
    <3> QED BY <2>1, <3>1, <3>2
  <2>3. DealsStand
    BY <1>3, <2>2, NullIsNoDeal DEF DealsStand, CommitCreate, HasQuote, HasOpp
  <2>4. Finish(s) /\ r.op = "create" /\ UNCHANGED <<made, doubled, overtaken>>
    BY <1>3 DEF CommitCreate
  <2> QED BY <2>3, <2>4, OtherEnd
<1>4. CASE WriteQuoteEdit(s)
  <2>1. /\ r.d \in Quotes /\ r.op = "edit" /\ HasQuote(r.d)
        /\ r.to # Keep => r.to \in Transitions(r.was)
        /\ r.to \in QuoteStatuses \cup {Keep}
        /\ r.opportunityId \in Opportunities \cup {Null, Keep}
    BY <1>0, <1>4, RequestParts DEF WriteQuoteEdit, FitDeal, HasQuote
  <2>2. r.to # Keep => r.was # "ACCEPTED"
    BY <2>1 DEF Transitions
  <2>3. /\ quote'[r.d] = [quote[r.d] EXCEPT
               !.status = IF r.to = Keep THEN @ ELSE r.to,
               !.opportunityId = IF r.opportunityId = Keep THEN @ ELSE r.opportunityId]
        /\ \A q \in Quotes \ {r.d} : quote'[q] = quote[q]
    BY <1>0, <1>1, <1>4, <2>1 DEF WriteQuoteEdit, DealsTypeOK, QuoteRow
  <2>4. /\ quote'[r.d] \in QuoteRow
        /\ quote'[r.d].workPackageId = quote[r.d].workPackageId
        /\ quote'[r.d].status = IF r.to = Keep THEN quote[r.d].status ELSE r.to
    BY <1>1, <2>1, <2>3 DEF QuoteRow
  <2>5. /\ overtaken \subseteq overtaken'
        /\ r.to # Keep /\ quote[r.d].status # r.was => r.d \in overtaken'
    BY <1>4 DEF WriteQuoteEdit
  <2>6. DealsStand
    BY <1>4, <2>1, <2>2, <2>3, <2>4, <2>5, NullIsNoDeal
       DEF DealsStand, WriteQuoteEdit, HasQuote, HasOpp
  <2> QED BY <1>4, <2>1, <2>5, <2>6, OtherEnd DEF WriteQuoteEdit
<1>5. CASE CommitLines(s)
  <2>1. r.d \in Quotes /\ r.batch \in Batches /\ HasQuote(r.d) /\ r.op = "replace"
    BY <1>0, <1>5, RequestParts DEF CommitLines, FitDeal, HasQuote
  <2>2. quote'[r.d] = Replaced(quote[r.d], r.sees, r.batch)
        /\ \A q \in Quotes \ {r.d} : quote'[q] = quote[q]
    BY <1>0, <1>5, <2>1 DEF CommitLines, DealsTypeOK
  <2>3. /\ quote'[r.d].workPackageId = quote[r.d].workPackageId
        /\ quote'[r.d].status = quote[r.d].status
    BY <1>1, <2>1, <2>2 DEF Replaced, QuoteRow
  <2>4. quote'[r.d] # Null
    <3>1. SumLines(r.batch) \in Nat
          /\ (quote[r.d].lines \ r.sees) \cup {r.batch} \in SUBSET Batches
      BY <1>1, <2>1, DealsAssumption DEF SumLines, QuoteRow
    <3>2. quote'[r.d] \in QuoteRow
      BY <1>1, <2>1, <2>2, <3>1 DEF Replaced, QuoteRow
    <3> QED BY <3>2, NullIsNoDeal
  <2>5. DealsStand
    BY <1>5, <2>1, <2>2, <2>3, <2>4 DEF DealsStand, CommitLines, HasQuote, HasOpp
  <2> QED BY <1>5, <2>1, <2>5, OtherEnd DEF CommitLines
<1>6. CASE CommitRevise(s)
  <2>1. /\ r.d \in Quotes /\ HasQuote(r.d) /\ r.op = "revise"
        /\ r.row.status \in {"SENT", "REJECTED", "EXPIRED"}
    BY <1>0, <1>6, RequestParts DEF CommitRevise, FitDeal, HasQuote
  <2>2. /\ quote'[r.d] = Superseded(quote[r.d], r.row.status)
        /\ \A q \in Quotes \ {r.d} : HasQuote(q) => quote'[q] = quote[q]
    BY <1>0, <1>6, <2>1 DEF CommitRevise, DealsTypeOK
  <2>3. /\ quote'[r.d] \in QuoteRow
        /\ quote'[r.d].workPackageId = quote[r.d].workPackageId
    BY <1>1, <2>1, <2>2 DEF Superseded, QuoteRow, QuoteStatuses
  <2>4. overtaken \subseteq overtaken'
        /\ (quote[r.d].status = "ACCEPTED" => r.d \in overtaken')
    BY <1>6, <2>1 DEF CommitRevise
  <2>5. DealsStand
    BY <1>6, <2>1, <2>2, <2>3, <2>4, NullIsNoDeal
       DEF DealsStand, CommitRevise, HasQuote, HasOpp
  <2> QED BY <1>6, <2>1, <2>4, <2>5, OtherEnd DEF CommitRevise
<1> QED BY <1>2, <1>3, <1>4, <1>5, <1>6

\* A step of a making of deal e: the other deals stay as they are.
LEMMA MakingFrame ==
  ASSUME Engagements, DealsInv, NEW s \in Sessions, NEW r, NEW e \in AllDeals,
         dealing' = [dealing EXCEPT ![s] = r],
         dealing[s].op \in {"engage", "link"} => dealing[s].d = e,
         r.op \in {"engage", "link"} => r.d = e, r.op # "stage",
         UNCHANGED overtaken,
         \A d \in AllDeals : (Exists(d) => Exists(d)') /\ (Won(d) => Won(d)'),
         \A d \in AllDeals \ {e} : /\ made'[d] = made[d] /\ LinkOf(d)' = LinkOf(d)
                                   /\ d \in doubled => d \in doubled',
         made'[e] # {} \/ Making(e)' # {} => Exists(e) /\ (e \in overtaken \/ Won(e)),
         e \notin doubled' => Engaged(e)'
  PROVE  Engagements'
<1>0. /\ dealing'[s] = r
      /\ \A t \in Sessions \ {s} : dealing'[t] = dealing[t]
      /\ \A d \in AllDeals :
           Making(d)' = IF r.op \in {"engage", "link"} /\ r.d = d
                        THEN Making(d) \cup {s} ELSE Making(d) \ {s}
  BY MakingOf
<1>1. /\ dealing'[s] = r
      /\ \A t \in Sessions \ {s} : dealing'[t] = dealing[t]
      /\ \A d \in AllDeals \ {e} : Making(d)' = Making(d) \ {s}
  BY <1>0
<1>2. \A d \in AllDeals \ {e} : s \notin Making(d) /\ Making(d) \subseteq Sessions
  BY DEF Making
<1>3. \A t \in Sessions : dealing'[t].op = "stage" => dealing'[t].was \notin {"WON", "LOST"}
  BY <1>1 DEF Engagements
<1>4. ASSUME NEW d \in AllDeals \ {e}
      PROVE  /\ made'[d] # {} \/ Making(d)' # {} =>
                  Exists(d)' /\ (d \in overtaken' \/ Won(d)')
             /\ d \notin doubled' => Engaged(d)'
  <2>1. Making(d)' = Making(d) /\ \A t \in Making(d) : dealing'[t] = dealing[t]
    BY <1>1, <1>2
  <2>2. made[d] # {} \/ Making(d) # {} => Exists(d) /\ (d \in overtaken \/ Won(d))
    BY DEF Engagements
  <2>3. d \notin doubled' => Engaged(d)'
    BY <2>1 DEF Engagements, Engaged
  <2> QED BY <2>1, <2>2, <2>3
<1>5. /\ made'[e] # {} \/ Making(e)' # {} => Exists(e)' /\ (e \in overtaken' \/ Won(e)')
      /\ e \notin doubled' => Engaged(e)'
  OBVIOUS
<1> QED BY <1>3, <1>4, <1>5 DEF Engagements

LEMMA EngageReads ==
  ASSUME Engagements, DealsInv, NEW s \in Sessions, NEW d \in AllDeals, ReadEngage(s, d)
  PROVE  Engagements'
<1> DEFINE r == [op |-> "engage", d |-> d]
<1>1. /\ dealing' = [dealing EXCEPT ![s] = r] /\ dealing[s] = Idle
      /\ Won(d) /\ LinkOf(d) = Null
      /\ doubled' = IF Making(d) = {} THEN doubled ELSE doubled \cup {d}
      /\ UNCHANGED <<opp, quote, made, overtaken>>
  BY DEF ReadEngage, MayEngage, TakeUp
<1>2. r.op = "engage" /\ r.d = d /\ Idle.op = "idle"
  BY DEF Idle
<1> HIDE DEF r
<1>3. \A x \in AllDeals : /\ Exists(x)' = Exists(x) /\ Won(x)' = Won(x)
                          /\ LinkOf(x)' = LinkOf(x)
  BY <1>1 DEF Exists, Won, LinkOf, HasQuote, HasOpp
<1>4. Exists(d)
  BY <1>1 DEF Won, Exists
<1>5. dealing'[s] = r /\ Making(d)' = Making(d) \cup {s}
  BY <1>1, <1>2, MakingOf
<1>6. d \notin doubled' => Engaged(d)'
  <2> SUFFICES ASSUME d \notin doubled' PROVE Engaged(d)'
    OBVIOUS
  <2>1. Making(d) = {} /\ Engaged(d)
    BY <1>1 DEF Engagements
  <2>2. made[d] = {}
    BY <1>1, <2>1 DEF Engaged
  <2> QED BY <1>1, <1>3, <1>5, <2>1, <2>2 DEF Engaged
<1> QED BY <1>1, <1>2, <1>3, <1>4, <1>6, MakingFrame

LEMMA PackageMade ==
  ASSUME Engagements, DealsInv, NEW s \in Sessions, MakePackage(s)
  PROVE  Engagements'
<1>0. DealsTypeOK /\ dealing[s] \in DealRequest
  BY DEF DealsInv, DealsFit, DealsTypeOK
<1>1. PICK e : e = dealing[s].d
  OBVIOUS
<1>2. PICK p \in Packages :
        /\ made' = [made EXCEPT ![e] = @ \cup {p}]
        /\ dealing' = [dealing EXCEPT ![s] = [op |-> "link", d |-> e, p |-> p]]
  BY <1>1 DEF MakePackage
<1> DEFINE r == [op |-> "link", d |-> e, p |-> p]
<1>3. /\ dealing[s].op = "engage" /\ UNCHANGED <<opp, quote, overtaken, doubled>>
      /\ dealing' = [dealing EXCEPT ![s] = r]
  BY <1>2 DEF MakePackage
<1>4. r.op = "link" /\ r.d = e
  OBVIOUS
<1> HIDE DEF r
<1>5. e \in AllDeals /\ s \in Making(e)
  BY <1>0, <1>1, <1>3, RequestParts DEF Making
<1>6. made'[e] = made[e] \cup {p} /\ \A d \in AllDeals \ {e} : made'[d] = made[d]
  BY <1>0, <1>2, <1>5 DEF DealsTypeOK
<1>7. /\ dealing'[s] = r
      /\ \A t \in Sessions \ {s} : dealing'[t] = dealing[t]
      /\ Making(e)' = Making(e)
  <2>1. /\ dealing'[s] = r
        /\ \A t \in Sessions \ {s} : dealing'[t] = dealing[t]
        /\ Making(e)' = Making(e) \cup {s}
    BY <1>3, <1>4, <1>5, MakingOf
  <2> QED BY <1>5, <2>1
<1>8. \A x \in AllDeals : /\ Exists(x)' = Exists(x) /\ Won(x)' = Won(x)
                          /\ LinkOf(x)' = LinkOf(x)
  BY <1>3 DEF Exists, Won, LinkOf, HasQuote, HasOpp
<1>9. e \notin doubled' => Engaged(e)'
  <2> SUFFICES ASSUME Engaged(e) PROVE Engaged(e)'
    BY <1>3, <1>5 DEF Engagements
  <2>1. made'[e] = {p} /\ LinkOf(e)' = Null /\ \A t \in Making(e) : t = s
    BY <1>3, <1>5, <1>6, <1>8 DEF Engaged
  <2> QED BY <1>4, <1>5, <1>7, <2>1 DEF Engaged
<1>10. Exists(e) /\ (e \in overtaken \/ Won(e))
  BY <1>5 DEF Engagements
<1> QED BY <1>1, <1>3, <1>4, <1>5, <1>6, <1>8, <1>9, <1>10, MakingFrame

LEMMA PackageLinked ==
  ASSUME Engagements, DealsInv, NEW s \in Sessions, LinkPackage(s)
  PROVE  Engagements'
<1>0. DealsTypeOK /\ dealing[s] \in DealRequest /\ Idle.op = "idle"
  BY DEF DealsInv, DealsFit, DealsTypeOK, Idle
<1>1. PICK e, p : e = dealing[s].d /\ p = dealing[s].p
  OBVIOUS
<1>2. /\ dealing[s].op = "link" /\ dealing' = [dealing EXCEPT ![s] = Idle]
      /\ UNCHANGED <<made, overtaken, doubled>>
      /\ \/ e \in Quotes
            /\ quote' = [quote EXCEPT ![e].workPackageId = p] /\ UNCHANGED opp
         \/ e \in Opportunities
            /\ opp' = [opp EXCEPT ![e].workPackageId = p] /\ UNCHANGED quote
  BY <1>1 DEF LinkPackage, Finish
<1>3. e \in AllDeals /\ p \in Packages /\ s \in Making(e) /\ p # Null
  BY <1>0, <1>1, <1>2, RequestParts, DealsAssumption DEF Making
<1>4. Making(e)' = Making(e) \ {s} /\ \A t \in Sessions \ {s} : dealing'[t] = dealing[t]
  BY <1>0, <1>2, <1>3, MakingOf
<1>5. Exists(e) /\ (e \in overtaken \/ Won(e))
  BY <1>3 DEF Engagements
<1>6. /\ \A d \in AllDeals : (Exists(d) => Exists(d)') /\ (Won(d) => Won(d)')
      /\ \A d \in AllDeals \ {e} : LinkOf(d)' = LinkOf(d)
      /\ LinkOf(e)' = p
  <2>1. CASE e \in Quotes /\ quote' = [quote EXCEPT ![e].workPackageId = p] /\ UNCHANGED opp
    <3>1. /\ quote'[e] = [quote[e] EXCEPT !.workPackageId = p] /\ quote[e] \in QuoteRow
          /\ \A q \in Quotes \ {e} : quote'[q] = quote[q]
      BY <1>0, <1>5, <2>1 DEF DealsTypeOK, Exists, HasQuote
    <3>2. /\ quote'[e] \in QuoteRow /\ quote'[e].status = quote[e].status
          /\ quote'[e].workPackageId = p
      BY <1>3, <3>1 DEF QuoteRow
    <3> QED BY <2>1, <3>1, <3>2, NullIsNoDeal DEF Exists, Won, LinkOf, HasQuote, HasOpp
  <2>2. CASE e \in Opportunities /\ opp' = [opp EXCEPT ![e].workPackageId = p]
             /\ UNCHANGED quote
    <3>1. e \notin Quotes
      BY <2>2, DealsAssumption
    <3>2. /\ opp'[e] = [opp[e] EXCEPT !.workPackageId = p] /\ opp[e] \in OppRow
          /\ \A o \in Opportunities \ {e} : opp'[o] = opp[o]
      BY <1>0, <1>5, <2>2, <3>1 DEF DealsTypeOK, Exists, HasOpp
    <3>3. /\ opp'[e] \in OppRow /\ opp'[e].stage = opp[e].stage
          /\ opp'[e].workPackageId = p
      BY <1>3, <3>2 DEF OppRow
    <3> QED BY <2>2, <3>1, <3>2, <3>3, NullIsNoDeal
            DEF Exists, Won, LinkOf, HasQuote, HasOpp, AllDeals
  <2> QED BY <1>2, <2>1, <2>2
<1>7. e \notin doubled' => Engaged(e)'
  <2> SUFFICES ASSUME Engaged(e) PROVE Engaged(e)'
    BY <1>2, <1>3 DEF Engagements
  <2>1. Making(e)' = {}
    BY <1>3, <1>4 DEF Engaged
  <2> QED BY <1>2, <1>3, <1>6, <2>1 DEF Engaged
<1> QED BY <1>0, <1>1, <1>2, <1>3, <1>5, <1>6, <1>7, MakingFrame

\* A failed request leaves the package it made without a link.
LEMMA DealFailed ==
  ASSUME Engagements, DealsInv, NEW s \in Sessions, FailDeal(s)
  PROVE  Engagements'
<1>0. dealing[s] \in DealRequest /\ Idle.op = "idle"
  BY DEF DealsInv, DealsFit, DealsTypeOK, Idle
<1>1. /\ UNCHANGED <<opp, quote, made, overtaken>> /\ Finish(s)
      /\ doubled' = IF dealing[s].op = "link" THEN doubled \cup {dealing[s].d} ELSE doubled
  BY DEF FailDeal
<1>2. CASE dealing[s].op \notin {"engage", "link"}
  BY <1>1, <1>2, StandStill, OtherEnd
<1>3. CASE dealing[s].op \in {"engage", "link"}
  <2>1. PICK e : e = dealing[s].d
    OBVIOUS
  <2>2. e \in AllDeals /\ s \in Making(e)
    BY <1>0, <1>3, <2>1, RequestParts DEF Making
  <2>3. dealing' = [dealing EXCEPT ![s] = Idle]
    BY <1>1 DEF Finish
  <2>4. Making(e)' = Making(e) \ {s}
    BY <1>0, <2>2, <2>3, MakingOf
  <2>5. \A x \in AllDeals : /\ Exists(x)' = Exists(x) /\ Won(x)' = Won(x)
                            /\ LinkOf(x)' = LinkOf(x)
    BY <1>1 DEF Exists, Won, LinkOf, HasQuote, HasOpp
  <2>6. e \notin doubled' => Engaged(e)'
    <3> SUFFICES ASSUME e \notin doubled' PROVE Engaged(e)'
      OBVIOUS
    <3>1. dealing[s].op = "engage" /\ Engaged(e)
      BY <1>1, <1>3, <2>1, <2>2 DEF Engagements
    <3>2. made[e] = {} /\ Making(e)' = {}
      BY <2>2, <2>4, <3>1 DEF Engaged
    <3> QED BY <1>1, <3>2 DEF Engaged
  <2>7. Exists(e) /\ (e \in overtaken \/ Won(e))
    BY <2>2 DEF Engagements
  <2>8. \A d \in AllDeals : d \in doubled => d \in doubled'
    BY <1>1
  <2> QED BY <1>0, <1>1, <2>1, <2>2, <2>3, <2>5, <2>6, <2>7, <2>8, MakingFrame
<1> QED BY <1>2, <1>3

LEMMA LinesDeleted ==
  ASSUME Engagements, DealsInv, NEW s \in Sessions, DeleteLines(s)
  PROVE  Engagements'
<1> DEFINE q == dealing[s]
           r == [op |-> "replace", d |-> q.d, was |-> q.was, batch |-> q.batch,
                 sees |-> quote[q.d].lines]
<1>1. /\ dealing[s].op = "lines" /\ dealing' = [dealing EXCEPT ![s] = r]
      /\ UNCHANGED <<opp, quote, made, overtaken, doubled>>
  BY DEF DeleteLines
<1>2. r.op = "replace"
  OBVIOUS
<1> HIDE DEF r
<1> QED BY <1>1, <1>2, StandStill, OtherRequest

LEMMA LinesRead ==
  ASSUME Engagements, DealsInv, NEW s \in Sessions, ReadReviseLines(s)
  PROVE  Engagements'
<1> DEFINE q == dealing[s]
           r == [op |-> "revise", d |-> q.d,
                 row |-> [q.row EXCEPT !.lines = quote[q.d].lines],
                 torn |-> quote[q.d].lines # q.row.lines]
<1>1. /\ dealing[s].op = "read" /\ dealing' = [dealing EXCEPT ![s] = r]
      /\ UNCHANGED <<opp, quote, made, overtaken, doubled>>
  BY DEF ReadReviseLines
<1>2. r.op = "revise"
  OBVIOUS
<1> HIDE DEF r
<1> QED BY <1>1, <1>2, StandStill, OtherRequest

LEMMA OpportunityMade ==
  ASSUME Engagements, DealsInv, NEW n \in Opportunities, CreateOpportunity(n)
  PROVE  Engagements'
<1>1. \A o \in Opportunities : HasOpp(o) => opp'[o] = opp[o]
  BY DEF CreateOpportunity, HasOpp, DealsInv, DealsFit, DealsTypeOK
<1>2. DealsStand
  BY <1>1 DEF DealsStand, CreateOpportunity, HasOpp, HasQuote
<1>3. \A d \in AllDeals : Making(d)' = Making(d)
  BY DEF CreateOpportunity, Making
<1>4. UNCHANGED <<made, dealing, overtaken, doubled>>
  BY DEF CreateOpportunity
<1>5. \A t \in Sessions : dealing'[t].op = "stage" => dealing'[t].was \notin {"WON", "LOST"}
  BY <1>4 DEF Engagements
<1> QED BY <1>2, <1>3, <1>4, <1>5, EngagedFrame

LEMMA EngagementsKept ==
  ASSUME Engagements, DealsInv, DealStep
  PROVE  Engagements'
BY OpportunityMade, OtherReads, OtherWrites, EngageReads, LinesDeleted, LinesRead,
   PackageMade, PackageLinked, DealFailed DEF DealStep

LEMMA EngagedOnce ==
  ASSUME Engagements, DealsInv
  PROVE  OneEngagementPerDeal
<1> SUFFICES ASSUME NEW d \in AllDeals
             PROVE  /\ d \notin doubled => Cardinality(made[d]) <= 1
                    /\ made[d] # {} /\ d \notin overtaken => Won(d)
  BY DEF OneEngagementPerDeal
<1>1. d \notin doubled => made[d] = {} \/ \E p \in Packages : made[d] = {p}
  BY DEF Engagements, Engaged
<1>2. Cardinality({}) <= 1 /\ \A p \in Packages : Cardinality({p}) <= 1
  BY FS_EmptySet, FS_Singleton
<1> QED BY <1>1, <1>2 DEF Engagements

----------------------------------------------------------------------------
(* The theorems.                                                           *)

QuotesInv == OfficeInv /\ WholeLists /\ Engagements

LEMMA QuotesStart == OfficeInit => QuotesInv
<1> SUFFICES ASSUME OfficeInit PROVE QuotesInv
  OBVIOUS
<1>1. /\ \A s \in Sessions : dealing[s].op = "idle"
      /\ \A q \in Quotes : ~HasQuote(q)
      /\ \A d \in AllDeals : made[d] = {} /\ Making(d) = {}
  BY DEF OfficeInit, DealsInit, Idle, HasQuote, Making
<1>2. WholeLists
  BY <1>1 DEF WholeLists
<1>3. Engagements
  BY <1>1 DEF Engagements, Engaged
<1> QED BY <1>2, <1>3, OfficeStart DEF QuotesInv

LEMMA QuotesStay == QuotesInv /\ [OfficeNext]_officeVars => QuotesInv'
<1> SUFFICES ASSUME QuotesInv, [OfficeNext]_officeVars PROVE QuotesInv'
  OBVIOUS
<1>1. OfficeInv' /\ DealsInv
  BY OfficeStays DEF QuotesInv, OfficeInv
<1>2. CASE DealStep
  BY <1>1, <1>2, WholeNext, EngagementsKept DEF QuotesInv
<1>3. CASE UNCHANGED dealVars
  <2>1. WholeLists'
    BY <1>3 DEF QuotesInv, dealVars, WholeLists, HasQuote, OneBatch, LinesOf, SumLines
  <2>2. Engagements'
    BY <1>3 DEF QuotesInv, dealVars, Engagements, Engaged, Making, Exists, Won, LinkOf,
                HasQuote, HasOpp
  <2> QED BY <1>1, <2>1, <2>2 DEF QuotesInv
<1> QED BY <1>2, <1>3 DEF OfficeNext, officeVars

LEMMA QuotesAlways == OfficeSpec => []QuotesInv
BY QuotesStart, QuotesStay, PTL DEF OfficeSpec

\* The stored value of a quote is the sum of its stored lines (quotes.service.ts), in
\* every version, unless two replacements of its lines overlapped, or it was cloned from
\* a row and lines that were read on two sides of a replacement, or its row is the clone
\* of such a one: no other overlap of replacements, revisions, creations, status changes
\* and failures separates the two.
THEOREM ValuesAreSums == OfficeSpec => []ValueIsSum
<1>1. QuotesInv => ValueIsSum
  BY OneBatchSums DEF QuotesInv, WholeLists, ValueIsSum
<1> QED BY <1>1, QuotesAlways, PTL

\* A won opportunity or an accepted quote yields one work package
\* (work-packages.service.ts, createForClient), unless two makings overlap or one is cut
\* short before the link; and one that is not won yields none, unless its stage or
\* status is overwritten.
THEOREM DealsEngageOnce == OfficeSpec => []OneEngagementPerDeal
<1>1. QuotesInv => OneEngagementPerDeal
  BY EngagedOnce DEF QuotesInv, OfficeInv
<1> QED BY <1>1, QuotesAlways, PTL
=============================================================================
