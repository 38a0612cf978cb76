------------------------------- MODULE Deals -------------------------------
(***************************************************************************)
(* Opportunities, the quotes made for them, and the work packages that     *)
(* come of either.                                                         *)
(*   opportunities.service.ts, quotes.service.ts, quotes/dto.ts,           *)
(*   work-packages.service.ts (createForClient)                            *)
(*                                                                         *)
(* Handlers read a row, decide, and write without a condition.  The        *)
(* transactions are READ COMMITTED: a statement sees the rows that were    *)
(* committed when it began, and its row locks keep others off those rows   *)
(* only.  So a transaction is a step that takes what its first statement   *)
(* sees, and a step that commits.  A quote and the lines included in its   *)
(* read are two statements outside a transaction, and so two steps.        *)
(*                                                                         *)
(* The line items of a quote come and go in batches, each the whole list   *)
(* of one request; a batch is the natural number its lines add up to.      *)
(* Left out: texts, contacts, dates, currencies, the loss reason, the      *)
(* probability; what a work package holds and its later edits; the audit   *)
(* trail; who may see money.                                               *)
(***************************************************************************)
EXTENDS Registers, Naturals, FiniteSets, FiniteSetsExt

CONSTANTS
  Opportunities,  \* ids of the opportunities there may be
  Quotes,         \* ids of the quotes there may be
  References,     \* references of quotes; the versions of a quote share one
  Packages,       \* ids of the work packages there may be
  Batches,        \* lists of line items, each its total
  MaxVersion      \* bound of the version numbers

ASSUME DealsAssumption ==
  /\ Batches \subseteq Nat /\ MaxVersion \in Nat \ {0}
  /\ Opportunities \cap Quotes = {}
  /\ Null \notin Opportunities \cup Quotes \cup References \cup Packages \cup Batches
  /\ Keep \notin Opportunities \cup {Null}
  /\ Keep \notin {"DRAFT", "SENT", "ACCEPTED", "REJECTED", "EXPIRED", "WITHDRAWN"}

VARIABLES
  opp,        \* opportunities; Null for one that does not exist
  quote,      \* quotes; Null for one that does not exist
  made,       \* per opportunity or quote, the work packages made for it
  dealing,    \* the request each session serves
  overtaken,  \* history: deals whose stage or status was written from a stale read
  doubled,    \* history: deals with two makings at once, or one cut short
  crossed     \* history: quotes whose lines were replaced by two requests at once,
              \* or copied while a request replaced them, and the copies of these

dealVars == <<opp, quote, made, dealing, overtaken, doubled, crossed>>

OpenStages == <<"DISCOVERY", "QUALIFIED", "PROPOSAL", "NEGOTIATION">>
Stages == {OpenStages[i] : i \in 1..4} \cup {"WON", "LOST"}
QuoteStatuses == {"DRAFT", "SENT", "ACCEPTED", "REJECTED", "EXPIRED", "WITHDRAWN"}

\* QUOTE_TRANSITIONS
Transitions(status) ==
  CASE status = "DRAFT" -> {"SENT", "WITHDRAWN"}
    [] status = "SENT" -> {"ACCEPTED", "REJECTED", "EXPIRED", "WITHDRAWN"}
    [] OTHER -> {}

OppRow == [stage : Stages, workPackageId : Packages \cup {Null}]

QuoteRow ==
  [reference : References, version : 1..MaxVersion, status : QuoteStatuses,
   isPrimary : BOOLEAN, opportunityId : Opportunities \cup {Null},
   workPackageId : Packages \cup {Null}, lines : SUBSET Batches, value : Nat]

ASSUME NullIsNoDeal == Null \notin OppRow \cup QuoteRow

AllDeals == Opportunities \cup Quotes
HasOpp(o) == opp[o] # Null
HasQuote(q) == quote[q] # Null

DealRequest ==
  [op : {"idle"}]
  \cup [op : {"stage"}, d : Opportunities, was : Stages, to : Stages]
  \cup [op : {"edit"}, d : Quotes, was : QuoteStatuses, to : QuoteStatuses \cup {Keep},
        opportunityId : Opportunities \cup {Null, Keep}]
  \cup [op : {"create"}, d : Quotes, row : QuoteRow, sees : SUBSET Quotes]
  \cup [op : {"lines"}, d : Quotes, was : QuoteStatuses, batch : Batches]
  \cup [op : {"replace"}, d : Quotes, was : QuoteStatuses, batch : Batches,
        sees : SUBSET Batches]
  \cup [op : {"read"}, d : Quotes, row : QuoteRow]
  \cup [op : {"revise"}, d : Quotes, row : QuoteRow, torn : BOOLEAN]
  \cup [op : {"engage"}, d : AllDeals]
  \cup [op : {"link"}, d : AllDeals, p : Packages]

TakeUp(s, request) ==
  /\ dealing[s] = Idle
  /\ dealing' = [dealing EXCEPT ![s] = request]

Finish(s) == dealing' = [dealing EXCEPT ![s] = Idle]

----------------------------------------------------------------------------
(* Opportunities.                                                          *)

CreateOpportunity(o) ==
  /\ ~HasOpp(o)
  /\ opp' = [opp EXCEPT ![o] = [stage |-> "DISCOVERY", workPackageId |-> Null]]
  /\ UNCHANGED <<quote, made, dealing, overtaken, doubled, crossed>>

\* The stage machine: won and lost are final, open stages only go forward.
MayMove(from, to) ==
  /\ from \notin {"WON", "LOST"} /\ to # from
  /\ \A i, j \in 1..4 : from = OpenStages[i] /\ to = OpenStages[j] => i < j

ReadStage(s, o) ==
  /\ HasOpp(o)
  /\ \E to \in Stages :
       /\ MayMove(opp[o].stage, to)
       /\ TakeUp(s, [op |-> "stage", d |-> o, was |-> opp[o].stage, to |-> to])
  /\ UNCHANGED <<opp, quote, made, overtaken, doubled, crossed>>

WriteStage(s) ==
  LET q == dealing[s] IN
  /\ q.op = "stage"
  /\ opp' = [opp EXCEPT ![q.d].stage = q.to]
  /\ overtaken' = IF opp[q.d].stage = q.was THEN overtaken ELSE overtaken \cup {q.d}
  /\ Finish(s)
  /\ UNCHANGED <<quote, made, doubled, crossed>>

----------------------------------------------------------------------------
(* Quotes.                                                                 *)

LinesOf(batch) == IF batch = Null THEN {} ELSE {batch}
SumLines(batch) == IF batch = Null THEN 0 ELSE batch

NewQuote(reference, version, opportunityId, lines, value) ==
  [reference |-> reference, version |-> version, status |-> "DRAFT", isPrimary |-> TRUE,
   opportunityId |-> opportunityId, workPackageId |-> Null,
   lines |-> lines, value |-> value]

Taken(reference, version) ==
  \E q \in Quotes :
    HasQuote(q) /\ quote[q].reference = reference /\ quote[q].version = version

Fresh(batch) ==
  /\ \A q \in Quotes : HasQuote(q) => batch \notin quote[q].lines
  /\ \A s \in Sessions :
       /\ dealing[s].op \in {"lines", "replace"} => batch # dealing[s].batch
       /\ dealing[s].op = "replace" => batch \notin dealing[s].sees
       /\ dealing[s].op \in {"create", "read", "revise"} => batch \notin dealing[s].row.lines

\* The reference is unused, and the update that takes primacy from the quotes of
\* the opportunity sees those committed by now.
ReadCreate(s, q) ==
  \E reference \in References, o \in Opportunities \cup {Null}, b \in Batches \cup {Null} :
    /\ ~HasQuote(q)
    /\ \A other \in Quotes : HasQuote(other) => quote[other].reference # reference
    /\ o # Null => HasOpp(o)
    /\ b # Null => Fresh(b)
    /\ TakeUp(s, [op |-> "create", d |-> q,
                  row |-> NewQuote(reference, 1, o, LinesOf(b), SumLines(b)),
                  sees |-> {other \in Quotes : /\ o # Null /\ HasQuote(other)
                                               /\ quote[other].opportunityId = o
                                               /\ quote[other].isPrimary}])
    /\ UNCHANGED <<opp, quote, made, overtaken, doubled, crossed>>

\* The quotes seen lose primacy if they are still of the opportunity.
CommitCreate(s) ==
  LET r == dealing[s]
      loses(q) == q \in r.sees /\ quote[q].opportunityId = r.row.opportunityId
  IN
  /\ r.op = "create"
  /\ ~HasQuote(r.d) /\ ~Taken(r.row.reference, 1)
  /\ quote' = [q \in Quotes |->
                 IF q = r.d THEN r.row
                 ELSE IF loses(q) THEN [quote[q] EXCEPT !.isPrimary = FALSE]
                 ELSE quote[q]]
  /\ Finish(s)
  /\ UNCHANGED <<opp, made, overtaken, doubled, crossed>>

\* A change of content needs a draft, a change of status a legal transition.
ReadQuoteEdit(s, q) ==
  \E to \in QuoteStatuses \cup {Keep}, o \in Opportunities \cup {Null, Keep} :
    /\ HasQuote(q)
    /\ o # Keep => quote[q].status = "DRAFT"
    /\ o \in Opportunities => HasOpp(o)
    /\ to = Keep \/ to \in Transitions(quote[q].status)
    /\ <<to, o>> # <<Keep, Keep>>
    /\ TakeUp(s, [op |-> "edit", d |-> q, was |-> quote[q].status, to |-> to,
                  opportunityId |-> o])
    /\ UNCHANGED <<opp, quote, made, overtaken, doubled, crossed>>

WriteQuoteEdit(s) ==
  LET r == dealing[s] IN
  /\ r.op = "edit"
  /\ quote' = [quote EXCEPT
       ![r.d].status = IF r.to = Keep THEN @ ELSE r.to,
       ![r.d].opportunityId = IF r.opportunityId = Keep THEN @ ELSE r.opportunityId]
  /\ overtaken' = IF r.to # Keep /\ quote[r.d].status # r.was
                  THEN overtaken \cup {r.d} ELSE overtaken
  /\ Finish(s)
  /\ UNCHANGED <<opp, made, doubled, crossed>>

\* Mutant of MayReplaceLines: only a withdrawn quote is closed.
MayReplaceLinesAnyTime(status) == status # "WITHDRAWN"

MayReplaceLines(status) == status = "DRAFT"

ReadLines(s, q) ==
  /\ HasQuote(q) /\ MayReplaceLines(quote[q].status)
  /\ \E b \in Batches :
       /\ Fresh(b)
       /\ TakeUp(s, [op |-> "lines", d |-> q, was |-> quote[q].status, batch |-> b])
  /\ UNCHANGED <<opp, quote, made, overtaken, doubled, crossed>>

\* deleteMany sees the lines committed by now ...
DeleteLines(s) ==
  LET r == dealing[s] IN
  /\ r.op = "lines"
  /\ dealing' = [dealing EXCEPT ![s] =
       [op |-> "replace", d |-> r.d, was |-> r.was, batch |-> r.batch,
        sees |-> quote[r.d].lines]]
  /\ UNCHANGED <<opp, quote, made, overtaken, doubled, crossed>>

\* Mutant of Replaced: the old lines stay.
ReplacedBeside(row, sees, batch) ==
  [row EXCEPT !.lines = @ \cup {batch}, !.value = SumLines(batch)]

Replaced(row, sees, batch) ==
  [row EXCEPT !.lines = (@ \ sees) \cup {batch}, !.value = SumLines(batch)]

\* ... and at the commit the new lines stand beside any it did not see.
CommitLines(s) ==
  LET r == dealing[s] IN
  /\ r.op = "replace"
  /\ quote' = [quote EXCEPT ![r.d] = Replaced(@, r.sees, r.batch)]
  /\ crossed' = IF quote[r.d].lines \subseteq r.sees THEN crossed ELSE crossed \cup {r.d}
  /\ Finish(s)
  /\ UNCHANGED <<opp, made, overtaken, doubled>>

ReadRevise(s, q) ==
  /\ HasQuote(q) /\ quote[q].status \in {"SENT", "REJECTED", "EXPIRED"}
  /\ quote[q].version < MaxVersion
  /\ TakeUp(s, [op |-> "read", d |-> q, row |-> quote[q]])
  /\ UNCHANGED <<opp, quote, made, overtaken, doubled, crossed>>

\* The lines are read after the row: a replacement may have committed since.
ReadReviseLines(s) ==
  LET r == dealing[s] IN
  /\ r.op = "read"
  /\ dealing' = [dealing EXCEPT ![s] =
       [op |-> "revise", d |-> r.d, row |-> [r.row EXCEPT !.lines = quote[r.d].lines],
        torn |-> quote[r.d].lines # r.row.lines]]
  /\ UNCHANGED <<opp, quote, made, overtaken, doubled, crossed>>

\* Mutant of Superseded: a sent version is not withdrawn.
SupersededStillSent(row, was) == [row EXCEPT !.isPrimary = FALSE]

\* Mutant of Superseded: a rejected or expired version stays primary.
SupersededStillPrimary(row, was) ==
  [row EXCEPT !.isPrimary = (@ /\ was # "SENT"),
              !.status = IF was = "SENT" THEN "WITHDRAWN" ELSE @]

\* What revising does to the row of the old version, read as a "was" one.
Superseded(row, was) ==
  [row EXCEPT !.isPrimary = FALSE, !.status = IF was = "SENT" THEN "WITHDRAWN" ELSE @]

\* The next version; a second one of the same number breaks the unique index, and
\* the transaction with it.
CommitRevise(s) ==
  LET r == dealing[s] IN
  /\ r.op = "revise"
  /\ ~Taken(r.row.reference, r.row.version + 1)
  /\ \E q \in Quotes :
       /\ ~HasQuote(q)
       /\ quote' = [quote EXCEPT
            ![r.d] = Superseded(@, r.row.status),
            ![q] = NewQuote(r.row.reference, r.row.version + 1, r.row.opportunityId,
                            r.row.lines, r.row.value)]
       /\ crossed' = IF r.torn \/ r.d \in crossed THEN crossed \cup {q} ELSE crossed
  /\ overtaken' = IF quote[r.d].status = r.row.status THEN overtaken
                  ELSE overtaken \cup {r.d}
  /\ Finish(s)
  /\ UNCHANGED <<opp, made, doubled>>

----------------------------------------------------------------------------
(* Work packages.                                                          *)

LinkOf(d) == IF d \in Quotes THEN quote[d].workPackageId ELSE opp[d].workPackageId

Won(d) ==
  IF d \in Quotes THEN HasQuote(d) /\ quote[d].status = "ACCEPTED"
  ELSE HasOpp(d) /\ opp[d].stage = "WON"

\* Mutant of MayEngage: the link is not looked at.
MayEngageAgain(d) == Won(d)

MayEngage(d) == Won(d) /\ LinkOf(d) = Null

Making(d) == {s \in Sessions : dealing[s].op \in {"engage", "link"} /\ dealing[s].d = d}

ReadEngage(s, d) ==
  /\ MayEngage(d)
  /\ TakeUp(s, [op |-> "engage", d |-> d])
  /\ doubled' = IF Making(d) = {} THEN doubled ELSE doubled \cup {d}
  /\ UNCHANGED <<opp, quote, made, overtaken, crossed>>

MakePackage(s) ==
  LET r == dealing[s] IN
  /\ r.op = "engage"
  /\ \E p \in Packages :
       /\ \A d \in AllDeals : p \notin made[d]
       /\ made' = [made EXCEPT ![r.d] = @ \cup {p}]
       /\ dealing' = [dealing EXCEPT ![s] = [op |-> "link", d |-> r.d, p |-> p]]
  /\ UNCHANGED <<opp, quote, overtaken, doubled, crossed>>

LinkPackage(s) ==
  LET r == dealing[s] IN
  /\ r.op = "link"
  /\ \/ r.d \in Quotes
        /\ quote' = [quote EXCEPT ![r.d].workPackageId = r.p] /\ UNCHANGED opp
     \/ r.d \in Opportunities
        /\ opp' = [opp EXCEPT ![r.d].workPackageId = r.p] /\ UNCHANGED quote
  /\ Finish(s)
  /\ UNCHANGED <<made, overtaken, doubled, crossed>>

\* A request is refused, its transaction rolls back, or its process dies: what it
\* wrote before stays.
FailDeal(s) ==
  /\ dealing[s] # Idle
  /\ doubled' = IF dealing[s].op = "link" THEN doubled \cup {dealing[s].d} ELSE doubled
  /\ Finish(s)
  /\ UNCHANGED <<opp, quote, made, overtaken, crossed>>

----------------------------------------------------------------------------

DealStep ==
  \/ \E o \in Opportunities : CreateOpportunity(o)
  \/ \E s \in Sessions, o \in Opportunities : ReadStage(s, o)
  \/ \E s \in Sessions, q \in Quotes :
       ReadCreate(s, q) \/ ReadQuoteEdit(s, q) \/ ReadLines(s, q) \/ ReadRevise(s, q)
  \/ \E s \in Sessions, d \in AllDeals : ReadEngage(s, d)
  \/ \E s \in Sessions :
       \/ WriteStage(s) \/ CommitCreate(s) \/ WriteQuoteEdit(s)
       \/ DeleteLines(s) \/ CommitLines(s) \/ ReadReviseLines(s) \/ CommitRevise(s)
       \/ MakePackage(s) \/ LinkPackage(s) \/ FailDeal(s)

DealsInit ==
  /\ opp = [o \in Opportunities |-> Null]
  /\ quote = [q \in Quotes |-> Null]
  /\ made = [d \in AllDeals |-> {}]
  /\ dealing = [s \in Sessions |-> Idle]
  /\ overtaken = {} /\ doubled = {} /\ crossed = {}

DealsTypeOK ==
  /\ opp \in [Opportunities -> OppRow \cup {Null}]
  /\ quote \in [Quotes -> QuoteRow \cup {Null}]
  /\ made \in [AllDeals -> SUBSET Packages]
  /\ dealing \in [Sessions -> DealRequest]
  /\ overtaken \subseteq AllDeals /\ doubled \subseteq AllDeals /\ crossed \subseteq Quotes

----------------------------------------------------------------------------
(* Properties.                                                             *)

SameChain(q1, q2) == quote[q1].reference = quote[q2].reference
Live(q) == quote[q].status \in {"DRAFT", "SENT", "ACCEPTED"}

\* "One live version at a time" (quotes.service.ts, revise): two versions of a
\* quote are drafted, sent or accepted at once only where a status was written
\* over one the request had not read.
OneLiveVersion ==
  \A q1, q2 \in {q \in Quotes : HasQuote(q)} :
    q1 # q2 /\ SameChain(q1, q2) /\ Live(q1) /\ Live(q2) =>
      {q1, q2} \cap overtaken # {}

\* The primary quote, whose value the opportunity shows, is never a superseded
\* version: whatever revisions, creations and status changes overlap, only the
\* newest version of a reference is primary, and no version number comes twice.
PrimaryIsNewest ==
  \A q1, q2 \in {q \in Quotes : HasQuote(q)} :
    q1 # q2 /\ SameChain(q1, q2) =>
      /\ quote[q1].version # quote[q2].version
      /\ quote[q1].isPrimary => quote[q1].version > quote[q2].version

\* The stored value is the sum of the stored lines (schema.prisma, Quote.value:
\* "DERIVED"), in every version, unless two replacements of the lines overlapped
\* or the version was cloned from a row and lines read on two sides of a
\* replacement; and then in the versions cloned from that one.
ValueIsSum ==
  \A q \in Quotes : HasQuote(q) /\ q \notin crossed => quote[q].value = SumSet(quote[q].lines)

\* A deal yields one work package, and only if it is won, unless two makings
\* overlap, one is cut short before the link, or its stage is overwritten.
OneEngagementPerDeal ==
  \A d \in AllDeals :
    /\ d \notin doubled => Cardinality(made[d]) <= 1
    /\ made[d] # {} /\ d \notin overtaken => Won(d)

StaleContent(q) ==
  \E s \in Sessions :
    /\ dealing[s].op \in {"edit", "replace"} /\ dealing[s].d = q
    /\ dealing[s].was = "DRAFT" /\ dealing'[s] = Idle

\* A quote the customer has received does not change: after DRAFT its lines, value
\* and opportunity change only by a request that had read it as a draft.
SentQuotesAreFrozen ==
  [][\A q \in Quotes :
       /\ HasQuote(q) /\ quote[q].status # "DRAFT"
       /\ \/ quote'[q].lines # quote[q].lines
          \/ quote'[q].value # quote[q].value
          \/ quote'[q].opportunityId # quote[q].opportunityId
       => StaleContent(q)]_dealVars
=============================================================================
