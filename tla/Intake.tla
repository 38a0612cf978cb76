------------------------------- MODULE Intake -------------------------------
(***************************************************************************)
(* What comes in from outside (public submissions and request intakes) and *)
(* its triage: review, rejection, conversion into a ticket.                *)
(*   triage.service.ts, public-submissions.service.ts,                     *)
(*   request-intakes.service.ts                                            *)
(*                                                                         *)
(* triage converts in one READ COMMITTED transaction, which holds nothing  *)
(* between its read and its writes; the older conversion of a submission   *)
(* has no transaction at all.  All request intakes here are of one person  *)
(* and one title: those of others never meet.                              *)
(*                                                                         *)
(* Left out: the texts, the references and the audit trail.                *)
(***************************************************************************)
EXTENDS Tickets

CONSTANTS Sources   \* ids of the submissions and intakes there may be

VARIABLES
  source,     \* the RequestIntake and PublicSubmission rows; Null if absent
  made,       \* history: the records created from each source
  overtaken,  \* history: the sources some request wrote on a status it had not read
  abandoned,  \* history: the records whose source was never marked
  unseen      \* history: the similar intakes open when an intake was stored that
              \* had come after its request's search

intakeVars == <<source, made, overtaken, abandoned, unseen>>

Open == {"NEW", "UNDER_REVIEW"}
Types == {"REQUEST_INTAKE", "PUBLIC_SUBMISSION"}

\* recent: created within the seven days of duplicateWindowStart.
Source == [type : Types, status : Open \cup {"CONVERTED", "REJECTED"},
           link : Records \cup {Null}, recent : BOOLEAN]

ASSUME IntakeAssumption == "ServiceRequest" \in Kinds /\ Null \notin Source \cup Records

Came(x) == source[x] # Null

ConversionKinds == Kinds \cap {"ServiceRequest", "Incident", "Task"}

IntakeRequest ==
  [op : {"intake"}, there : SUBSET Sources]
  \cup [op : {"convert"}, x : Sources, was : Open, kind : Kinds]
  \cup [op : {"triage"}, x : Sources, was : Open, to : {"UNDER_REVIEW", "REJECTED"}]
  \cup [op : {"submission"}, x : Sources, was : {"NEW"}]
  \cup [op : {"mark"}, x : Sources, was : {"NEW"}, r : Records]

New(type) == [type |-> type, status |-> "NEW", link |-> Null, recent |-> TRUE]

----------------------------------------------------------------------------
(* Arrivals.                                                               *)

\* createPublic
CreatePublic(x) ==
  /\ ~Came(x)
  /\ source' = [source EXCEPT ![x] = New("PUBLIC_SUBMISSION")]
  /\ UNCHANGED <<now, ticket, serving, made, overtaken, abandoned, unseen>>

Intakes == {x \in Sources : Came(x) /\ source[x].type = "REQUEST_INTAKE"}

OpenRecent == {x \in Intakes : source[x].status \in Open /\ source[x].recent}

\* Mutant of NoDuplicate: only intakes nobody has looked at count.
NoDuplicateOfNew == {x \in OpenRecent : source[x].status = "NEW"} = {}

\* createForClient's search for a similar request.
NoDuplicate == OpenRecent = {}

ReadIntake(s) ==
  /\ NoDuplicate
  /\ Begin(s, [op |-> "intake", there |-> Intakes])
  /\ UNCHANGED intakeVars

WriteIntake(s, x) ==
  /\ serving[s].op = "intake"
  /\ ~Came(x)
  /\ source' = [source EXCEPT ![x] = New("REQUEST_INTAKE")]
  /\ unseen' = [unseen EXCEPT ![x] = OpenRecent \ serving[s].there]
  /\ End(s)
  /\ UNCHANGED <<ticket, made, overtaken, abandoned>>

\* Seven days pass.
AgeOut(x) ==
  /\ Came(x) /\ source[x].type = "REQUEST_INTAKE" /\ source[x].recent
  /\ source' = [source EXCEPT ![x].recent = FALSE]
  /\ UNCHANGED <<now, ticket, serving, made, overtaken, abandoned, unseen>>

----------------------------------------------------------------------------
(* The reads of the triage requests.                                       *)

\* Mutant of MayConvert: only a rejected source is refused.
MayConvertAgain(x) == Came(x) /\ source[x].status # "REJECTED"

MayConvert(x) == Came(x) /\ source[x].status \in Open

\* convert
ReadConvert(s, x) ==
  /\ MayConvert(x)
  /\ \E kind \in ConversionKinds :
       Begin(s, [op |-> "convert", x |-> x, was |-> source[x].status, kind |-> kind])
  /\ UNCHANGED intakeVars

\* updateStatus
ReadTriage(s, x) ==
  /\ Came(x) /\ source[x].status \notin {"CONVERTED", "REJECTED"}
  /\ \E to \in {"UNDER_REVIEW", "REJECTED"} :
       Begin(s, [op |-> "triage", x |-> x, was |-> source[x].status, to |-> to])
  /\ UNCHANGED intakeVars

\* convertForClient of public-submissions
ReadSubmission(s, x) ==
  /\ Came(x) /\ source[x].type = "PUBLIC_SUBMISSION" /\ source[x].status = "NEW"
  /\ Begin(s, [op |-> "submission", x |-> x, was |-> "NEW"])
  /\ UNCHANGED intakeVars

----------------------------------------------------------------------------
(* The writes.                                                             *)

\* A source is written; it is overtaken if it is not as the request read it.
Mark(s, x, status, link) ==
  /\ source' = [source EXCEPT ![x].status = status, ![x].link = link]
  /\ overtaken' = IF serving[s].was = source[x].status THEN overtaken
                  ELSE overtaken \cup {x}

\* Mutant of Make: the record may be one that exists.
MakeOver(x, r, kind) ==
  /\ \E priority \in Priorities :
       ticket' = [ticket EXCEPT ![r] = NewRow(kind, priority, Null, FALSE, Null)]
  /\ made' = [made EXCEPT ![x] = @ \cup {r}]

\* A task gets the due date of the request, and must; no SLA is computed for
\* the others, which have none.
Make(x, r, kind) ==
  /\ ~Exists(r)
  /\ \E priority \in Priorities, dueAt \in IF kind = "Task" THEN DueDates ELSE {Null} :
       ticket' = [ticket EXCEPT ![r] = NewRow(kind, priority, dueAt, FALSE, Null)]
  /\ made' = [made EXCEPT ![x] = @ \cup {r}]

CommitConvert(s, r) ==
  /\ serving[s].op = "convert"
  /\ Make(serving[s].x, r, serving[s].kind)
  /\ Mark(s, serving[s].x, "CONVERTED", r)
  /\ End(s)
  /\ UNCHANGED <<abandoned, unseen>>

CommitTriage(s) ==
  /\ serving[s].op = "triage"
  /\ Mark(s, serving[s].x, serving[s].to, source[serving[s].x].link)
  /\ End(s)
  /\ UNCHANGED <<ticket, made, abandoned, unseen>>

\* The service request is created ...
CreateFromSubmission(s, r) ==
  /\ serving[s].op = "submission"
  /\ Make(serving[s].x, r, "ServiceRequest")
  /\ serving' = [serving EXCEPT ![s] =
       [op |-> "mark", x |-> serving[s].x, was |-> "NEW", r |-> r]]
  /\ UNCHANGED <<now, source, overtaken, abandoned, unseen>>

\* ... and then the submission is marked.
MarkSubmission(s) ==
  /\ serving[s].op = "mark"
  /\ Mark(s, serving[s].x, "CONVERTED", serving[s].r)
  /\ End(s)
  /\ UNCHANGED <<ticket, made, abandoned, unseen>>

\* The process dies, or the database fails; a transaction leaves nothing.
FailIntake(s) ==
  /\ serving[s].op \in {"intake", "convert", "triage", "submission", "mark"}
  /\ abandoned' = IF serving[s].op = "mark" THEN abandoned \cup {serving[s].r}
                  ELSE abandoned
  /\ End(s)
  /\ UNCHANGED <<ticket, source, made, overtaken, unseen>>

IntakeStep ==
  \/ \E x \in Sources : CreatePublic(x) \/ AgeOut(x)
  \/ \E s \in Sessions, x \in Sources :
       WriteIntake(s, x) \/ ReadConvert(s, x) \/ ReadTriage(s, x) \/ ReadSubmission(s, x)
  \/ \E s \in Sessions, r \in Records : CommitConvert(s, r) \/ CreateFromSubmission(s, r)
  \/ \E s \in Sessions :
       ReadIntake(s) \/ CommitTriage(s) \/ MarkSubmission(s) \/ FailIntake(s)

IntakeInit ==
  /\ source = [x \in Sources |-> Null]
  /\ made = [x \in Sources |-> {}]
  /\ overtaken = {}
  /\ abandoned = {}
  /\ unseen = [x \in Sources |-> {}]

----------------------------------------------------------------------------
(* Properties.                                                             *)

\* Sources and requests are of the shapes the code makes.
IntakeTypeOK ==
  /\ source \in [Sources -> Source \cup {Null}]
  /\ made \in [Sources -> SUBSET Records]
  /\ overtaken \subseteq Sources
  /\ abandoned \subseteq Records
  /\ unseen \in [Sources -> SUBSET Sources]

BeingMarked(x) == \E s \in Sessions : serving[s].op = "mark" /\ serving[s].x = x

\* A source becomes one ticket, is CONVERTED exactly then and points to it,
\* once no conversion of it is halfway, unless a request wrote over a status it
\* had not read or a conversion without a transaction died halfway.
ConvertedOnce ==
  \A x \in Sources :
    Came(x) /\ ~BeingMarked(x) /\ x \notin overtaken /\ made[x] \cap abandoned = {}
      => made[x] = IF source[x].status = "CONVERTED" THEN {source[x].link} ELSE {}

\* Whatever overtakes whatever, the ticket a source points to was made from it
\* and from no other source.
LinkIsOwn ==
  \A x \in Sources : Came(x) /\ source[x].link # Null =>
    {y \in Sources : source[x].link \in made[y]} = {x}

\* A person's similar requests of the last seven days are not open together,
\* unless one was stored while the request of the other was between its search
\* and its own store (createForClient holds nothing in between), or a triage
\* wrote over a status of one that it had not read, which reopens what another
\* triage rejected or converted meanwhile.
SimilarOpenHaveACause ==
  \A x, y \in OpenRecent :
    x = y \/ x \in unseen[y] \/ y \in unseen[x] \/ {x, y} \cap overtaken # {}
=============================================================================
