---------------------------- MODULE ChecksProofs ----------------------------
(***************************************************************************)
(* Checks: type correctness for any number of sessions, and, with one desk *)
(* session, that a check does what CheckReview promises.  FieldWork: the   *)
(* same of the composition with the device, and, for any number of         *)
(* sessions, what the replay delivers.                                     *)
(***************************************************************************)
EXTENDS FieldWork, WellFoundedInduction, TLAPS

\* Requests on the page are served one at a time.  Replayed updates interleave
\* with them, and with each other if all of them carry an answer.
OneEach ==
  /\ \A d, e \in Desk : d = e
  /\ (\A p, q \in Posts : p = q) \/ Null \notin Replies

\* The read that a request was admitted by still holds.
DeskHolds ==
  \A d \in Desk :
    /\ desk[d].op \in {"start", "update"} => status \in PreStart
    /\ desk[d].op = "submit" => status = "IN_PROGRESS" /\ Unanswered = {}
    /\ desk[d].op \in {"approve", "return", "flag", "unflag"} => status = "PENDING_REVIEW"
    /\ desk[d].op = "cancel" => status \notin {"COMPLETED", "CANCELLED"}
    /\ desk[d].op = "add" =>
         status \in PreStart \cup {"IN_PROGRESS"} /\ ~Stored(desk[d].i)

PostHolds ==
  \A p \in Posts :
    post[p].op = "write" =>
      /\ Stored(post[p].i)
      /\ post[p].seen = item[post[p].i].response \/ post[p].response # Null

IInv == TypeOK /\ DeskHolds /\ PostHolds

----------------------------------------------------------------------------
LEMMA InitTypeOK == Init => TypeOK
BY ChecksAssumption DEF Init, TypeOK, Statuses, PreStart, DeskRequest, PostRequest, Idle

LEMMA ReadTypeOK ==
  ASSUME TypeOK, NEW d \in Desk, Read(d) PROVE TypeOK'
<1> USE DEF TypeOK, Begin, DeskRequest, Idle
<1>1. CASE UpdateForClient(d) BY <1>1 DEF UpdateForClient
<1>2. CASE StartCheck(d) BY <1>2 DEF StartCheck
<1>3. CASE AddAdHocItem(d) BY <1>3 DEF AddAdHocItem
<1>4. CASE SubmitForReview(d) BY <1>4 DEF SubmitForReview
<1>5. CASE FlagItem(d) BY <1>5 DEF FlagItem
<1>6. CASE ApproveCheck(d) BY <1>6 DEF ApproveCheck
<1>7. CASE ReturnForRework(d) BY <1>7 DEF ReturnForRework
<1>8. CASE CancelCheck(d) BY <1>8 DEF CancelCheck
<1> QED BY <1>1, <1>2, <1>3, <1>4, <1>5, <1>6, <1>7, <1>8 DEF Read

LEMMA WriteTypeOK ==
  ASSUME TypeOK, NEW d \in Desk,
         WriteStatus(d) \/ WriteFlag(d) \/ WriteItem(d) \/ Fail(d)
  PROVE TypeOK'
<1> USE DEF TypeOK, End, Idle
<1>1. Idle \in DeskRequest BY DEF DeskRequest
<1>2. CASE WriteStatus(d)
  <2>1. desk[d].op = "update" => desk[d].to \in PreStart BY DEF DeskRequest
  <2>2. StatusAfter(desk[d]) \in Statuses
    BY <1>2, <2>1 DEF WriteStatus, StatusAfter, Statuses, PreStart
  <2> QED BY <1>1, <1>2, <2>2 DEF WriteStatus
<1>3. CASE WriteFlag(d)
  <2>1. desk[d].i \in Items BY <1>3 DEF WriteFlag, DeskRequest
  <2> QED BY <1>1, <1>3, <2>1 DEF WriteFlag
<1>4. CASE WriteItem(d)
  <2>1. desk[d].i \in Items /\ desk[d].required \in BOOLEAN
    BY <1>4 DEF WriteItem, DeskRequest
  <2>2. [db |-> "stored", required |-> desk[d].required, response |-> Null] \in Row
    BY <2>1 DEF Row, Response
  <2> QED BY <1>1, <1>4, <2>1, <2>2 DEF WriteItem
<1>5. CASE Fail(d) BY <1>1, <1>5 DEF Fail
<1> QED BY <1>2, <1>3, <1>4, <1>5

LEMMA PostTypeOK ==
  ASSUME TypeOK, NEW p \in Posts, PostStep(p) PROVE TypeOK'
<1> USE DEF TypeOK, Serve, Idle
<1>1. Idle \in PostRequest BY DEF PostRequest
<1>2. ASSUME NEW i \in Items, NEW response \in Replies, PostItem(p, i, response)
      PROVE TypeOK'
  BY <1>2 DEF PostItem, PostRequest
<1>6. CASE PostCheck(p)
  <2>1. [op |-> "read", i |-> post[p].i, response |-> post[p].response] \in PostRequest
    BY <1>6 DEF PostCheck, PostRequest
  <2> QED BY <1>1, <1>6, <2>1 DEF PostCheck
<1>3. CASE PostRead(p)
  <2>1. post[p].i \in Items /\ post[p].response \in Replies
    BY <1>3 DEF PostRead, PostRequest
  <2>2. item[post[p].i].response \in Response BY <2>1 DEF Row
  <2>3. [op |-> "write", i |-> post[p].i, response |-> post[p].response,
         seen |-> item[post[p].i].response] \in PostRequest
    BY <2>1, <2>2 DEF PostRequest
  <2> QED BY <1>1, <1>3, <2>3 DEF PostRead
<1>4. CASE PostWrite(p)
  <2>1. post[p].i \in Items /\ Answered(post[p]) \in Response
    BY <1>4, ChecksAssumption DEF PostWrite, PostRequest, Answered, Response
  <2>2. [item EXCEPT ![post[p].i].response = Answered(post[p])] \in [Items -> Row]
    BY <2>1 DEF Row
  <2> QED BY <1>1, <1>4, <2>2 DEF PostWrite
<1>5. CASE PostFail(p) BY <1>1, <1>5 DEF PostFail
<1> QED BY <1>2, <1>3, <1>4, <1>5, <1>6 DEF PostStep

\* The rows and the requests of a check stay what their types say, for any
\* number of sessions.
THEOREM ChecksTyped == Spec => []TypeOK
<1>1. TypeOK /\ [Next]_checkVars => TypeOK'
  <2> SUFFICES ASSUME TypeOK, [Next]_checkVars PROVE TypeOK' OBVIOUS
  <2>1. CASE UNCHANGED checkVars BY <2>1 DEF checkVars, TypeOK
  <2>2. CASE Next
    BY <2>2, ReadTypeOK, WriteTypeOK, PostTypeOK DEF Next, DeskStep
  <2> QED BY <2>1, <2>2
<1> QED BY InitTypeOK, <1>1, PTL DEF Spec

----------------------------------------------------------------------------
(* The invariant behind the refinement.                                    *)

LEMMA ReadHolds ==
  ASSUME OneEach, IInv, NEW d \in Desk, Read(d) PROVE DeskHolds' /\ PostHolds'
<1>1. /\ UNCHANGED <<status, item, flags, post>>
      /\ \A e \in Desk : e = d
      /\ desk \in [Desk -> DeskRequest]
  BY DEF Read, UpdateForClient, StartCheck, AddAdHocItem, SubmitForReview, FlagItem,
         ApproveCheck, ReturnForRework, CancelCheck, Begin, OneEach, IInv, TypeOK
<1>2. PostHolds' BY <1>1 DEF IInv, PostHolds, Stored
<1>3. SUFFICES DeskHolds' BY <1>2
<1> USE <1>1 DEF DeskHolds, Begin, Idle
<1>4. CASE UpdateForClient(d) BY <1>4 DEF UpdateForClient
<1>5. CASE StartCheck(d) BY <1>5 DEF StartCheck
<1>6. CASE AddAdHocItem(d) BY <1>6 DEF AddAdHocItem, Stored
<1>7. CASE SubmitForReview(d) BY <1>7 DEF SubmitForReview, Unanswered, Stored
<1>8. CASE FlagItem(d) BY <1>8 DEF FlagItem
<1>9. CASE ApproveCheck(d) BY <1>9 DEF ApproveCheck
<1>10. CASE ReturnForRework(d) BY <1>10 DEF ReturnForRework
<1>11. CASE CancelCheck(d) BY <1>11 DEF CancelCheck
<1> QED BY <1>4, <1>5, <1>6, <1>7, <1>8, <1>9, <1>10, <1>11 DEF Read

LEMMA WriteHolds ==
  ASSUME OneEach, IInv, NEW d \in Desk,
         WriteStatus(d) \/ WriteFlag(d) \/ WriteItem(d) \/ Fail(d)
  PROVE DeskHolds' /\ PostHolds'
<1>1. desk' = [desk EXCEPT ![d] = Idle] /\ UNCHANGED post
  BY DEF WriteStatus, WriteFlag, WriteItem, Fail, End
<1>2. DeskHolds'
  <2>1. \A e \in Desk : desk'[e].op = "idle"
    BY <1>1 DEF OneEach, IInv, TypeOK, Idle
  <2> QED BY <2>1 DEF DeskHolds
<1>3. PostHolds'
  <2>1. CASE WriteItem(d)
    <3>1. ~Stored(desk[d].i) /\ desk[d].i \in Items
      BY <2>1 DEF WriteItem, IInv, DeskHolds, TypeOK, DeskRequest
    <3>2. \A j \in Items : j # desk[d].i => item'[j] = item[j]
      BY <2>1 DEF WriteItem, IInv, TypeOK
    <3>3. ASSUME NEW p \in Posts, post[p].op = "write" PROVE post[p].i \in Items
      BY <3>3 DEF IInv, TypeOK, PostRequest
    <3> QED BY <1>1, <3>1, <3>2, <3>3 DEF IInv, PostHolds, Stored
  <2>2. CASE UNCHANGED item BY <1>1, <2>2 DEF IInv, PostHolds, Stored
  <2> QED BY <2>1, <2>2 DEF WriteStatus, WriteFlag, Fail
<1> QED BY <1>2, <1>3

\* An update never takes an answer away: its read still holds when it writes.
LEMMA PostWriteAnswers ==
  ASSUME IInv, NEW p \in Posts, PostWrite(p)
  PROVE  \A i \in Items : /\ Stored(i)' <=> Stored(i)
                          /\ item'[i].required = item[i].required
                          /\ item[i].response # Null => item'[i].response # Null
<1>1. post[p].i \in Items
  BY DEF PostWrite, IInv, TypeOK, PostRequest
<1>2. post[p].seen = item[post[p].i].response \/ post[p].response # Null
  BY DEF PostWrite, IInv, PostHolds
<1>3. item[post[p].i] \in Row /\ item \in [Items -> Row]
  BY <1>1 DEF IInv, TypeOK
<1>4. item' = [item EXCEPT ![post[p].i].response = Answered(post[p])]
  BY DEF PostWrite
<1>5. item[post[p].i].response # Null => Answered(post[p]) # Null
  BY <1>2 DEF Answered
<1>6. /\ item'[post[p].i].db = item[post[p].i].db
      /\ item'[post[p].i].required = item[post[p].i].required
      /\ item'[post[p].i].response = Answered(post[p])
  BY <1>1, <1>3, <1>4 DEF Row
<1>7. \A i \in Items : i # post[p].i => item'[i] = item[i]
  BY <1>1, <1>3, <1>4
<1> QED BY <1>5, <1>6, <1>7 DEF Stored

LEMMA PostKeepsAnswers ==
  ASSUME IInv, NEW p \in Posts, PostStep(p)
  PROVE  /\ UNCHANGED <<status, flags, desk>>
         /\ \A i \in Items : Stored(i)' <=> Stored(i)
         /\ Unanswered' \subseteq Unanswered
<1>1. UNCHANGED <<status, flags, desk>>
  BY DEF PostStep, PostItem, PostCheck, PostRead, PostWrite, PostFail, Serve
<1>2. CASE PostWrite(p) BY <1>1, <1>2, PostWriteAnswers DEF Unanswered
<1>3. CASE UNCHANGED item BY <1>1, <1>3 DEF Unanswered, Stored
<1> QED BY <1>1, <1>2, <1>3 DEF PostStep, PostItem, PostCheck, PostRead, PostFail

LEMMA PostHoldsOn ==
  ASSUME OneEach, IInv, NEW p \in Posts, PostStep(p) PROVE DeskHolds' /\ PostHolds'
<1>1. DeskHolds'
  <2>1. /\ UNCHANGED <<status, desk>>
        /\ \A i \in Items : Stored(i)' <=> Stored(i)
        /\ Unanswered' \subseteq Unanswered
    BY PostKeepsAnswers
  <2>2. \A d \in Desk : desk[d].op = "add" => desk[d].i \in Items
    BY DEF IInv, TypeOK, DeskRequest
  <2> QED BY <2>1, <2>2 DEF IInv, DeskHolds
<1>2. PostHolds'
  <2> USE DEF Serve, Idle
  <2>1. \A q \in Posts : q = p \/ Null \notin Replies BY DEF OneEach
  <2>2. post \in [Posts -> PostRequest] BY DEF IInv, TypeOK
  <2>3. CASE PostRead(p)
    <3>1. CASE Stored(post[p].i)
      BY <2>2, <2>3, <3>1 DEF PostRead, IInv, PostHolds, Stored
    <3>2. CASE ~Stored(post[p].i)
      BY <2>2, <2>3, <3>2 DEF PostRead, IInv, PostHolds, Stored
    <3> QED BY <3>1, <3>2
  <2>4. ASSUME NEW i \in Items, NEW response \in Replies, PostItem(p, i, response)
        PROVE PostHolds'
    BY <2>2, <2>4 DEF PostItem, IInv, PostHolds, Stored
  <2>7. CASE PostCheck(p)
    BY <2>2, <2>7 DEF PostCheck, IInv, PostHolds, Stored
  <2>5. CASE PostWrite(p)
    <3>1. ASSUME NEW q \in Posts, post'[q].op = "write"
          PROVE  /\ post'[q] = post[q] /\ post[q].response # Null
                 /\ item'[post[q].i].db = "stored"
      <4>1. q # p /\ post'[q] = post[q]
        BY <2>2, <2>5, <3>1 DEF PostWrite
      <4>2. Stored(post[q].i) /\ post[q].i \in Items /\ post[q].response \in Replies
        BY <2>2, <3>1, <4>1 DEF IInv, PostHolds, PostRequest
      <4>3. item'[post[q].i].db = "stored"
        BY <4>2, <2>5, PostWriteAnswers DEF Stored
      <4>4. post[q].response # Null
        BY <2>1, <4>1, <4>2
      <4> QED BY <4>1, <4>3, <4>4
    <3> QED BY <3>1 DEF PostHolds, Stored
  <2>6. CASE PostFail(p) BY <2>2, <2>6 DEF PostFail, IInv, PostHolds, Stored
  <2> QED BY <2>3, <2>4, <2>5, <2>6, <2>7 DEF PostStep
<1> QED BY <1>1, <1>2

LEMMA IInvHolds == ASSUME OneEach PROVE Spec => []IInv
<1>1. Init => IInv
  BY InitTypeOK DEF IInv, Init, DeskHolds, PostHolds, Idle
<1>2. IInv /\ [Next]_checkVars => IInv'
  <2> SUFFICES ASSUME IInv, [Next]_checkVars PROVE IInv' OBVIOUS
  <2>1. CASE UNCHANGED checkVars
    BY <2>1 DEF checkVars, IInv, TypeOK, DeskHolds, PostHolds, Unanswered, Stored
  <2>2. ASSUME NEW d \in Desk, DeskStep(d) PROVE IInv'
    BY <2>2, ReadTypeOK, WriteTypeOK, ReadHolds, WriteHolds DEF IInv, DeskStep
  <2>3. ASSUME NEW p \in Posts, PostStep(p) PROVE IInv'
    BY <2>3, PostTypeOK, PostHoldsOn DEF IInv
  <2> QED BY <2>1, <2>2, <2>3 DEF Next
<1> QED BY <1>1, <1>2, PTL DEF Spec

----------------------------------------------------------------------------
(* Checks implements CheckReview.                                          *)

LEMMA WriteRefines ==
  ASSUME IInv, NEW d \in Desk, WriteStatus(d)
  PROVE  [Review!Next]_<<Phase, Unanswered>>
<1>1. Unanswered' = Unanswered BY DEF WriteStatus, Unanswered, Stored
<1>2. CASE desk[d].op = "update"
  <2>1. status \in PreStart /\ status' \in PreStart
    BY <1>2 DEF WriteStatus, StatusAfter, IInv, DeskHolds, TypeOK, DeskRequest
  <2> QED BY <1>1, <2>1 DEF Phase, PreStart
<1>3. CASE desk[d].op = "start"
  <2>1. status \in PreStart /\ status' = "IN_PROGRESS"
    BY <1>3 DEF WriteStatus, StatusAfter, IInv, DeskHolds
  <2> QED BY <1>1, <2>1 DEF Phase, PreStart
<1>4. CASE desk[d].op = "submit"
  <2>1. status = "IN_PROGRESS" /\ Unanswered = {} /\ status' = "PENDING_REVIEW"
    BY <1>4 DEF WriteStatus, StatusAfter, IInv, DeskHolds
  <2>2. Phase = "work" /\ Phase' = "review" BY <2>1 DEF Phase, PreStart
  <2> QED BY <1>1, <2>1, <2>2 DEF Review!Next, Review!Submit
<1>5. CASE desk[d].op \in {"approve", "return"}
  <2>1. status = "PENDING_REVIEW" /\ status' \in {"COMPLETED", "ASSIGNED"}
    BY <1>5 DEF WriteStatus, StatusAfter, IInv, DeskHolds
  <2>2. Phase = "review" /\ Phase' \in {"work", "done"} BY <2>1 DEF Phase, PreStart
  <2> QED BY <1>1, <2>2 DEF Review!Next, Review!Decide
<1>6. CASE desk[d].op = "cancel"
  <2>1. status \in Statuses \ {"COMPLETED", "CANCELLED"} /\ status' = "CANCELLED"
    BY <1>6 DEF WriteStatus, StatusAfter, IInv, DeskHolds, TypeOK
  <2>2. Phase \in {"work", "review"} /\ Phase' = "cancelled"
    BY <2>1 DEF Phase, Statuses, PreStart
  <2> QED BY <1>1, <2>2 DEF Review!Next, Review!Cancel
<1> QED BY <1>2, <1>3, <1>4, <1>5, <1>6 DEF WriteStatus

LEMMA StepRefines ==
  ASSUME IInv, [Next]_checkVars PROVE [Review!Next]_<<Phase, Unanswered>>
<1>1. CASE UNCHANGED <<status, item>> BY <1>1 DEF Phase, Unanswered, Stored
<1>2. ASSUME NEW d \in Desk, WriteItem(d) PROVE [Review!Next]_<<Phase, Unanswered>>
  <2>1. status \in PreStart \cup {"IN_PROGRESS"} /\ status' = status
    BY <1>2 DEF WriteItem, IInv, DeskHolds
  <2>2. Phase = "work" /\ Phase' = "work" BY <2>1 DEF Phase, PreStart
  <2>3. Unanswered' \in SUBSET Items BY DEF Unanswered
  <2> QED BY <2>2, <2>3 DEF Review!Next, Review!Work
<1>3. ASSUME NEW d \in Desk, DeskStep(d) PROVE [Review!Next]_<<Phase, Unanswered>>
  <2>1. CASE Read(d)
    BY <1>1, <2>1 DEF Read, UpdateForClient, StartCheck, AddAdHocItem, SubmitForReview,
       FlagItem, ApproveCheck, ReturnForRework, CancelCheck, Begin
  <2> QED BY <1>1, <1>2, <1>3, <2>1, WriteRefines DEF DeskStep, WriteFlag, Fail
<1>4. ASSUME NEW p \in Posts, PostStep(p) PROVE [Review!Next]_<<Phase, Unanswered>>
  <2>1. Unanswered' \in SUBSET Unanswered /\ Phase' = Phase
    BY <1>4, PostKeepsAnswers DEF Phase
  <2> QED BY <2>1 DEF Review!Next, Review!LateAnswer
<1> QED BY <1>1, <1>3, <1>4 DEF Next, checkVars

\* With one request at a time on the page, and replayed updates that come one
\* at a time or all carry an answer, in any interleaving and however requests
\* die, a check comes to review complete and stays so, and its end states are
\* final.
THEOREM ChecksImplementReview ==
  ASSUME OneEach PROVE Spec => KeepsReviewPromise
<1>1. Init => Review!Init
  BY DEF Init, Review!Init, Phase, PreStart, Unanswered
<1> QED BY <1>1, IInvHolds, StepRefines, PTL DEF Spec, KeepsReviewPromise, Review!Spec

\* What a reviewer relies on, read off the abstract specification.
THEOREM ReviewedChecksAreComplete ==
  ASSUME OneEach
  PROVE  Spec => [](status \in {"PENDING_REVIEW", "COMPLETED"} => Unanswered = {})
<1>1. Review!Init => Review!ReviewIsComplete
  BY DEF Review!Init, Review!ReviewIsComplete
<1>2. Review!ReviewIsComplete /\ [Review!Next]_<<Phase, Unanswered>>
        => Review!ReviewIsComplete'
  BY DEF Review!ReviewIsComplete, Review!Next, Review!Work, Review!LateAnswer,
         Review!Submit, Review!Decide, Review!Cancel
<1>3. Review!ReviewIsComplete =>
        (status \in {"PENDING_REVIEW", "COMPLETED"} => Unanswered = {})
  BY DEF Review!ReviewIsComplete, Phase, PreStart
<1> QED BY <1>1, <1>2, <1>3, ChecksImplementReview, PTL DEF KeepsReviewPromise, Review!Spec

\* The notes of the last review stay on a returned check until it is submitted
\* again.
THEOREM FlagsKept ==
  ASSUME OneEach PROVE Spec => FlagsKeptDuringRework
<1>1. IInv /\ [Next]_checkVars =>
        [flags' # flags => status = "PENDING_REVIEW" \/ status' = "PENDING_REVIEW"]_checkVars
  <2> SUFFICES ASSUME IInv, Next, flags' # flags
               PROVE status = "PENDING_REVIEW" \/ status' = "PENDING_REVIEW"
    OBVIOUS
  <2>1. PICK d \in Desk : WriteStatus(d) \/ WriteFlag(d)
    BY DEF Next, DeskStep, Read, UpdateForClient, StartCheck, AddAdHocItem,
       SubmitForReview, FlagItem, ApproveCheck, ReturnForRework, CancelCheck, Begin,
       WriteItem, Fail, PostStep, PostItem, PostCheck, PostRead, PostWrite, PostFail
  <2> QED BY <2>1 DEF WriteStatus, WriteFlag, StatusAfter, IInv, DeskHolds
<1> QED BY <1>1, IInvHolds, PTL DEF Spec, FlagsKeptDuringRework

----------------------------------------------------------------------------
(* The composition with the device.                                        *)

\* The drain's next entry is one of those it holds.
LEMMA FirstIsHeld ==
  ASSUME NEW todo, todo \subseteq [seq : Seqs, entry : Entry], todo # {}
  PROVE  \E m \in todo : \A n \in todo : m.seq <= n.seq
<1> DEFINE S == {m.seq : m \in todo}
<1>1. S \subseteq Nat /\ S # {} BY FieldWorkAssumption DEF Seqs
<1>2. PICK x \in S : \A y \in S : ~(<<y, x>> \in OpToRel(<, Nat))
  <2> HIDE DEF S
  <2> QED BY <1>1, WFMin, NatLessThanWellFounded
<1>3. \A y \in S : x <= y
  <2> SUFFICES ASSUME NEW y \in S, ~(x <= y) PROVE FALSE OBVIOUS
  <2>1. x \in Nat /\ y \in Nat BY <1>1
  <2>2. <<y, x>> \in OpToRel(<, Nat) BY <2>1 DEF OpToRel
  <2> QED BY <1>2, <2>2
<1> QED BY <1>2, <1>3

\* Some entries of the queue have a last one.
LEMMA LastOfSome ==
  ASSUME NEW S \in SUBSET Seqs, S # {}
  PROVE  \E n \in S : \A k \in S : k <= n
<1> DEFINE D == {MaxSeq - n : n \in S}
<1>1. S \subseteq 1..MaxSeq /\ MaxSeq \in Nat
  BY FieldWorkAssumption DEF Seqs
<1>2. D \subseteq Nat /\ D # {}
  <2>1. \A n \in S : n \in Int /\ n <= MaxSeq /\ MaxSeq - n \in Nat
    BY <1>1
  <2>2. PICK n : n \in S
    OBVIOUS
  <2>3. MaxSeq - n \in D
    BY <2>2
  <2> QED BY <2>1, <2>3
<1>3. PICK x \in D : \A y \in D : ~(<<y, x>> \in OpToRel(<, Nat))
  <2> HIDE DEF D
  <2> QED BY <1>2, WFMin, NatLessThanWellFounded
<1>4. PICK n \in S : x = MaxSeq - n
  OBVIOUS
<1>5. ASSUME NEW k \in S PROVE k <= n
  <2>1. MaxSeq - k \in D /\ MaxSeq - k \in Nat /\ x \in Nat /\ k \in Nat /\ n \in Nat
    BY <1>1, <1>2
  <2>2. ~(MaxSeq - k < x)
    BY <1>3, <2>1 DEF OpToRel
  <2> QED BY <1>1, <1>4, <2>1, <2>2
<1> QED BY <1>5

LEMMA FirstTyped ==
  ASSUME FieldTypeOK, drain.todo # {}
  PROVE  First \in drain.todo /\ First.seq \in Seqs /\ First.entry \in Entry
<1>1. drain.todo \subseteq [seq : Seqs, entry : Entry] BY DEF FieldTypeOK
<1>2. First \in drain.todo BY <1>1, FirstIsHeld DEF First
<1> QED BY <1>1, <1>2

LEMMA ItemEntryTyped ==
  ASSUME NEW e \in Entry, e.kind = "item" PROVE e.i \in Items /\ e.response \in Answers
BY DEF Entry

LEMMA StepIsServerStep ==
  ASSUME FieldTypeOK, [FieldNext]_vars PROVE [Next]_checkVars
<1> SUFFICES ASSUME FieldNext, checkVars' # checkVars PROVE Next
  BY DEF vars
<1>1. CASE SendItem
  <2>1. First.entry.i \in Items /\ First.entry.response \in Replies
    BY <1>1, FirstTyped, ItemEntryTyped, FieldWorkAssumption DEF SendItem, Sending
  <2>2. PICK p \in Posts : PostItem(p, First.entry.i, First.entry.response)
    BY <1>1 DEF SendItem
  <2> QED BY <2>1, <2>2 DEF Next, PostStep
<1>2. ASSUME NEW p \in Posts, ServeItem(p) \/ ServerDies(p) PROVE Next
  BY <1>2 DEF ServeItem, ServerDies, Next, PostStep
<1>3. ASSUME NEW d \in Desk, SubmitFromPage(d) \/ SubmitReply(d) \/ OfficeStep(d)
      PROVE Next
  BY <1>3 DEF SubmitFromPage, SubmitReply, OfficeStep, Next, DeskStep, Read
<1>4. ASSUME NEW c \in Calls, CallStep(c) PROVE UNCHANGED checkVars
  BY <1>4 DEF CallStep, SaveItemAnswer, CacheDoc, PutState, FindItemMutation, QueueAnswer
<1> QED
  BY <1>1, <1>2, <1>3, <1>4 DEF FieldNext, DrainStep, SendPhoto, Lose, EndDrain, Online,
     OpenPage, HandleSubmit, SubmitFails, QueuePhoto, ClearState, ClearQueue, Reopen

----------------------------------------------------------------------------
(* Type correctness of the device.                                         *)

Drains ==
  [at : {"off", "next", "sent"}, todo : SUBSET [seq : Seqs, entry : Entry],
   by : Posts \cup {Null}]

DeviceTypeOK ==
  /\ local \in [Items -> Response]
  /\ queue \in [Seqs -> Entry \cup {Null}]
  /\ lastSeq \in 0..MaxSeq
  /\ call \in [Calls -> Call]
  /\ drain \in Drains
  /\ page \in [at : {"away", "working", "asked", "submitting", "clearing", "emptying"},
               by : Desk \cup {Null}]
  /\ troubles \in 0..MaxTroubles
  /\ dropped \in SUBSET Items /\ raced \in SUBSET Items
  /\ uploads \in [Seqs -> Nat]

\* A drain that waits for the server still holds what it sent.
Sound == DeviceTypeOK /\ (drain.at = "sent" => drain.todo # {})

LEMMA TypesAreBoth == FieldTypeOK <=> TypeOK /\ DeviceTypeOK
BY DEF FieldTypeOK, DeviceTypeOK, Drains

LEMMA StartTyped ==
  ASSUME NEW q \in [Seqs -> Entry \cup {Null}]
  PROVE  Start(q) \in Drains
BY DEF Start, Pending, Drains

LEMMA OutcomeTyped ==
  ASSUME DeviceTypeOK, FieldTypeOK, drain.todo # {},
         Delivered \/ DeadLettered \/ KeptForLater
  PROVE  /\ queue' \in [Seqs -> Entry \cup {Null}]
         /\ drain' \in Drains /\ drain'.at # "sent"
         /\ troubles' \in 0..MaxTroubles
         /\ dropped' \in SUBSET Items
<1> USE FirstTyped DEF DeviceTypeOK, Drains
<1>1. CASE Delivered BY <1>1 DEF Delivered, Forget
<1>2. CASE DeadLettered
  BY <1>2, ItemEntryTyped DEF DeadLettered, Forget
<1>3. CASE KeptForLater
  BY <1>3, FieldWorkAssumption DEF KeptForLater, Trouble, Off
<1> QED BY <1>1, <1>2, <1>3

\* The steps that send, and what comes of them.
LEMMA DrainSound ==
  ASSUME FieldTypeOK, Sound,
         SendItem \/ SendPhoto \/ Lose \/ \E p \in Posts : ServeItem(p) \/ ServerDies(p)
  PROVE  Sound'
<1> USE DEF Sound
<1>1. CASE SendItem
  <2>1. PICK p \in Posts :
          /\ drain' = [drain EXCEPT !.at = "sent", !.by = p]
          /\ drain.todo # {}
          /\ raced' \in {raced, raced \cup {First.entry.i}} /\ First.entry.kind = "item"
          /\ UNCHANGED <<store, call, page, troubles, dropped, uploads>>
    BY <1>1 DEF SendItem, Sending
  <2>2. First.entry.i \in Items
    BY <2>1, FirstTyped, ItemEntryTyped
  <2> QED BY <2>1, <2>2 DEF DeviceTypeOK, Drains, store
<1>2. CASE SendPhoto
  <2>1. drain.todo # {} BY <1>2 DEF SendPhoto, Sending
  <2>2. uploads' \in [Seqs -> Nat]
    BY <1>2, <2>1, FirstTyped DEF SendPhoto, DeviceTypeOK
  <2>3. /\ Delivered \/ DeadLettered \/ KeptForLater
        /\ UNCHANGED <<local, lastSeq, call, page, raced>>
    BY <1>2 DEF SendPhoto
  <2> QED BY <2>1, <2>2, <2>3, OutcomeTyped DEF DeviceTypeOK
<1>3. CASE Lose
  <2>1. drain.todo # {} /\ KeptForLater /\ UNCHANGED <<local, lastSeq, call, page, raced, uploads>>
    BY <1>3 DEF Lose
  <2> QED BY <2>1, OutcomeTyped DEF DeviceTypeOK
<1>4. ASSUME NEW p \in Posts, ServeItem(p) \/ ServerDies(p) PROVE Sound'
  <2>1. UNCHANGED <<local, lastSeq, call, page, raced, uploads>>
    BY <1>4 DEF ServeItem, ServerDies
  <2>2. CASE UNCHANGED <<queue, drain, dropped>> /\ troubles' \in {troubles, troubles + 1}
             /\ (troubles' = troubles \/ Trouble)
    BY <2>1, <2>2, FieldWorkAssumption DEF Trouble, DeviceTypeOK
  <2>3. CASE drain.at = "sent" /\ (Delivered \/ DeadLettered \/ KeptForLater)
    BY <2>1, <2>3, OutcomeTyped DEF DeviceTypeOK
  <2>4. CASE UNCHANGED <<queue, drain, troubles, dropped>>
    BY <2>1, <2>4 DEF DeviceTypeOK
  <2> QED BY <1>4, <2>2, <2>3, <2>4 DEF ServeItem, ServerDies, Awaited, Trouble
<1> QED BY <1>1, <1>2, <1>3, <1>4

LEMMA CallsSound ==
  ASSUME FieldTypeOK, Sound, NEW c \in Calls, CallStep(c)
  PROVE  Sound'
<1> USE DEF Sound, DeviceTypeOK
<1>0. call[c] \in Call
  OBVIOUS
<1>1. ASSUME NEW state \in Call, Await(c, state) PROVE call' \in [Calls -> Call]
  BY <1>1 DEF Await
<1>2. Idle \in Call
  BY DEF Idle, Call
<1>3. CASE SaveItemAnswer(c)
  <2>1. PICK i \in Items, response \in Answers :
          Await(c, [op |-> "put", i |-> i, response |-> response, had |-> local])
    BY <1>3 DEF SaveItemAnswer
  <2>2. [op |-> "put", i |-> i, response |-> response, had |-> local] \in Call
    BY DEF Call
  <2> QED BY <1>1, <1>3, <2>1, <2>2 DEF SaveItemAnswer, store, history
<1>4. CASE CacheDoc(c)
  <2>1. [op |-> "cache", had |-> local] \in Call
    BY DEF Call
  <2> QED BY <1>1, <1>4, <2>1 DEF CacheDoc, store, history
<1>5. CASE PutState(c)
  <2>1. UNCHANGED <<queue, lastSeq, drain, page, troubles, dropped, uploads>>
    BY <1>5 DEF PutState
  <2>2. CASE call[c].op = "put"
    <3>1. call[c].i \in Items /\ call[c].response \in Answers /\ call[c].had \in [Items -> Response]
      BY <1>0, <2>2 DEF Call
    <3>2. /\ local' = [call[c].had EXCEPT ![call[c].i] = call[c].response]
          /\ Await(c, [op |-> "find", i |-> call[c].i, response |-> call[c].response])
          /\ raced' \subseteq Items
      BY <1>5, <2>2 DEF PutState
    <3>3. [op |-> "find", i |-> call[c].i, response |-> call[c].response] \in Call
      BY <3>1 DEF Call
    <3>4. local' \in [Items -> Response]
      BY <3>1, <3>2 DEF Response
    <3> QED BY <1>1, <2>1, <3>2, <3>3, <3>4
  <2>3. CASE call[c].op = "cache"
    <3>1. call[c].had \in [Items -> Response]
      BY <1>0, <2>3 DEF Call
    <3>2. local' = call[c].had /\ Await(c, Idle) /\ raced' \subseteq Items
      BY <1>5, <2>3 DEF PutState
    <3> QED BY <1>1, <1>2, <2>1, <3>1, <3>2
  <2> QED BY <1>5, <2>2, <2>3 DEF PutState
<1>6. CASE FindItemMutation(c)
  <2>1. PICK n \in {0} \cup ItemSeqs(call[c].i) :
          Await(c, [op |-> "queue", i |-> call[c].i, response |-> call[c].response, at |-> n])
    BY <1>6 DEF FindItemMutation
  <2>2. n \in {0} \cup Seqs
    BY DEF ItemSeqs, Pending
  <2>3. call[c].i \in Items /\ call[c].response \in Answers
    BY <1>0, <1>6 DEF FindItemMutation, Call
  <2>4. [op |-> "queue", i |-> call[c].i, response |-> call[c].response, at |-> n] \in Call
    BY <2>2, <2>3 DEF Call
  <2> QED BY <1>1, <1>6, <2>1, <2>4 DEF FindItemMutation, store, history
<1>7. CASE QueueAnswer(c)
  <2>1. call[c].i \in Items /\ call[c].response \in Answers /\ call[c].at \in {0} \cup Seqs
    BY <1>0, <1>7 DEF QueueAnswer, Call
  <2>2. PICK n \in Seqs :
          /\ lastSeq' \in {n, lastSeq}
          /\ queue' = [queue EXCEPT ![n] =
                         [kind |-> "item", i |-> call[c].i, response |-> call[c].response]]
          /\ raced' \in {raced \cup {call[c].i}, raced \ {call[c].i}}
          /\ dropped' = dropped \ {call[c].i}
          /\ Drain(queue') /\ Await(c, Idle)
          /\ UNCHANGED <<local, page, troubles, uploads>>
    BY <1>7 DEF QueueAnswer
  <2>3. [kind |-> "item", i |-> call[c].i, response |-> call[c].response] \in Entry
    BY <2>1 DEF Entry
  <2>4. queue' \in [Seqs -> Entry \cup {Null}]
    BY <2>2, <2>3
  <2>5. drain' \in {drain, Start(queue')} BY <2>2 DEF Drain
  <2>6. drain'.at = "sent" => drain' = drain BY <2>5 DEF Start
  <2>7. lastSeq' \in 0..MaxSeq
    BY <2>2, FieldWorkAssumption DEF Seqs
  <2> QED BY <1>1, <1>2, <2>1, <2>2, <2>4, <2>5, <2>6, <2>7, StartTyped
<1> QED BY <1>3, <1>4, <1>5, <1>6, <1>7 DEF CallStep

LEMMA PageSound ==
  ASSUME FieldTypeOK, Sound,
         \/ EndDrain \/ Online \/ QueuePhoto \/ OpenPage \/ HandleSubmit \/ SubmitFails
         \/ ClearState \/ ClearQueue \/ Reopen
         \/ \E d \in Desk : SubmitFromPage(d) \/ SubmitReply(d) \/ OfficeStep(d)
  PROVE  Sound'
<1> USE DEF Sound, DeviceTypeOK
<1>1. CASE EndDrain
  BY <1>1 DEF EndDrain, Off, Drains, store, history
<1>2. CASE Online
  <2>1. drain'.at = "next" BY <1>2 DEF Online, Start
  <2> QED BY <1>2, <2>1, StartTyped DEF Online, store, history
<1>3. CASE QueuePhoto
  <2>1. [kind |-> "photo"] \in Entry BY DEF Entry
  <2>2. lastSeq' \in 0..MaxSeq /\ lastSeq + 1 \in Seqs
    BY <1>3, FieldWorkAssumption DEF QueuePhoto, Seqs
  <2>3. queue' \in [Seqs -> Entry \cup {Null}]
    BY <1>3, <2>1, <2>2 DEF QueuePhoto
  <2>4. drain' \in {drain, Start(queue')} BY <1>3 DEF QueuePhoto, Drain
  <2>5. drain'.at = "sent" => drain' = drain BY <2>4 DEF Start
  <2> QED BY <1>3, <2>2, <2>3, <2>4, <2>5, StartTyped DEF QueuePhoto, history
<1>4. CASE OpenPage \/ HandleSubmit \/ SubmitFails
  BY <1>4, FieldWorkAssumption DEF OpenPage, HandleSubmit, SubmitFails, At, Trouble, store, history
<1>5. CASE ClearState \/ ClearQueue
  BY <1>5 DEF ClearState, ClearQueue, At, Response, store, history
<1>6. CASE Reopen
  <2>1. drain' \in {Off, Start(queue)} BY <1>6 DEF Reopen
  <2>2. drain'.at # "sent" BY <2>1 DEF Off, Start
  <2>3. drain' \in Drains
    BY <2>1, StartTyped DEF Off, Drains
  <2>4. uploads' \in [Seqs -> Nat]
    <3>1. CASE uploads' = uploads BY <3>1
    <3>2. CASE Sending("photo") /\ uploads' = [uploads EXCEPT ![First.seq] = @ + 1]
      BY <3>2, FirstTyped DEF Sending
    <3> QED BY <1>6, <3>1, <3>2 DEF Reopen
  <2>5. call' \in [Calls -> Call]
    BY <1>6 DEF Reopen, Idle, Call
  <2>6. raced' \in SUBSET Items
    BY <1>6 DEF Reopen
  <2> QED BY <1>6, <2>2, <2>3, <2>4, <2>5, <2>6, FieldWorkAssumption
     DEF Reopen, Trouble, At, store
<1>7. ASSUME NEW d \in Desk, SubmitFromPage(d) \/ SubmitReply(d) \/ OfficeStep(d)
      PROVE Sound'
  BY <1>7 DEF SubmitFromPage, SubmitReply, OfficeStep, At, deviceVars, store, history
<1> QED BY <1>1, <1>2, <1>3, <1>4, <1>5, <1>6, <1>7

LEMMA SoundHolds == FieldSpec => [](FieldTypeOK /\ Sound)
<1>1. FieldInit => FieldTypeOK /\ Sound
  BY InitTypeOK, FieldWorkAssumption, TypesAreBoth
  DEF FieldInit, DeviceInit, DeviceTypeOK, Sound, Drains, Off, At, Response, Idle, Call
<1>2. FieldTypeOK /\ Sound /\ [FieldNext]_vars => FieldTypeOK' /\ Sound'
  <2> SUFFICES ASSUME FieldTypeOK, Sound, [FieldNext]_vars PROVE FieldTypeOK' /\ Sound' OBVIOUS
  <2>1. TypeOK'
    <3>1. [Next]_checkVars BY StepIsServerStep
    <3>2. TypeOK BY TypesAreBoth
    <3>3. CASE UNCHANGED checkVars BY <3>2, <3>3 DEF checkVars, TypeOK
    <3>4. ASSUME NEW d \in Desk, DeskStep(d) PROVE TypeOK'
      BY <3>2, <3>4, ReadTypeOK, WriteTypeOK DEF DeskStep
    <3>5. ASSUME NEW p \in Posts, PostStep(p) PROVE TypeOK'
      BY <3>2, <3>5, PostTypeOK
    <3> QED BY <3>1, <3>3, <3>4, <3>5 DEF Next
  <2>2. ASSUME UNCHANGED vars PROVE Sound'
    BY <2>2 DEF vars, deviceVars, store, history, Sound, DeviceTypeOK
  <2>3. ASSUME FieldNext PROVE Sound'
    <3>1. ASSUME NEW c \in Calls, CallStep(c) PROVE Sound'
      BY <3>1, CallsSound
    <3>2. CASE SendItem \/ SendPhoto \/ Lose \/ \E p \in Posts : ServeItem(p) \/ ServerDies(p)
      BY <3>2, DrainSound
    <3>3. CASE \/ EndDrain \/ Online \/ QueuePhoto \/ OpenPage \/ HandleSubmit \/ SubmitFails
              \/ ClearState \/ ClearQueue \/ Reopen
              \/ \E d \in Desk : SubmitFromPage(d) \/ SubmitReply(d) \/ OfficeStep(d)
      BY <3>3, PageSound
    <3> QED BY <2>3, <3>1, <3>2, <3>3 DEF FieldNext, DrainStep
  <2>4. Sound' BY <2>2, <2>3
  <2>5. FieldTypeOK'
    BY <2>1, <2>4 DEF Sound, FieldTypeOK, DeviceTypeOK, Drains
  <2> QED BY <2>4, <2>5
<1> QED BY <1>1, <1>2, PTL DEF FieldSpec

\* The device's own state stays what its types say.
THEOREM FieldTyped == FieldSpec => []FieldTypeOK
BY SoundHolds, PTL

\* Whatever the device does, the server of the composition is module Checks.
THEOREM FieldWorkUsesChecks == FieldSpec => ServerAlone
<1>1. FieldInit => Init BY DEF FieldInit
<1>2. FieldTypeOK /\ [FieldNext]_vars => [Next]_checkVars BY StepIsServerStep
<1> QED BY <1>1, <1>2, FieldTyped, PTL DEF FieldSpec, ServerAlone

\* So the promise to the reviewer holds with answers replayed late, twice or
\* never, and with any number of requests under way.
THEOREM FieldWorkImplementsReview ==
  ASSUME OneEach PROVE FieldSpec => KeepsReviewPromise
BY FieldWorkUsesChecks, ChecksImplementReview, PTL DEF ServerAlone, Spec


----------------------------------------------------------------------------
(* The replay queue.                                                       *)

SameMatter(e, f) == e.kind = f.kind /\ (e.kind = "item" => e.i = f.i)

\* What is or may come to be queued as number n: the entry, a copy the drain
\* holds, and the answer of a save that found the entry.
Claim(n, e) ==
  \/ e # Null /\ e = queue[n]
  \/ \E m \in drain.todo : m.seq = n /\ m.entry = e
  \/ \E c \in Calls :
       /\ call[c].op = "queue" /\ call[c].at = n
       /\ e = [kind |-> "item", i |-> call[c].i, response |-> call[c].response]

\* A number is about one thing for good.
Agree ==
  /\ \A n \in Seqs, e, f \in Entry : Claim(n, e) /\ Claim(n, f) => SameMatter(e, f)
  /\ \A n \in Seqs, e \in Entry : Claim(n, e) => n <= lastSeq
  /\ \A m, k \in drain.todo : m.seq = k.seq => m = k

\* What a step may do to the claims.
Steady ==
  /\ lastSeq' \in {lastSeq, lastSeq + 1}
  /\ \A n \in Seqs : queue'[n] # Null =>
       Claim(n, queue'[n]) \/ (n = lastSeq + 1 /\ lastSeq' = n)
  /\ \A m \in drain'.todo :
       m \in drain.todo \/ (m.seq \in Seqs /\ queue'[m.seq] # Null /\ m.entry = queue'[m.seq])
  /\ \A m, k \in drain'.todo : m.seq = k.seq => m = k
  /\ \A c \in Calls : call'[c].op = "queue" =>
       \/ call'[c] = call[c]
       \/ call'[c].at \notin Seqs
       \/ /\ queue[call'[c].at] # Null
          /\ queue[call'[c].at].kind = "item" /\ queue[call'[c].at].i = call'[c].i

LEMMA StartHolds ==
  ASSUME NEW q
  PROVE  /\ \A m \in Start(q).todo : m.seq \in Pending(q) /\ m.entry = q[m.seq]
         /\ \A n \in Pending(q) : \E m \in Start(q).todo : m.seq = n
         /\ \A m, k \in Start(q).todo : m.seq = k.seq => m = k
<1>1. Start(q).todo = {[seq |-> n, entry |-> q[n]] : n \in Pending(q)}
  BY DEF Start
<1>2. \A m \in Start(q).todo : /\ m.seq \in Pending(q) /\ m.entry = q[m.seq]
                              /\ m = [seq |-> m.seq, entry |-> q[m.seq]]
  BY <1>1
<1>3. \A n \in Pending(q) : \E m \in Start(q).todo : m.seq = n
  <2> SUFFICES ASSUME NEW n \in Pending(q) PROVE \E m \in Start(q).todo : m.seq = n
    OBVIOUS
  <2>1. [seq |-> n, entry |-> q[n]] \in Start(q).todo
    BY <1>1
  <2> QED BY <2>1
<1>4. ASSUME NEW m \in Start(q).todo, NEW k \in Start(q).todo, m.seq = k.seq PROVE m = k
  BY <1>2, <1>4
<1> QED BY <1>2, <1>3, <1>4

LEMMA FirstIsLeast ==
  ASSUME FieldTypeOK, drain.todo # {}
  PROVE  /\ First \in drain.todo /\ First.seq \in Seqs /\ First.entry \in Entry
         /\ \A m \in drain.todo : First.seq <= m.seq
<1>1. drain.todo \subseteq [seq : Seqs, entry : Entry] BY DEF FieldTypeOK
<1>2. \A m \in drain.todo : First.seq <= m.seq BY <1>1, FirstIsHeld DEF First
<1> QED BY <1>2, FirstTyped

LEMMA HeldTyped ==
  ASSUME FieldTypeOK
  PROVE  /\ \A m \in drain.todo : m.seq \in Seqs /\ m.seq \in Nat /\ m.entry \in Entry
         /\ \A n \in Pending(queue) : n \in Nat /\ n \in Seqs /\ queue[n] \in Entry
         /\ lastSeq \in Nat /\ Seqs \subseteq Nat
BY FieldWorkAssumption DEF FieldTypeOK, Seqs, Pending

LEMMA CallTyped ==
  ASSUME FieldTypeOK, NEW c \in Calls
  PROVE  /\ call[c].op \in {"put", "find", "queue"} =>
              call[c].i \in Items /\ call[c].response \in Answers
         /\ call[c].op \in {"put", "cache"} => call[c].had \in [Items -> Response]
         /\ call[c].op = "queue" => call[c].at \in {0} \cup Seqs
<1>1. call[c] \in Call
  BY DEF FieldTypeOK
<1> QED BY <1>1 DEF Call

LEMMA CallEntry ==
  ASSUME NEW i \in Items, NEW response \in Answers, NEW e,
         e = [kind |-> "item", i |-> i, response |-> response]
  PROVE  e \in Entry /\ e # Null /\ e.kind = "item" /\ e.i = i /\ e.response = response
BY NullIsNoEntry DEF Entry

\* Whoever claims a number after a step claimed it before, for the same matter.
LEMMA ClaimsStay ==
  ASSUME FieldTypeOK, Steady, NEW n \in Seqs, NEW e \in Entry, Claim(n, e)'
  PROVE  \/ \E f \in Entry : Claim(n, f) /\ SameMatter(e, f)
         \/ n = lastSeq + 1 /\ lastSeq' = n /\ queue'[n] # Null /\ e = queue'[n]
<1>1. ASSUME queue'[n] # Null, e = queue'[n]
      PROVE  \/ \E f \in Entry : Claim(n, f) /\ SameMatter(e, f)
             \/ n = lastSeq + 1 /\ lastSeq' = n /\ queue'[n] # Null /\ e = queue'[n]
  BY <1>1 DEF Steady, SameMatter
<1>2. CASE \E m \in drain'.todo : m.seq = n /\ m.entry = e
  <2>1. PICK m \in drain'.todo : m.seq = n /\ m.entry = e
    BY <1>2
  <2>2. CASE m \in drain.todo
    BY <2>1, <2>2 DEF Claim, SameMatter
  <2>3. CASE queue'[m.seq] # Null /\ m.entry = queue'[m.seq]
    BY <1>1, <2>1, <2>3
  <2> QED BY <2>1, <2>2, <2>3 DEF Steady
<1>3. ASSUME NEW c \in Calls, call'[c].op = "queue", call'[c].at = n,
             e = [kind |-> "item", i |-> call'[c].i, response |-> call'[c].response]
      PROVE  \E f \in Entry : Claim(n, f) /\ SameMatter(e, f)
  <2>1. CASE call'[c] = call[c]
    BY <1>3, <2>1 DEF Claim, SameMatter
  <2>2. CASE queue[n] # Null /\ queue[n].kind = "item" /\ queue[n].i = call'[c].i
    <3>1. queue[n] \in Entry /\ Claim(n, queue[n])
      BY <2>2 DEF FieldTypeOK, Claim
    <3>2. SameMatter(e, queue[n])
      BY <1>3, <2>2 DEF SameMatter
    <3> QED BY <3>1, <3>2
  <2> QED BY <1>3, <2>1, <2>2 DEF Steady
<1> QED BY <1>1, <1>2, <1>3 DEF Claim

LEMMA AgreeKept ==
  ASSUME FieldTypeOK, Agree, Steady
  PROVE  Agree'
<1>1. lastSeq \in Nat /\ Seqs \subseteq Nat /\ lastSeq' \in {lastSeq, lastSeq + 1}
  BY HeldTyped DEF Steady
<1>2. ASSUME NEW n \in Seqs, NEW e \in Entry, Claim(n, e)' PROVE n <= lastSeq'
  BY <1>1, <1>2, ClaimsStay DEF Agree
<1>3. ASSUME NEW n \in Seqs, NEW e \in Entry, NEW f \in Entry, Claim(n, e)', Claim(n, f)'
      PROVE  SameMatter(e, f)
  <2>1. CASE n = lastSeq + 1
    <3>1. e = queue'[n] /\ f = queue'[n]
      BY <1>1, <1>3, <2>1, ClaimsStay DEF Agree
    <3> QED BY <3>1 DEF SameMatter
  <2>2. CASE n # lastSeq + 1
    <3>1. PICK g \in Entry : Claim(n, g) /\ SameMatter(e, g)
      BY <1>3, <2>2, ClaimsStay
    <3>2. PICK h \in Entry : Claim(n, h) /\ SameMatter(f, h)
      BY <1>3, <2>2, ClaimsStay
    <3>3. SameMatter(g, h) BY <3>1, <3>2 DEF Agree
    <3> QED BY <3>1, <3>2, <3>3 DEF SameMatter
  <2> QED BY <2>1, <2>2
<1> QED BY <1>2, <1>3 DEF Agree, Steady, SameMatter

\* The queue and the snapshot of the drain after a request.
LEMMA OutcomeSteady ==
  ASSUME FieldTypeOK, Agree, drain.todo # {}, UNCHANGED <<lastSeq, call>>,
         Delivered \/ DeadLettered \/ KeptForLater
  PROVE  Steady
<1>1. PICK f : f = First
  OBVIOUS
<1>2. f \in drain.todo /\ f.seq \in Seqs
  BY <1>1, FirstIsLeast
<1>3. queue \in [Seqs -> Entry \cup {Null}] BY DEF FieldTypeOK
<1>4. \/ queue' = [queue EXCEPT ![f.seq] = Null] /\ drain'.todo = drain.todo \ {f}
      \/ queue' = [queue EXCEPT ![f.seq] = f.entry] /\ drain'.todo = {}
  BY <1>1 DEF Delivered, DeadLettered, Forget, KeptForLater, Off
<1>5. \A n \in Seqs : queue'[n] # Null => Claim(n, queue'[n])
  BY <1>2, <1>3, <1>4 DEF Claim
<1> QED BY <1>4, <1>5 DEF Steady, Agree

\* The other steps: the queue is left, or one number is written.
LEMMA QueueSteady ==
  ASSUME FieldTypeOK, Agree, drain'.todo \in {drain.todo, {}, Start(queue').todo},
         lastSeq' \in {lastSeq, lastSeq + 1},
         \A n \in Seqs : \/ queue'[n] \in {queue[n], Null}
                         \/ Claim(n, queue'[n])
                         \/ n = lastSeq + 1 /\ lastSeq' = n,
         \A c \in Calls : call'[c].op = "queue" =>
           \/ call'[c] = call[c]
           \/ call'[c].at \notin Seqs
           \/ /\ queue[call'[c].at] # Null
              /\ queue[call'[c].at].kind = "item" /\ queue[call'[c].at].i = call'[c].i
  PROVE  Steady
<1>1. /\ \A m \in Start(queue').todo : m.seq \in Seqs /\ queue'[m.seq] # Null /\ m.entry = queue'[m.seq]
      /\ \A m, k \in Start(queue').todo : m.seq = k.seq => m = k
  BY StartHolds DEF Pending
<1>2. \A n \in Seqs : queue'[n] # Null =>
        Claim(n, queue'[n]) \/ (n = lastSeq + 1 /\ lastSeq' = n)
  BY DEF Claim
<1> QED BY <1>1, <1>2 DEF Steady, Agree

LEMMA CallSteady ==
  ASSUME FieldTypeOK, Agree, NEW c \in Calls, CallStep(c)
  PROVE  Steady
<1>1. call \in [Calls -> Call] /\ queue \in [Seqs -> Entry \cup {Null}] BY DEF FieldTypeOK
<1>2. ASSUME UNCHANGED <<queue, lastSeq, drain>>,
             \A d \in Calls : call'[d].op = "queue" => call'[d] = call[d]
      PROVE  Steady
  BY <1>2, QueueSteady
<1>3. CASE SaveItemAnswer(c) \/ CacheDoc(c) \/ PutState(c)
  <2>1. \A d \in Calls : call'[d].op = "queue" => call'[d] = call[d]
    <3>1. CASE SaveItemAnswer(c)
      <4>1. PICK i \in Items, response \in Answers :
              Await(c, [op |-> "put", i |-> i, response |-> response, had |-> local])
        BY <3>1 DEF SaveItemAnswer
      <4> QED BY <1>1, <4>1 DEF Await
    <3>2. CASE CacheDoc(c)
      BY <1>1, <3>2 DEF CacheDoc, Await
    <3>3. CASE PutState(c)
      <4>1. \/ Await(c, [op |-> "find", i |-> call[c].i, response |-> call[c].response])
            \/ Await(c, Idle)
        BY <3>3 DEF PutState
      <4> QED BY <1>1, <4>1 DEF Await, Idle
    <3> QED BY <1>3, <3>1, <3>2, <3>3
  <2>2. UNCHANGED <<queue, lastSeq, drain>>
    BY <1>3 DEF SaveItemAnswer, CacheDoc, PutState, store
  <2> QED BY <1>2, <2>1, <2>2
<1>4. CASE FindItemMutation(c)
  <2>1. PICK n \in {0} \cup ItemSeqs(call[c].i) :
          Await(c, [op |-> "queue", i |-> call[c].i, response |-> call[c].response, at |-> n])
    BY <1>4 DEF FindItemMutation
  <2>2. /\ call'[c].at = n /\ call'[c].i = call[c].i
        /\ \A d \in Calls \ {c} : call'[d] = call[d]
    BY <1>1, <2>1 DEF Await
  <2>3. n \notin Seqs \/ (queue[n] # Null /\ queue[n].kind = "item" /\ queue[n].i = call[c].i)
    BY DEF Seqs, ItemSeqs, Pending
  <2>4. UNCHANGED <<queue, lastSeq, drain>>
    BY <1>4 DEF FindItemMutation, store
  <2> QED BY <2>2, <2>3, <2>4, QueueSteady
<1>5. CASE QueueAnswer(c)
  <2>1. PICK n \in Seqs :
          /\ n = IF call[c].at = 0 THEN lastSeq + 1 ELSE call[c].at
          /\ lastSeq' = IF call[c].at = 0 THEN n ELSE lastSeq
          /\ queue' = [queue EXCEPT ![n] =
                         [kind |-> "item", i |-> call[c].i, response |-> call[c].response]]
          /\ drain' \in {drain, Start(queue')} /\ Await(c, Idle)
    BY <1>5 DEF QueueAnswer, Drain
  <2>2. \A d \in Calls : call'[d].op = "queue" => call'[d] = call[d]
    BY <1>1, <2>1 DEF Await, Idle
  <2>3. call[c].at # 0 => Claim(n, queue'[n])
    BY <1>1, <1>5, <2>1, CallTyped, NullIsNoEntry DEF Claim, QueueAnswer
  <2>4. \A k \in Seqs : k # n => queue'[k] = queue[k]
    BY <1>1, <2>1
  <2> QED BY <2>1, <2>2, <2>3, <2>4, QueueSteady
<1> QED BY <1>3, <1>4, <1>5 DEF CallStep

LEMMA StepSteady ==
  ASSUME FieldTypeOK, Sound, Agree, FieldNext
  PROVE  Steady
<1>1. ASSUME UNCHANGED <<queue, lastSeq, call>>,
             drain'.todo \in {drain.todo, {}, Start(queue).todo}
      PROVE  Steady
  BY <1>1, QueueSteady
<1>2. CASE SendItem
  <2>1. drain'.todo = drain.todo BY <1>2 DEF SendItem, FieldTypeOK
  <2> QED BY <1>1, <1>2, <2>1 DEF SendItem, store
<1>3. CASE SendPhoto \/ Lose
  BY <1>3, OutcomeSteady DEF SendPhoto, Sending, Lose, Sound
<1>4. ASSUME NEW p \in Posts, ServeItem(p) \/ ServerDies(p) PROVE Steady
  <2>1. UNCHANGED <<lastSeq, call>> BY <1>4 DEF ServeItem, ServerDies
  <2>2. \/ UNCHANGED <<queue, drain>>
        \/ drain.at = "sent" /\ (Delivered \/ DeadLettered \/ KeptForLater)
    BY <1>4 DEF ServeItem, ServerDies, Awaited
  <2> QED BY <1>1, <2>1, <2>2, OutcomeSteady DEF Sound
<1>5. CASE EndDrain \/ Online \/ OpenPage \/ HandleSubmit \/ SubmitFails \/ ClearState
  BY <1>1, <1>5 DEF EndDrain, Online, OpenPage, HandleSubmit, SubmitFails, ClearState, store, Off
<1>6. ASSUME NEW d \in Desk, SubmitFromPage(d) \/ SubmitReply(d) \/ OfficeStep(d)
      PROVE  Steady
  BY <1>1, <1>6 DEF SubmitFromPage, SubmitReply, OfficeStep, deviceVars, store
<1>7. CASE ClearQueue
  <2>1. \A n \in Seqs : queue'[n] = Null BY <1>7 DEF ClearQueue
  <2>2. UNCHANGED <<lastSeq, drain, call>> BY <1>7 DEF ClearQueue
  <2> QED BY <2>1, <2>2, QueueSteady
<1>8. CASE Reopen
  <2>1. UNCHANGED <<queue, lastSeq>> /\ drain'.todo \in {{}, Start(queue).todo}
    BY <1>8 DEF Reopen, store, Off
  <2>2. \A c \in Calls : call'[c].op # "queue" BY <1>8 DEF Reopen, Idle
  <2> QED BY <2>1, <2>2, QueueSteady
<1>9. CASE QueuePhoto
  <2>1. /\ lastSeq' = lastSeq + 1 /\ UNCHANGED call
        /\ \A n \in Seqs \ {lastSeq + 1} : queue'[n] = queue[n]
    BY <1>9 DEF QueuePhoto, FieldTypeOK
  <2>2. drain' \in {drain, Start(queue')} BY <1>9 DEF QueuePhoto, Drain
  <2> QED BY <2>1, <2>2, QueueSteady
<1>10. ASSUME NEW c \in Calls, CallStep(c) PROVE Steady
  BY <1>10, CallSteady
<1> QED BY <1>2, <1>3, <1>4, <1>5, <1>6, <1>7, <1>8, <1>9, <1>10 DEF FieldNext, DrainStep

LEMMA AgreeHolds == FieldSpec => [](FieldTypeOK /\ Sound /\ Agree)
<1>1. FieldInit => Agree
  BY DEF FieldInit, DeviceInit, Agree, Claim, Off, Idle
<1>2. FieldTypeOK /\ Sound /\ Agree /\ [FieldNext]_vars => Agree'
  <2> SUFFICES ASSUME FieldTypeOK, Sound, Agree, [FieldNext]_vars PROVE Agree' OBVIOUS
  <2>1. CASE UNCHANGED vars
    BY <2>1 DEF vars, deviceVars, store, Agree, Claim, SameMatter
  <2> QED BY <2>1, StepSteady, AgreeKept
<1> QED BY <1>1, <1>2, SoundHolds, PTL DEF FieldSpec

----------------------------------------------------------------------------
(* Photos.                                                                 *)

\* A photo that may still be sent was uploaded only by requests that had
\* trouble, and what is queued as a number an item has was never uploaded.
Copies ==
  \A n \in Seqs :
    /\ uploads[n] <= 1 + troubles
    /\ n > lastSeq => uploads[n] = 0
    /\ \A e \in Entry : Claim(n, e) => uploads[n] <= IF e.kind = "item" THEN 0 ELSE troubles

LEMMA CopiesFrame ==
  ASSUME FieldTypeOK, Agree, Copies, Steady, UNCHANGED uploads,
         troubles' \in {troubles, troubles + 1}
  PROVE  Copies'
<1>1. /\ \A n \in Seqs : uploads[n] \in Nat /\ n \in Nat
      /\ troubles \in Nat /\ lastSeq \in Nat /\ lastSeq' \in {lastSeq, lastSeq + 1}
  BY HeldTyped, FieldWorkAssumption DEF FieldTypeOK, Steady
<1>2. ASSUME NEW n \in Seqs, NEW e \in Entry, Claim(n, e)'
      PROVE  uploads[n] <= IF e.kind = "item" THEN 0 ELSE troubles
  BY <1>1, <1>2, ClaimsStay DEF Copies, SameMatter
<1>3. ASSUME NEW n \in Seqs
      PROVE  uploads[n] <= 1 + troubles' /\ (n > lastSeq' => uploads[n] = 0)
  BY <1>1, <1>3 DEF Copies
<1>4. ASSUME NEW n \in Seqs, NEW e \in Entry, Claim(n, e)'
      PROVE  uploads[n] <= IF e.kind = "item" THEN 0 ELSE troubles'
  BY <1>1, <1>2, <1>4
<1> QED BY <1>3, <1>4 DEF Copies

\* The upload of the first entry, which is then forgotten or had trouble.
LEMMA CopiesUpload ==
  ASSUME FieldTypeOK, Agree, Copies, Steady, Sending("photo"), UNCHANGED lastSeq,
         uploads' = [uploads EXCEPT ![First.seq] = @ + 1],
         NEW s, s = First.seq,
         \/ troubles' = troubles + 1
         \/ troubles' = troubles /\ \A e \in Entry : ~Claim(s, e)'
  PROVE  Copies'
<1>1. PICK f : f = First
  OBVIOUS
<1>2. f \in drain.todo /\ f.seq \in Seqs /\ f.entry \in Entry /\ f.entry.kind = "photo"
      /\ Claim(f.seq, f.entry)
  BY <1>1, FirstIsLeast DEF Sending, Claim
<1>3. /\ \A n \in Seqs : uploads[n] \in Nat /\ n \in Nat
      /\ troubles \in Nat /\ lastSeq \in Nat
  BY HeldTyped, FieldWorkAssumption DEF FieldTypeOK
<1>4. uploads[f.seq] <= troubles /\ ~(f.seq > lastSeq)
  BY <1>2, <1>3 DEF Copies, Agree
<1>5. \A n \in Seqs : uploads'[n] = IF n = f.seq THEN uploads[n] + 1 ELSE uploads[n]
  BY <1>1 DEF FieldTypeOK
<1>6. ASSUME NEW n \in Seqs
      PROVE  uploads'[n] <= 1 + troubles' /\ (n > lastSeq' => uploads'[n] = 0)
  BY <1>3, <1>4, <1>5 DEF Copies
<1>7. ASSUME NEW n \in Seqs, NEW e \in Entry, Claim(n, e)'
      PROVE  uploads'[n] <= IF e.kind = "item" THEN 0 ELSE troubles'
  <2>1. PICK g \in Entry : Claim(n, g) /\ SameMatter(e, g)
    BY <1>3, <1>7, ClaimsStay DEF Steady
  <2>2. uploads[n] <= IF e.kind = "item" THEN 0 ELSE troubles
    BY <2>1 DEF Copies, SameMatter
  <2>3. n = f.seq => e.kind # "item" /\ troubles' = troubles + 1
    <3>1. ASSUME n = f.seq PROVE e.kind # "item"
      <4>1. SameMatter(g, f.entry) BY <1>2, <2>1, <3>1 DEF Agree
      <4> QED BY <1>2, <2>1, <4>1 DEF SameMatter
    <3>2. ASSUME n = f.seq PROVE troubles' = troubles + 1
      BY <1>1, <1>7, <3>2
    <3> QED BY <3>1, <3>2
  <2> QED BY <1>3, <1>5, <2>2, <2>3
<1> QED BY <1>6, <1>7 DEF Copies

\* A photo that arrived claims its number no more.
LEMMA NoClaimLeft ==
  ASSUME FieldTypeOK, Agree, Sending("photo"), Delivered, UNCHANGED call,
         NEW e \in Entry, NEW s, s = First.seq
  PROVE  ~Claim(s, e)'
<1>1. PICK f : f = First
  OBVIOUS
<1>2. f \in drain.todo /\ f.seq \in Seqs /\ f.entry \in Entry /\ f.entry.kind = "photo"
      /\ Claim(f.seq, f.entry)
  BY <1>1, FirstIsLeast DEF Sending, Claim
<1>3. queue'[f.seq] = Null /\ drain'.todo = drain.todo \ {f} /\ call' = call
  BY <1>1, <1>2 DEF Delivered, Forget, FieldTypeOK
<1>4. \A m \in drain'.todo : m.seq # f.seq
  BY <1>2, <1>3 DEF Agree
<1>5. ASSUME NEW c \in Calls, call[c].op = "queue", call[c].at = f.seq PROVE FALSE
  <2> DEFINE g == [kind |-> "item", i |-> call[c].i, response |-> call[c].response]
  <2>1. g \in Entry /\ g.kind = "item"
    BY <1>5, CallTyped, CallEntry
  <2>2. Claim(f.seq, g)
    BY <1>5 DEF Claim
  <2> QED BY <1>2, <2>1, <2>2 DEF Agree, SameMatter
<1>6. s = f.seq BY <1>1
<1> QED BY <1>3, <1>4, <1>5, <1>6 DEF Claim

LEMMA CopiesKept ==
  ASSUME FieldTypeOK, Sound, Agree, Copies, FieldNext
  PROVE  Copies'
<1>0. Steady BY StepSteady
<1>1. ASSUME UNCHANGED uploads, troubles' \in {troubles, troubles + 1} PROVE Copies'
  BY <1>0, <1>1, CopiesFrame
<1>2. CASE SendPhoto
  <2>1. Sending("photo") /\ UNCHANGED <<lastSeq, call>>
    BY <1>2 DEF SendPhoto
  <2>2. CASE DeadLettered /\ UNCHANGED uploads
    BY <1>1, <2>2 DEF DeadLettered, Forget
  <2>3. CASE Delivered /\ uploads' = [uploads EXCEPT ![First.seq] = @ + 1]
    <3>1. troubles' = troubles BY <2>3 DEF Delivered, Forget
    <3>2. PICK s : s = First.seq OBVIOUS
    <3>3. \A e \in Entry : ~Claim(s, e)' BY <2>1, <2>3, <3>2, NoClaimLeft
    <3> QED BY <1>0, <2>1, <2>3, <3>1, <3>2, <3>3, CopiesUpload
  <2>4. CASE KeptForLater /\ uploads' = [uploads EXCEPT ![First.seq] = @ + 1]
    BY <1>0, <2>1, <2>4, CopiesUpload DEF KeptForLater, Trouble
  <2> QED BY <1>2, <2>2, <2>3, <2>4 DEF SendPhoto
<1>3. CASE Reopen
  <2>1. troubles' = troubles + 1 /\ UNCHANGED lastSeq
    BY <1>3 DEF Reopen, Trouble, store
  <2>2. CASE UNCHANGED uploads BY <1>1, <2>1, <2>2
  <2>3. CASE Sending("photo") /\ uploads' = [uploads EXCEPT ![First.seq] = @ + 1]
    BY <1>0, <2>1, <2>3, CopiesUpload
  <2> QED BY <1>3, <2>2, <2>3 DEF Reopen
<1>4. CASE SendItem \/ Lose \/ \E p \in Posts : ServeItem(p) \/ ServerDies(p)
  BY <1>1, <1>4 DEF SendItem, Lose, ServeItem, ServerDies, Delivered, DeadLettered, Forget,
     KeptForLater, Trouble
<1>5. ASSUME NEW c \in Calls, CallStep(c) PROVE Copies'
  BY <1>1, <1>5 DEF CallStep, SaveItemAnswer, CacheDoc, PutState, FindItemMutation, QueueAnswer,
     history
<1>6. CASE \/ EndDrain \/ Online \/ QueuePhoto \/ OpenPage \/ HandleSubmit \/ SubmitFails
           \/ ClearState \/ ClearQueue
           \/ \E d \in Desk : SubmitFromPage(d) \/ SubmitReply(d) \/ OfficeStep(d)
  BY <1>1, <1>6 DEF EndDrain, Online, QueuePhoto, OpenPage, HandleSubmit, SubmitFails,
     ClearState, ClearQueue, SubmitFromPage, SubmitReply, OfficeStep, Trouble, history, deviceVars
<1> QED BY <1>2, <1>3, <1>4, <1>5, <1>6 DEF FieldNext, DrainStep

\* A photo is on the server twice only after trouble: at most once more than
\* there were requests lost, replies lost and tabs reopened (checkQueue.ts
\* deletes an entry after its upload).
THEOREM PhotoCopiesAreBounded == FieldSpec => []CopiesHaveACause
<1>1. FieldInit => Copies
  BY FieldWorkAssumption DEF FieldInit, DeviceInit, Copies, Claim, Off, Idle, Seqs
<1>2. FieldTypeOK /\ Sound /\ Agree /\ Copies /\ [FieldNext]_vars => Copies'
  <2> SUFFICES ASSUME FieldTypeOK, Sound, Agree, Copies, [FieldNext]_vars PROVE Copies' OBVIOUS
  <2>1. CASE UNCHANGED vars
    BY <2>1 DEF vars, deviceVars, store, history, Copies, Claim
  <2> QED BY <2>1, CopiesKept
<1>3. Copies => CopiesHaveACause
  BY DEF Copies, CopiesHaveACause
<1> QED BY <1>1, <1>2, <1>3, AgreeHolds, PTL DEF FieldSpec

----------------------------------------------------------------------------
(* Answers.                                                                *)

\* The session the device waits for serves what the drain sent.
InFlight ==
  drain.at = "sent" =>
    /\ First.entry.kind = "item" /\ drain.by \in Posts
    /\ post[drain.by] # Idle
    /\ post[drain.by].i = First.entry.i /\ post[drain.by].response = First.entry.response

\* An item being added is not there yet, and is added by one request.
FreshItems ==
  \A d \in Desk : desk[d].op = "add" =>
    /\ ~Stored(desk[d].i)
    /\ \A e \in Desk : desk[e].op = "add" /\ desk[e].i = desk[d].i => e = d

LEMMA PostKeepsItems ==
  ASSUME TypeOK, NEW p \in Posts, PostStep(p), NEW i \in Items
  PROVE  Stored(i)' <=> Stored(i)
<1>1. CASE UNCHANGED item
  BY <1>1 DEF Stored
<1>2. CASE PostWrite(p)
  <2>1. PICK j, response : item' = [item EXCEPT ![j].response = response]
    BY <1>2 DEF PostWrite
  <2>2. item[i] \in Row /\ item \in [Items -> Row]
    BY DEF TypeOK
  <2>3. item'[i].db = item[i].db
    BY <2>1, <2>2 DEF Row
  <2> QED BY <2>3 DEF Stored
<1> QED BY <1>1, <1>2 DEF PostStep, PostItem, PostCheck, PostRead, PostFail

LEMMA FreshKept ==
  ASSUME TypeOK, FreshItems, [Next]_checkVars
  PROVE  FreshItems'
<1>0. /\ desk \in [Desk -> DeskRequest] /\ item \in [Items -> Row]
      /\ \A d \in Desk : desk[d].op = "add" => desk[d].i \in Items
  BY DEF TypeOK, DeskRequest
<1>1. ASSUME UNCHANGED desk, \A i \in Items : Stored(i)' => Stored(i) PROVE FreshItems'
  BY <1>0, <1>1 DEF FreshItems
<1>2. ASSUME NEW d \in Desk, NEW q, desk' = [desk EXCEPT ![d] = q], q.op # "add",
             \A i \in Items : Stored(i)' =>
               Stored(i) \/ (desk[d].op = "add" /\ desk[d].i = i)
      PROVE  FreshItems'
  <2>1. desk'[d].op # "add" /\ \A e \in Desk \ {d} : desk'[e] = desk[e]
    BY <1>0, <1>2
  <2> QED BY <1>0, <1>2, <2>1 DEF FreshItems
<1>3. ASSUME NEW d \in Desk, AddAdHocItem(d) PROVE FreshItems'
  <2>1. PICK i \in Items, required \in BOOLEAN :
          /\ ~Stored(i) /\ i \notin Adding
          /\ desk' = [desk EXCEPT ![d] = [op |-> "add", i |-> i, required |-> required]]
          /\ UNCHANGED item
    BY <1>3 DEF AddAdHocItem, Begin
  <2>2. /\ desk'[d].i = i /\ \A e \in Desk \ {d} : desk'[e] = desk[e]
        /\ \A e \in Desk : desk[e].op = "add" => desk[e].i # i
    BY <1>0, <2>1 DEF Adding
  <2> QED BY <2>1, <2>2 DEF FreshItems, Stored
<1>4. ASSUME NEW d \in Desk, DeskStep(d) PROVE FreshItems'
  <2>1. CASE UNCHANGED item
    <3>1. AddAdHocItem(d) \/ \E q : desk' = [desk EXCEPT ![d] = q] /\ q.op # "add"
      BY <1>4, <2>1 DEF DeskStep, Read, UpdateForClient, StartCheck, SubmitForReview, FlagItem,
           ApproveCheck, ReturnForRework, CancelCheck, Begin, WriteStatus, WriteFlag, WriteItem,
           Fail, End, Idle
    <3>2. \A i \in Items : Stored(i)' => Stored(i)
      BY <2>1 DEF Stored
    <3> QED BY <1>2, <1>3, <3>1, <3>2
  <2>2. CASE WriteItem(d)
    <3>1. desk' = [desk EXCEPT ![d] = Idle] /\ Idle.op # "add"
      BY <2>2 DEF WriteItem, End, Idle
    <3>2. \A i \in Items : Stored(i)' => Stored(i) \/ (desk[d].op = "add" /\ desk[d].i = i)
      BY <1>0, <2>2 DEF WriteItem, Stored
    <3> QED BY <1>2, <3>1, <3>2
  <2> QED BY <1>4, <2>1, <2>2 DEF DeskStep, Read, UpdateForClient, StartCheck, AddAdHocItem,
       SubmitForReview, FlagItem, ApproveCheck, ReturnForRework, CancelCheck, Begin, WriteStatus,
       WriteFlag, Fail
<1>5. ASSUME NEW p \in Posts, PostStep(p) PROVE FreshItems'
  <2>1. UNCHANGED desk
    BY <1>5 DEF PostStep, PostItem, PostCheck, PostRead, PostWrite, PostFail, Serve
  <2> QED BY <1>1, <1>5, <2>1, PostKeepsItems
<1>6. CASE UNCHANGED checkVars
  BY <1>1, <1>6 DEF checkVars, Stored
<1> QED BY <1>4, <1>5, <1>6 DEF Next

\* An item once stored stays.
LEMMA StoredStays ==
  ASSUME TypeOK, FreshItems, [Next]_checkVars, NEW i \in Items, Stored(i)
  PROVE  Stored(i)'
<1>1. CASE UNCHANGED item
  BY <1>1 DEF Stored
<1>2. ASSUME NEW d \in Desk, WriteItem(d) PROVE Stored(i)'
  <2>1. ~Stored(desk[d].i) /\ item'[i] = item[i]
    BY <1>2 DEF WriteItem, FreshItems, TypeOK, Stored
  <2> QED BY <2>1 DEF Stored
<1>3. ASSUME NEW d \in Desk, DeskStep(d) PROVE Stored(i)'
  BY <1>1, <1>2, <1>3 DEF DeskStep, Read, UpdateForClient, StartCheck, AddAdHocItem,
     SubmitForReview, FlagItem, ApproveCheck, ReturnForRework, CancelCheck, Begin, WriteStatus,
     WriteFlag, Fail
<1>4. ASSUME NEW p \in Posts, PostStep(p) PROVE Stored(i)'
  BY <1>1, <1>4, PostKeepsItems DEF Stored
<1> QED BY <1>1, <1>3, <1>4 DEF Next, checkVars

\* The device keeps, and its calls put back, answers of stored items.
StoredItems == {i \in Items : Stored(i)}

Known(q, S) ==
  /\ q.op \in {"put", "cache"} => \A j \in Items : q.had[j] # Null => j \in S
  /\ q.op = "put" => q.i \in S

Grounded ==
  /\ \A i \in Items : local[i] # Null => i \in StoredItems
  /\ \A c \in Calls : Known(call[c], StoredItems)

LEMMA GroundedKept ==
  ASSUME FieldTypeOK, FreshItems, Grounded, FieldNext
  PROVE  Grounded'
<1>0. TypeOK /\ [Next]_checkVars BY StepIsServerStep, TypesAreBoth
<1>1. StoredItems \subseteq StoredItems' BY <1>0, StoredStays DEF StoredItems
<1>2. call \in [Calls -> Call] /\ local \in [Items -> Response] BY DEF FieldTypeOK
<1>3. \A c \in Calls : Known(call[c], StoredItems') BY <1>1 DEF Grounded, Known
<1>4. Known(Idle, StoredItems') BY DEF Known, Idle
<1>5. ASSUME UNCHANGED local \/ \A i \in Items : local'[i] = Null,
             \A c \in Calls : call'[c] \in {call[c], Idle}
      PROVE  Grounded'
  <2>1. \A i \in Items : local'[i] # Null => i \in StoredItems' BY <1>1, <1>5 DEF Grounded
  <2>2. \A c \in Calls : Known(call'[c], StoredItems') BY <1>3, <1>4, <1>5
  <2> QED BY <2>1, <2>2 DEF Grounded
<1>6. ASSUME NEW c \in Calls, NEW state, Await(c, state), Known(state, StoredItems'),
             \A i \in Items : local'[i] # Null => i \in StoredItems'
      PROVE  Grounded'
  <2>1. call'[c] = state /\ \A d \in Calls \ {c} : call'[d] = call[d] BY <1>2, <1>6 DEF Await
  <2>2. \A d \in Calls : Known(call'[d], StoredItems') BY <1>3, <1>6, <2>1
  <2> QED BY <1>6, <2>2 DEF Grounded
<1>7. ASSUME NEW c \in Calls, CallStep(c) PROVE Grounded'
  <2>1. UNCHANGED local => \A i \in Items : local'[i] # Null => i \in StoredItems'
    BY <1>1 DEF Grounded
  <2>2. CASE SaveItemAnswer(c)
    <3>1. PICK i \in Items, response \in Answers :
            /\ Stored(i)
            /\ Await(c, [op |-> "put", i |-> i, response |-> response, had |-> local])
      BY <2>2 DEF SaveItemAnswer
    <3>2. UNCHANGED local BY <2>2 DEF SaveItemAnswer, store
    <3>3. i \in StoredItems' BY <1>1, <3>1 DEF StoredItems
    <3>4. Known([op |-> "put", i |-> i, response |-> response, had |-> local], StoredItems')
      BY <1>1, <3>3 DEF Known, Grounded
    <3> QED BY <1>6, <2>1, <3>1, <3>2, <3>4
  <2>3. CASE CacheDoc(c)
    <3>1. UNCHANGED local /\ Await(c, [op |-> "cache", had |-> local])
      BY <2>3 DEF CacheDoc, store
    <3>2. Known([op |-> "cache", had |-> local], StoredItems')
      BY <1>1 DEF Known, Grounded
    <3> QED BY <1>6, <2>1, <3>1, <3>2
  <2>4. CASE PutState(c)
    <3>1. /\ call[c].op \in {"put", "cache"} /\ call[c].had \in [Items -> Response]
          /\ \/ local' = [call[c].had EXCEPT ![call[c].i] = call[c].response]
                /\ call[c].op = "put"
             \/ local' = call[c].had
      BY <2>4, CallTyped DEF PutState
    <3>2. \A i \in Items : local'[i] # Null => i \in StoredItems'
      BY <1>3, <3>1 DEF Known
    <3>3. \/ Await(c, [op |-> "find", i |-> call[c].i, response |-> call[c].response])
          \/ Await(c, Idle)
      BY <2>4 DEF PutState
    <3>4. Known([op |-> "find", i |-> call[c].i, response |-> call[c].response], StoredItems')
      BY DEF Known
    <3> QED BY <1>4, <1>6, <3>2, <3>3, <3>4
  <2>5. CASE FindItemMutation(c)
    <3>1. PICK n :
            /\ Await(c, [op |-> "queue", i |-> call[c].i, response |-> call[c].response, at |-> n])
            /\ UNCHANGED local
      BY <2>5 DEF FindItemMutation, store
    <3>2. Known([op |-> "queue", i |-> call[c].i, response |-> call[c].response, at |-> n], StoredItems')
      BY DEF Known
    <3> QED BY <1>6, <2>1, <3>1, <3>2
  <2>6. CASE QueueAnswer(c)
    BY <1>4, <1>6, <2>1, <2>6 DEF QueueAnswer
  <2> QED BY <1>7, <2>2, <2>3, <2>4, <2>5, <2>6 DEF CallStep
<1>8. CASE Reopen
  BY <1>5, <1>8 DEF Reopen, store
<1>9. CASE ClearState
  BY <1>5, <1>9 DEF ClearState
<1>10. CASE UNCHANGED <<local, call>>
  BY <1>5, <1>10
<1> QED
  BY <1>7, <1>8, <1>9, <1>10 DEF FieldNext, DrainStep, SendItem, ServeItem, SendPhoto, EndDrain,
     Lose, ServerDies, Online, QueuePhoto, OpenPage, HandleSubmit, SubmitFails, ClearQueue,
     SubmitFromPage, SubmitReply, OfficeStep, deviceVars, store

LEMMA InFlightKept ==
  ASSUME FieldTypeOK, InFlight, FieldNext
  PROVE  InFlight'
<1>0. post \in [Posts -> PostRequest] /\ drain \in Drains
  BY TypesAreBoth DEF TypeOK, DeviceTypeOK
<1>1. ASSUME UNCHANGED drain, drain.at = "sent" => post'[drain.by] = post[drain.by]
      PROVE  InFlight'
  BY <1>1 DEF InFlight, First, Idle
<1>2. ASSUME drain'.at # "sent" PROVE InFlight'
  BY <1>2 DEF InFlight
<1>3. CASE SendItem
  <2>1. PICK p \in Posts :
          /\ post' = [post EXCEPT ![p] = [op |-> "sent", i |-> First.entry.i,
                                          response |-> First.entry.response]]
          /\ drain' = [drain EXCEPT !.at = "sent", !.by = p]
          /\ First.entry.kind = "item"
    BY <1>3 DEF SendItem, PostItem, Serve, Sending
  <2>2. drain'.todo = drain.todo /\ drain'.by = p BY <1>0, <2>1 DEF Drains
  <2>3. First' = First BY <2>2 DEF First
  <2>4. /\ post'[p] # Idle
        /\ post'[p].i = First.entry.i /\ post'[p].response = First.entry.response
    BY <1>0, <2>1 DEF Idle
  <2> QED BY <2>1, <2>2, <2>3, <2>4 DEF InFlight, Idle
<1>4. CASE SendPhoto \/ Lose \/ EndDrain \/ Online \/ Reopen
  BY <1>2, <1>4 DEF SendPhoto, Lose, Delivered, DeadLettered, Forget, KeptForLater, EndDrain,
     Online, Reopen, Off, Start
<1>5. ASSUME NEW p \in Posts, ServeItem(p) \/ ServerDies(p) PROVE InFlight'
  <2>1. \A q \in Posts \ {p} : post'[q] = post[q]
    BY <1>0, <1>5 DEF ServeItem, ServerDies, PostCheck, PostRead, PostWrite, PostFail, Serve
  <2>2. CASE UNCHANGED drain /\ ~Awaited(p)
    BY <1>1, <2>1, <2>2 DEF Awaited, InFlight
  <2>3. CASE drain'.at # "sent"
    BY <1>2, <2>3
  <2>4. CASE UNCHANGED drain /\ post'[p] # Idle /\ Awaited(p)
    <3>1. /\ post[p] # Idle /\ post'[p].i = post[p].i /\ post'[p].response = post[p].response
      BY <1>0, <1>5, <2>4 DEF ServeItem, ServerDies, PostCheck, PostRead, PostWrite, PostFail,
         Serve, Idle
    <3>2. First' = First BY <2>4 DEF First
    <3> QED BY <2>4, <3>1, <3>2 DEF InFlight, Awaited, Idle
  <2>5. post'[p] = Idle /\ Awaited(p) => drain'.at # "sent"
    BY <1>5 DEF ServeItem, ServerDies, Delivered, DeadLettered, Forget, KeptForLater, Off
  <2>6. UNCHANGED drain \/ drain'.at # "sent"
    BY <1>5 DEF ServeItem, ServerDies, Delivered, DeadLettered, Forget, KeptForLater, Off
  <2> QED BY <2>2, <2>3, <2>4, <2>5, <2>6
<1>6. CASE \/ QueuePhoto \/ OpenPage \/ HandleSubmit \/ SubmitFails \/ ClearState \/ ClearQueue
           \/ \E c \in Calls : CallStep(c)
  <2>1. UNCHANGED post
    BY <1>6 DEF QueuePhoto, OpenPage, HandleSubmit, SubmitFails, ClearState, ClearQueue, CallStep,
       SaveItemAnswer, CacheDoc, PutState, FindItemMutation, QueueAnswer, checkVars
  <2>2. UNCHANGED drain \/ Drain(queue')
    BY <1>6 DEF QueuePhoto, OpenPage, HandleSubmit, SubmitFails, ClearState, ClearQueue, CallStep,
       SaveItemAnswer, CacheDoc, PutState, FindItemMutation, QueueAnswer
  <2>3. UNCHANGED drain \/ drain'.at # "sent"
    BY <2>2 DEF Drain, Start
  <2> QED BY <1>1, <1>2, <2>1, <2>3
<1>7. ASSUME NEW d \in Desk, SubmitFromPage(d) \/ SubmitReply(d) \/ OfficeStep(d)
      PROVE  InFlight'
  <2>1. DeskStep(d) /\ UNCHANGED drain
    BY <1>7 DEF SubmitFromPage, SubmitReply, OfficeStep, DeskStep, Read, deviceVars
  <2>2. UNCHANGED post
    BY <2>1 DEF DeskStep, Read, UpdateForClient, StartCheck, AddAdHocItem, SubmitForReview,
         FlagItem, ApproveCheck, ReturnForRework, CancelCheck, Begin, WriteStatus, WriteFlag,
         WriteItem, Fail, End
  <2> QED BY <1>1, <2>1, <2>2
<1> QED BY <1>3, <1>4, <1>5, <1>6, <1>7 DEF FieldNext, DrainStep

\* The server has the answer, nothing about the item waits on the device, and
\* the requests for it that are still under way carry the answer too.
Settled(i) ==
  /\ ItemSeqs(i) = {} /\ HeldOf(i) = {}
  /\ item[i].response = local[i]
  /\ \A p \in UnderWay(i) : post[p].response = local[i]

\* Entry n of the item, the last, has the answer.  No copy of a later one is
\* held; a drain that holds n holds all the item's; and once it sends n, no
\* request with another answer is under way.
WaitsAs(i, n) ==
  /\ n \in ItemSeqs(i) /\ queue[n].response = local[i]
  /\ \A k \in ItemSeqs(i) : k <= n
  /\ \A m \in HeldOf(i) : m.seq < n \/ (m.seq = n /\ m.entry = queue[n])
  /\ (\E m \in HeldOf(i) : m.seq = n) => \A k \in ItemSeqs(i) : \E m \in HeldOf(i) : m.seq = k
  /\ drain.at = "sent" /\ First \in HeldOf(i) /\ First.seq = n =>
       \A p \in UnderWay(i) : post[p].response = local[i]

Waiting(i) == \E n \in Seqs : WaitsAs(i, n)

Arriving(i) == local[i] = Null \/ Saving(i) \/ Settled(i) \/ Waiting(i)

Arrivals == \A i \in Items \ (dropped \cup raced) : Arriving(i)

\* The server starts nothing new for the item, and leaves a settled one settled.
ServerLeaves(i) ==
  /\ \A p \in Posts : post'[p] # Idle /\ post'[p].i = i =>
       post[p] # Idle /\ post[p].i = i /\ post'[p].response = post[p].response
  /\ local[i] # Null /\ Settled(i) => item'[i].response = local[i]

\* What a drain that starts holds of the item.
HoldsCopies(i) ==
  /\ \A m \in HeldOf(i)' : m.seq \in ItemSeqs(i) /\ m.entry = queue[m.seq]
  /\ \A k \in ItemSeqs(i) : \E m \in HeldOf(i)' : m.seq = k

LEMMA UnderWayStays ==
  ASSUME NEW i \in Items, ServerLeaves(i), NEW r, \A p \in UnderWay(i) : post[p].response = r
  PROVE  \A p \in UnderWay(i)' : post'[p].response = r
BY DEF ServerLeaves, UnderWay, Idle

\* Nothing of the item is added to or taken from the queue.
LEMMA ArrivingFrame ==
  ASSUME FieldTypeOK, NEW i \in Items, Arriving(i), local'[i] = local[i],
         Saving(i) => Saving(i)',
         ItemSeqs(i)' = ItemSeqs(i), \A n \in ItemSeqs(i) : queue'[n] = queue[n],
         HeldOf(i)' \in {HeldOf(i), {}} \/ HoldsCopies(i),
         drain'.at = "sent" =>
           \/ drain.at = "sent" /\ First' = First /\ HeldOf(i)' = HeldOf(i)
           \/ First' \notin HeldOf(i)',
         ServerLeaves(i)
  PROVE  Arriving(i)'
<1>1. CASE local[i] = Null
  BY <1>1 DEF Arriving
<1>2. CASE Saving(i)
  BY <1>2 DEF Arriving
<1>3. CASE local[i] # Null /\ Settled(i)
  <2>1. HeldOf(i)' = {}
    BY <1>3 DEF Settled, HoldsCopies
  <2>2. \A p \in UnderWay(i)' : post'[p].response = local[i]
    BY <1>3, UnderWayStays DEF Settled
  <2>3. item'[i].response = local[i]
    BY <1>3 DEF ServerLeaves
  <2>4. Settled(i)'
    BY <1>3, <2>1, <2>2, <2>3 DEF Settled
  <2> QED BY <2>4 DEF Arriving
<1>4. CASE Waiting(i)
  <2>1. PICK n \in Seqs : WaitsAs(i, n)
    BY <1>4 DEF Waiting
  <2>2. n \in Nat /\ ItemSeqs(i) \subseteq Nat
    BY HeldTyped DEF ItemSeqs
  <2>3. \A m \in HeldOf(i)' : m.seq < n \/ (m.seq = n /\ m.entry = queue[n])
    BY <2>1, <2>2 DEF WaitsAs, HoldsCopies
  <2>4. (\E m \in HeldOf(i)' : m.seq = n) =>
          \A k \in ItemSeqs(i) : \E m \in HeldOf(i)' : m.seq = k
    BY <2>1 DEF WaitsAs, HoldsCopies
  <2>5. ASSUME drain'.at = "sent", First' \in HeldOf(i)', (First').seq = n
        PROVE  \A p \in UnderWay(i)' : post'[p].response = local[i]
    <3>1. drain.at = "sent" /\ First \in HeldOf(i) /\ First.seq = n
      BY <2>5
    <3> QED BY <2>1, <3>1, UnderWayStays DEF WaitsAs
  <2>6. WaitsAs(i, n)'
    BY <2>1, <2>3, <2>4, <2>5 DEF WaitsAs
  <2> QED BY <2>6 DEF Arriving, Waiting
<1> QED BY <1>1, <1>2, <1>3, <1>4 DEF Arriving

\* A step that leaves the queue alone; the drain goes on, stops or starts.
LEMMA ArrivingQuiet ==
  ASSUME FieldTypeOK, NEW i \in Items, Arriving(i), local'[i] = local[i], UNCHANGED queue,
         Saving(i) => Saving(i)', ServerLeaves(i),
         \/ UNCHANGED drain
         \/ drain'.at # "sent" /\ drain'.todo \in {drain.todo, {}, Start(queue).todo}
  PROVE  Arriving(i)'
<1>1. ItemSeqs(i)' = ItemSeqs(i) /\ \A n \in ItemSeqs(i) : queue'[n] = queue[n]
  BY DEF ItemSeqs, Pending
<1>2. UNCHANGED drain => First' = First
  BY DEF First
<1>3. ASSUME drain'.todo = Start(queue).todo PROVE HoldsCopies(i)
  <2>1. /\ \A m \in Start(queue).todo : m.seq \in Pending(queue) /\ m.entry = queue[m.seq]
        /\ \A n \in Pending(queue) : \E m \in Start(queue).todo : m.seq = n
    BY StartHolds
  <2>2. \A m \in HeldOf(i)' : m.seq \in ItemSeqs(i) /\ m.entry = queue[m.seq]
    BY <1>3, <2>1 DEF HeldOf, ItemSeqs
  <2>3. \A k \in ItemSeqs(i) : \E m \in HeldOf(i)' : m.seq = k
    BY <1>3, <2>1 DEF HeldOf, ItemSeqs
  <2> QED BY <2>2, <2>3 DEF HoldsCopies
<1>4. HeldOf(i)' \in {HeldOf(i), {}} \/ HoldsCopies(i)
  BY <1>3 DEF HeldOf
<1>5. drain'.at = "sent" => drain.at = "sent" /\ First' = First /\ HeldOf(i)' = HeldOf(i)
  BY <1>2 DEF HeldOf
<1> QED BY <1>1, <1>4, <1>5, ArrivingFrame

\* An entry about something else is forgotten, or put back.
LEMMA ArrivingBeside ==
  ASSUME FieldTypeOK, Agree, drain.todo # {}, NEW i \in Items, Arriving(i),
         Forget \/ KeptForLater, ~(First.entry.kind = "item" /\ First.entry.i = i),
         UNCHANGED <<local, call>>, ServerLeaves(i)
  PROVE  Arriving(i)'
<1>1. PICK f : f = First
  OBVIOUS
<1>2. /\ f \in drain.todo /\ f.seq \in Seqs /\ f.entry \in Entry
      /\ ~(f.entry.kind = "item" /\ f.entry.i = i) /\ Claim(f.seq, f.entry)
  BY <1>1, FirstIsLeast DEF Claim
<1>3. f.seq \notin ItemSeqs(i)
  <2> SUFFICES ASSUME f.seq \in ItemSeqs(i) PROVE FALSE OBVIOUS
  <2>1. queue[f.seq] \in Entry /\ Claim(f.seq, queue[f.seq])
        /\ queue[f.seq].kind = "item" /\ queue[f.seq].i = i
    BY <1>2 DEF ItemSeqs, Pending, Claim, FieldTypeOK
  <2> QED BY <1>2, <2>1 DEF Agree, SameMatter
<1>4. /\ \A n \in Seqs \ {f.seq} : queue'[n] = queue[n]
      /\ drain'.todo = drain.todo \ {f} \/ drain'.todo = {}
      /\ queue'[f.seq] \in {Null, f.entry} /\ drain'.at # "sent"
  BY <1>1, <1>2 DEF Forget, KeptForLater, Off, FieldTypeOK
<1>5. ItemSeqs(i)' = ItemSeqs(i) /\ \A n \in ItemSeqs(i) : queue'[n] = queue[n]
  BY <1>2, <1>3, <1>4 DEF ItemSeqs, Pending
<1>6. HeldOf(i)' \in {HeldOf(i), {}}
  BY <1>2, <1>4 DEF HeldOf
<1>7. Saving(i) => Saving(i)'
  BY DEF Saving
<1> QED BY <1>4, <1>5, <1>6, <1>7, ArrivingFrame

\* The item's own entry is put back: if an older one, the last stays the last.
LEMMA ArrivingAgain ==
  ASSUME FieldTypeOK, drain.todo # {}, NEW i \in Items, Arriving(i),
         KeptForLater, First.entry.kind = "item" /\ First.entry.i = i, UNCHANGED <<local, call>>
  PROVE  Arriving(i)'
<1>1. PICK f : f = First
  OBVIOUS
<1>2. f \in drain.todo /\ f.seq \in Seqs /\ f.entry.kind = "item" /\ f.entry.i = i
      /\ f.seq \in Nat /\ f.entry # Null
  BY <1>1, FirstIsLeast, HeldTyped, NullIsNoEntry
<1>3. f \in HeldOf(i)
  BY <1>2 DEF HeldOf
<1>4. /\ \A n \in Seqs \ {f.seq} : queue'[n] = queue[n]
      /\ queue'[f.seq] = f.entry /\ drain'.todo = {} /\ drain'.at # "sent"
  BY <1>1, <1>2 DEF KeptForLater, Off, FieldTypeOK
<1>5. ItemSeqs(i)' = ItemSeqs(i) \cup {f.seq} /\ HeldOf(i)' = {}
  BY <1>2, <1>4 DEF ItemSeqs, Pending, HeldOf
<1>6. CASE Waiting(i)
  <2>1. PICK n \in Seqs : WaitsAs(i, n)
    BY <1>6 DEF Waiting
  <2>2. n \in Nat
    BY HeldTyped
  <2>3. f.seq <= n /\ queue'[n] = queue[n]
    BY <1>2, <1>3, <1>4, <2>1, <2>2 DEF WaitsAs
  <2>4. WaitsAs(i, n)'
    BY <1>4, <1>5, <2>1, <2>3 DEF WaitsAs
  <2> QED BY <2>4 DEF Arriving, Waiting
<1>7. CASE local[i] = Null \/ Saving(i)
  BY <1>7 DEF Arriving, Saving
<1> QED BY <1>3, <1>6, <1>7 DEF Arriving, Settled

\* The item's own entry is delivered: the last one, with the answer, or an
\* older one.
LEMMA ArrivingDelivered ==
  ASSUME FieldTypeOK, Agree, drain.at = "sent", drain.todo # {}, NEW i \in Items, Arriving(i),
         Forget, First.entry.kind = "item" /\ First.entry.i = i, UNCHANGED <<local, call>>,
         item'[i].response = First.entry.response, ServerLeaves(i)
  PROVE  Arriving(i)'
<1>1. PICK f : f = First
  OBVIOUS
<1>2. /\ f \in drain.todo /\ f.seq \in Seqs /\ f.entry.kind = "item" /\ f.entry.i = i
      /\ f.seq \in Nat /\ \A m \in drain.todo : m.seq \in Nat /\ f.seq <= m.seq
  BY <1>1, FirstIsLeast, HeldTyped
<1>3. f \in HeldOf(i)
  BY <1>2 DEF HeldOf
<1>4. /\ \A n \in Seqs \ {f.seq} : queue'[n] = queue[n]
      /\ queue'[f.seq] = Null /\ drain'.todo = drain.todo \ {f} /\ drain'.at # "sent"
  BY <1>1, <1>2 DEF Forget, FieldTypeOK
<1>5. ItemSeqs(i)' = ItemSeqs(i) \ {f.seq} /\ HeldOf(i)' = HeldOf(i) \ {f}
  BY <1>2, <1>4 DEF ItemSeqs, Pending, HeldOf
<1>6. CASE Waiting(i)
  <2>1. PICK n \in Seqs : WaitsAs(i, n)
    BY <1>6 DEF Waiting
  <2>2. n \in Nat /\ ItemSeqs(i) \subseteq Nat
    BY HeldTyped DEF ItemSeqs
  <2>3. CASE f.seq = n
    <3>1. f.entry = queue[n]
      BY <1>3, <2>1, <2>2, <2>3 DEF WaitsAs
    <3>2. item'[i].response = local'[i]
      BY <1>1, <2>1, <3>1 DEF WaitsAs
    <3>3. ItemSeqs(i)' = {}
      <4> SUFFICES ASSUME NEW k \in ItemSeqs(i), k # n PROVE FALSE
        BY <1>5, <2>3
      <4>1. k < n
        BY <2>1, <2>2 DEF WaitsAs
      <4>2. \E m \in HeldOf(i) : m.seq = k
        BY <1>3, <2>1, <2>3 DEF WaitsAs
      <4> QED BY <1>2, <2>2, <2>3, <4>1, <4>2 DEF HeldOf
    <3>4. HeldOf(i)' = {}
      <4> SUFFICES ASSUME NEW m \in HeldOf(i) PROVE m = f
        BY <1>5
      <4>1. m \in drain.todo /\ m.seq \in Nat /\ n <= m.seq
        BY <1>2, <2>3 DEF HeldOf
      <4>2. m.seq = n
        BY <2>1, <2>2, <4>1 DEF WaitsAs
      <4> QED BY <1>2, <2>3, <4>1, <4>2 DEF Agree
    <3>5. \A p \in UnderWay(i) : post[p].response = local[i]
      BY <1>1, <1>3, <2>1, <2>3 DEF WaitsAs
    <3>6. \A p \in UnderWay(i)' : post'[p].response = local[i]
      BY <3>5, UnderWayStays
    <3>7. Settled(i)'
      BY <3>2, <3>3, <3>4, <3>6 DEF Settled
    <3> QED BY <3>7 DEF Arriving
  <2>4. CASE f.seq # n
    <3>1. n \in ItemSeqs(i)' /\ queue'[n] = queue[n]
      BY <1>4, <1>5, <2>1, <2>4 DEF WaitsAs
    <3>2. (\E m \in HeldOf(i)' : m.seq = n) =>
            \A k \in ItemSeqs(i)' : \E m \in HeldOf(i)' : m.seq = k
      BY <1>5, <2>1 DEF WaitsAs
    <3>3. WaitsAs(i, n)'
      BY <1>4, <1>5, <2>1, <3>1, <3>2 DEF WaitsAs
    <3> QED BY <3>3 DEF Arriving, Waiting
  <2> QED BY <2>3, <2>4
<1>7. CASE local[i] = Null \/ Saving(i)
  BY <1>7 DEF Arriving, Saving
<1> QED BY <1>3, <1>6, <1>7 DEF Arriving, Settled

\* An answer is sent, and every other request for the item under way agrees.
LEMMA ArrivingSent ==
  ASSUME FieldTypeOK, NEW i \in Items, Arriving(i), SendItem, i \notin raced'
  PROVE  Arriving(i)'
<1>1. PICK p \in Posts :
        /\ PostItem(p, First.entry.i, First.entry.response)
        /\ drain' = [drain EXCEPT !.at = "sent", !.by = p]
        /\ First.entry.kind = "item" /\ drain.todo # {} /\ drain.at = "next"
        /\ First.entry.i = i =>
             \A q \in UnderWay(i) : post[q].response = First.entry.response
        /\ UNCHANGED <<store, call>>
  BY DEF SendItem, Sending
<1>2. drain \in Drains /\ post \in [Posts -> PostRequest]
  BY TypesAreBoth DEF DeviceTypeOK, TypeOK
<1>3. drain'.todo = drain.todo /\ First' = First /\ HeldOf(i)' = HeldOf(i)
  <2>1. drain'.todo = drain.todo BY <1>1, <1>2 DEF Drains
  <2> QED BY <2>1 DEF First, HeldOf
<1>4. /\ post' = [post EXCEPT ![p] = [op |-> "sent", i |-> First.entry.i,
                                       response |-> First.entry.response]]
      /\ UNCHANGED item
  BY <1>1 DEF PostItem, Serve
<1>5. /\ post'[p].i = First.entry.i /\ post'[p].response = First.entry.response
      /\ \A q \in Posts \ {p} : post'[q] = post[q]
  BY <1>2, <1>4
<1>6. /\ ItemSeqs(i)' = ItemSeqs(i) /\ UNCHANGED <<queue, local>>
      /\ Saving(i) => Saving(i)'
  BY <1>1 DEF store, ItemSeqs, Pending, Saving
<1>7. CASE First.entry.i # i
  <2>1. ServerLeaves(i)
    BY <1>4, <1>5, <1>7 DEF ServerLeaves, Settled
  <2>2. First' \notin HeldOf(i)'
    BY <1>3, <1>7 DEF HeldOf
  <2> QED BY <1>3, <1>6, <2>1, <2>2, ArrivingFrame
<1>8. CASE First.entry.i = i
  <2>1. First \in HeldOf(i)
    BY <1>1, <1>8, FirstIsLeast DEF HeldOf
  <2>2. \A q \in UnderWay(i)' : post'[q].response = First.entry.response
    BY <1>1, <1>5, <1>8 DEF UnderWay, Idle
  <2>3. CASE Waiting(i)
    <3>1. PICK n \in Seqs : WaitsAs(i, n)
      BY <2>3 DEF Waiting
    <3>2. First.seq = n => First.entry.response = local[i]
      BY <2>1, <3>1, HeldTyped DEF WaitsAs
    <3>3. WaitsAs(i, n)'
      BY <1>3, <1>6, <2>2, <3>1, <3>2 DEF WaitsAs
    <3> QED BY <3>3 DEF Arriving, Waiting
  <2>4. CASE local[i] = Null \/ Saving(i)
    BY <1>6, <2>4 DEF Arriving
  <2> QED BY <2>1, <2>3, <2>4 DEF Arriving, Settled
<1> QED BY <1>7, <1>8

\* An entry about something else is written.
LEMMA ArrivingAside ==
  ASSUME FieldTypeOK, NEW i \in Items, Arriving(i), local'[i] = local[i],
         Saving(i) => Saving(i)', NEW n \in Seqs, n \notin ItemSeqs(i),
         \A k \in Seqs \ {n} : queue'[k] = queue[k],
         ~(queue'[n].kind = "item" /\ queue'[n].i = i),
         drain' \in {drain, Start(queue')}, ServerLeaves(i)
  PROVE  Arriving(i)'
<1>1. ItemSeqs(i)' = ItemSeqs(i) /\ \A k \in ItemSeqs(i) : queue'[k] = queue[k]
  BY DEF ItemSeqs, Pending
<1>2. CASE UNCHANGED drain
  <2>1. HeldOf(i)' = HeldOf(i) /\ First' = First
    BY <1>2 DEF HeldOf, First
  <2> QED BY <1>1, <1>2, <2>1, ArrivingFrame
<1>3. CASE drain' = Start(queue')
  <2>1. /\ \A m \in drain'.todo : m.seq \in Pending(queue') /\ m.entry = queue'[m.seq]
        /\ \A k \in Pending(queue') : \E m \in drain'.todo : m.seq = k
    BY <1>3, StartHolds
  <2>2. \A m \in HeldOf(i)' : m.seq \in ItemSeqs(i)' /\ m.entry = queue'[m.seq]
    BY <2>1 DEF HeldOf, ItemSeqs
  <2>3. \A k \in ItemSeqs(i)' : \E m \in HeldOf(i)' : m.seq = k
    BY <2>1 DEF HeldOf, ItemSeqs
  <2>4. HoldsCopies(i)
    BY <1>1, <2>2, <2>3 DEF HoldsCopies
  <2>5. drain'.at # "sent"
    BY <1>3 DEF Start
  <2> QED BY <1>1, <2>4, <2>5, ArrivingFrame
<1> QED BY <1>2, <1>3

\* The answer is queued: the last of the item's entries has it.
LEMMA ArrivingQueued ==
  ASSUME FieldTypeOK, NEW c \in Calls, QueueAnswer(c), NEW i, i = call[c].i, i \notin raced'
  PROVE  Arriving(i)'
<1>1. PICK n \in Seqs :
        /\ queue' = [queue EXCEPT ![n] = [kind |-> "item", i |-> i, response |-> call[c].response]]
        /\ ~Overlapped(i, call[c].response, n)
        /\ drain' \in {drain, Start(queue')} /\ UNCHANGED local
  BY DEF QueueAnswer, Drain
<1>2. /\ local[i] = call[c].response
      /\ \A m \in HeldOf(i) : ~(m.seq >= n)
      /\ \A k \in ItemSeqs(i) : k > n => queue[k].response = call[c].response
  BY <1>1 DEF Overlapped
<1>3. i \in Items /\ call[c].response \in Answers
  BY CallTyped DEF QueueAnswer
<1>4. /\ \A k \in Seqs \ {n} : queue'[k] = queue[k]
      /\ queue'[n] # Null /\ queue'[n].kind = "item"
      /\ queue'[n].i = i /\ queue'[n].response = call[c].response
  BY <1>1, <1>3, CallEntry DEF FieldTypeOK
<1>5. n \in ItemSeqs(i)' /\ ItemSeqs(i)' \subseteq ItemSeqs(i) \cup {n} /\ ItemSeqs(i)' \subseteq Seqs
  BY <1>4 DEF ItemSeqs, Pending
<1>6. PICK l \in ItemSeqs(i)' : \A k \in ItemSeqs(i)' : k <= l
  BY <1>5, LastOfSome
<1>7. /\ n \in Nat /\ l \in Nat /\ n <= l /\ l \in Seqs
      /\ \A m \in HeldOf(i) : m.seq \in Nat
  BY <1>5, <1>6, HeldTyped DEF HeldOf
<1>8. queue'[l].response = local[i]
  BY <1>2, <1>4, <1>5, <1>6, <1>7
<1>9. CASE UNCHANGED drain
  <2>1. HeldOf(i)' = HeldOf(i) /\ First' = First
    BY <1>9 DEF HeldOf, First
  <2>2. \A m \in HeldOf(i)' : m.seq < l
    BY <1>2, <1>7, <2>1
  <2>3. \A m \in HeldOf(i)' : m.seq # l
    BY <1>7, <2>1, <2>2
  <2>4. WaitsAs(i, l)'
    BY <1>1, <1>6, <1>8, <2>2, <2>3 DEF WaitsAs
  <2> QED BY <1>7, <2>4 DEF Arriving, Waiting
<1>10. CASE drain' = Start(queue')
  <2>1. /\ \A m \in drain'.todo : m.seq \in Pending(queue') /\ m.entry = queue'[m.seq]
        /\ \A k \in Pending(queue') : \E m \in drain'.todo : m.seq = k
    BY <1>10, StartHolds
  <2>2. \A m \in HeldOf(i)' : m.seq \in ItemSeqs(i)' /\ m.entry = queue'[m.seq]
    BY <2>1 DEF HeldOf, ItemSeqs
  <2>3. \A k \in ItemSeqs(i)' : \E m \in HeldOf(i)' : m.seq = k
    BY <2>1 DEF HeldOf, ItemSeqs
  <2>4. \A m \in HeldOf(i)' : m.seq < l \/ (m.seq = l /\ m.entry = queue'[l])
    <3> SUFFICES ASSUME NEW m \in HeldOf(i)'
                 PROVE  m.seq < l \/ (m.seq = l /\ m.entry = queue'[l])
      OBVIOUS
    <3>1. m.seq \in Nat /\ m.seq <= l /\ m.entry = queue'[m.seq]
      BY <1>5, <1>6, <2>2, HeldTyped
    <3> QED BY <1>7, <3>1
  <2>5. drain'.at # "sent"
    BY <1>10 DEF Start
  <2>6. WaitsAs(i, l)'
    BY <1>1, <1>6, <1>8, <2>3, <2>4, <2>5 DEF WaitsAs
  <2> QED BY <1>7, <2>6 DEF Arriving, Waiting
<1> QED BY <1>1, <1>9, <1>10

----------------------------------------------------------------------------
(* What each step of the server leaves.                                    *)

LEMMA ServerIdles ==
  ASSUME UNCHANGED <<item, post>>, NEW i \in Items
  PROVE  ServerLeaves(i)
BY DEF ServerLeaves, Settled

LEMMA DeskLeaves ==
  ASSUME TypeOK, FreshItems, Grounded, NEW d \in Desk, DeskStep(d), NEW i \in Items
  PROVE  ServerLeaves(i)
<1>1. UNCHANGED post
  BY DEF DeskStep, Read, UpdateForClient, StartCheck, AddAdHocItem, SubmitForReview, FlagItem,
         ApproveCheck, ReturnForRework, CancelCheck, Begin, WriteStatus, WriteFlag, WriteItem,
         Fail, End
<1>2. CASE WriteItem(d)
  <2>1. ~Stored(desk[d].i) /\ desk[d].i \in Items
    BY <1>2 DEF WriteItem, FreshItems, TypeOK, DeskRequest
  <2>2. \A j \in Items : j # desk[d].i => item'[j] = item[j]
    BY <1>2 DEF WriteItem, TypeOK
  <2> QED BY <1>1, <2>1, <2>2 DEF ServerLeaves, Settled, Grounded, StoredItems
<1>3. CASE UNCHANGED item
  BY <1>1, <1>3 DEF ServerLeaves, Settled
<1> QED BY <1>2, <1>3 DEF DeskStep, Read, UpdateForClient, StartCheck, AddAdHocItem,
     SubmitForReview, FlagItem, ApproveCheck, ReturnForRework, CancelCheck, Begin, WriteStatus,
     WriteFlag, Fail

LEMMA PostLeaves ==
  ASSUME TypeOK, NEW p \in Posts, NEW i \in Items,
         PostCheck(p) \/ PostRead(p) \/ PostWrite(p) \/ PostFail(p)
  PROVE  ServerLeaves(i)
<1>1. post \in [Posts -> PostRequest] /\ item \in [Items -> Row]
  BY DEF TypeOK
<1>2. \A q \in Posts \ {p} : post'[q] = post[q]
  BY <1>1 DEF PostCheck, PostRead, PostWrite, PostFail, Serve
<1>3. post'[p] # Idle =>
        post[p] # Idle /\ post'[p].i = post[p].i /\ post'[p].response = post[p].response
  BY <1>1 DEF PostCheck, PostRead, PostWrite, PostFail, Serve, Idle
<1>4. CASE UNCHANGED item
  BY <1>2, <1>3, <1>4 DEF ServerLeaves, Settled
<1>5. CASE PostWrite(p)
  <2>1. /\ post[p] # Idle /\ post[p].i \in Items
        /\ item' = [item EXCEPT ![post[p].i].response = Answered(post[p])]
    BY <1>1, <1>5 DEF PostWrite, PostRequest, Idle
  <2>2. ASSUME local[i] # Null, Settled(i) PROVE item'[i].response = local[i]
    <3>1. CASE post[p].i = i
      <4>1. post[p].response = local[i]
        BY <2>1, <2>2, <3>1 DEF Settled, UnderWay
      <4>2. Answered(post[p]) = local[i]
        BY <2>2, <4>1 DEF Answered
      <4>3. item[i] \in Row BY <1>1
      <4> QED BY <1>1, <2>1, <3>1, <4>2, <4>3 DEF Row
    <3>2. CASE post[p].i # i
      BY <1>1, <2>1, <2>2, <3>2 DEF Settled
    <3> QED BY <3>1, <3>2
  <2> QED BY <1>2, <1>3, <2>2 DEF ServerLeaves
<1> QED BY <1>4, <1>5 DEF PostCheck, PostRead, PostFail

\* What the server wrote is what the device sent.
LEMMA ServedIsSent ==
  ASSUME FieldTypeOK, Sound, InFlight, NEW p \in Posts, Awaited(p), PostWrite(p)
  PROVE  item'[First.entry.i].response = First.entry.response
<1>1. /\ First.entry.kind = "item"
      /\ post[p].i = First.entry.i /\ post[p].response = First.entry.response
  BY DEF InFlight, Awaited
<1>2. First.entry.i \in Items /\ First.entry.response \in Answers
  BY <1>1, FirstIsLeast, ItemEntryTyped DEF Sound, Awaited
<1>3. item \in [Items -> Row]
  BY DEF FieldTypeOK, TypeOK
<1>4. Answered(post[p]) = First.entry.response
  BY <1>1, <1>2, ChecksAssumption DEF Answered
<1>5. item' = [item EXCEPT ![First.entry.i].response = First.entry.response]
  BY <1>1, <1>4 DEF PostWrite
<1> QED BY <1>2, <1>3, <1>5 DEF Row

----------------------------------------------------------------------------
(* The answers arrive.                                                     *)

\* The end of a request, whatever came of it.
LEMMA ArrivingOutcome ==
  ASSUME FieldTypeOK, Agree, drain.todo # {}, NEW i \in Items, Arriving(i),
         Delivered \/ DeadLettered \/ KeptForLater, i \notin dropped',
         UNCHANGED <<local, call>>, ServerLeaves(i),
         Delivered /\ ~DeadLettered /\ First.entry.kind = "item" =>
           drain.at = "sent" /\ item'[First.entry.i].response = First.entry.response
  PROVE  Arriving(i)'
<1>1. CASE ~(First.entry.kind = "item" /\ First.entry.i = i)
  BY <1>1, ArrivingBeside DEF Delivered, DeadLettered
<1>2. CASE First.entry.kind = "item" /\ First.entry.i = i
  <2>1. ~DeadLettered BY <1>2 DEF DeadLettered
  <2>2. CASE KeptForLater BY <1>2, <2>2, ArrivingAgain
  <2>3. CASE Delivered BY <1>2, <2>1, <2>3, ArrivingDelivered DEF Delivered
  <2> QED BY <2>1, <2>2, <2>3
<1> QED BY <1>1, <1>2

LEMMA DrainArrives ==
  ASSUME FieldTypeOK, Sound, Agree, InFlight, NEW i \in Items, Arriving(i),
         SendItem \/ SendPhoto \/ Lose \/ \E p \in Posts : ServeItem(p) \/ ServerDies(p),
         i \notin dropped' \cup raced'
  PROVE  Arriving(i)'
<1>1. CASE SendItem
  BY <1>1, ArrivingSent
<1>2. CASE SendPhoto
  <2>1. /\ UNCHANGED <<item, post, local, call>> /\ drain.todo # {}
        /\ First.entry.kind = "photo" /\ (Delivered \/ DeadLettered \/ KeptForLater)
    BY <1>2 DEF SendPhoto, Sending, checkVars
  <2> QED BY <2>1, ServerIdles, ArrivingOutcome
<1>3. CASE Lose
  <2>1. UNCHANGED <<item, post, local, call>> /\ drain.todo # {} /\ KeptForLater
    BY <1>3 DEF Lose, Sound, checkVars
  <2>2. ~(Delivered /\ First.entry.kind = "item") \/ ~Delivered
    BY <2>1 DEF Delivered, Forget, KeptForLater, Off
  <2> QED BY <2>1, <2>2, ServerIdles, ArrivingOutcome
<1>4. ASSUME NEW p \in Posts, ServeItem(p) \/ ServerDies(p) PROVE Arriving(i)'
  <2>1. TypeOK /\ UNCHANGED <<local, call>>
    BY <1>4, TypesAreBoth DEF ServeItem, ServerDies
  <2>2. PostCheck(p) \/ PostRead(p) \/ PostWrite(p) \/ PostFail(p)
    BY <1>4 DEF ServeItem, ServerDies
  <2>3. ServerLeaves(i) BY <2>1, <2>2, PostLeaves
  <2>4. CASE UNCHANGED <<queue, drain>>
    <3>1. Saving(i) => Saving(i)' BY <2>1 DEF Saving
    <3> QED BY <2>1, <2>3, <2>4, <3>1, ArrivingQuiet
  <2>5. CASE Awaited(p) /\ (Delivered \/ DeadLettered \/ KeptForLater)
    <3>1. drain.at = "sent" /\ drain.todo # {} BY <2>5 DEF Awaited, Sound
    <3>2. Delivered /\ ~DeadLettered => PostWrite(p)
      <4>1. Delivered => ~KeptForLater
        BY <3>1 DEF Delivered, Forget, KeptForLater, Off
      <4>2. CASE ServerDies(p)
        BY <2>5, <4>1, <4>2 DEF ServerDies
      <4>3. CASE ServeItem(p)
        <5>1. post[p].op = "write" \/ DeadLettered \/ ~Delivered
          BY <2>5, <4>3 DEF ServeItem, Delivered, Forget, Awaited
        <5> QED BY <4>3, <5>1 DEF ServeItem, PostCheck, PostRead
      <4> QED BY <1>4, <4>2, <4>3
    <3>3. Delivered /\ ~DeadLettered => item'[First.entry.i].response = First.entry.response
      BY <2>5, <3>2, ServedIsSent
    <3> QED BY <2>1, <2>3, <2>5, <3>1, <3>3, ArrivingOutcome
  <2> QED BY <1>4, <2>4, <2>5 DEF ServeItem, ServerDies
<1> QED BY <1>1, <1>2, <1>3, <1>4

LEMMA CallArrives ==
  ASSUME FieldTypeOK, Agree, Arrivals, NEW c \in Calls, CallStep(c),
         NEW i \in Items, i \notin dropped' \cup raced'
  PROVE  Arriving(i)'
<1>1. call \in [Calls -> Call] BY DEF FieldTypeOK
<1>2. ServerLeaves(i)
  <2>1. UNCHANGED checkVars
    BY DEF CallStep, SaveItemAnswer, CacheDoc, PutState, FindItemMutation, QueueAnswer
  <2> QED BY <2>1, ServerIdles DEF checkVars
<1>3. ASSUME NEW state, Await(c, state)
      PROVE  call'[c] = state /\ \A d \in Calls \ {c} : call'[d] = call[d]
  BY <1>1, <1>3 DEF Await
<1>4. ASSUME UNCHANGED <<queue, drain, dropped>>, raced \subseteq raced', local'[i] = local[i],
             \A d \in Calls \ {c} : call'[d] = call[d],
             call[c].op \in {"find", "queue"} =>
               call'[c].op \in {"find", "queue"} /\ call'[c].i = call[c].i
      PROVE  Arriving(i)'
  <2>1. Arriving(i) BY <1>4 DEF Arrivals
  <2>2. Saving(i) => Saving(i)' BY <1>4 DEF Saving
  <2> QED BY <1>2, <1>4, <2>1, <2>2, ArrivingQuiet
<1>5. CASE SaveItemAnswer(c) \/ CacheDoc(c)
  <2>1. /\ UNCHANGED <<queue, drain, dropped, raced, local>> /\ call[c] = Idle
        /\ \A d \in Calls \ {c} : call'[d] = call[d]
    BY <1>1, <1>5 DEF SaveItemAnswer, CacheDoc, Await, store, history
  <2> QED BY <1>4, <2>1 DEF Idle
<1>6. CASE PutState(c)
  <2>1. UNCHANGED <<queue, drain, dropped>> /\ call[c].op \in {"put", "cache"}
    BY <1>6 DEF PutState
  <2>2. call[c].had \in [Items -> Response] BY <2>1, CallTyped
  <2>3. CASE call[c].op = "put"
    <3>1. /\ local' = [call[c].had EXCEPT ![call[c].i] = call[c].response]
          /\ raced' = raced \cup ({j \in Items : call[c].had[j] # local[j]} \ {call[c].i})
          /\ Await(c, [op |-> "find", i |-> call[c].i, response |-> call[c].response])
      BY <1>6, <2>3 DEF PutState
    <3>2. /\ call'[c].op = "find" /\ call'[c].i = call[c].i
          /\ \A d \in Calls \ {c} : call'[d] = call[d]
      BY <1>3, <3>1
    <3>3. CASE i = call[c].i
      <4>1. Saving(i)' BY <3>2, <3>3 DEF Saving
      <4> QED BY <4>1 DEF Arriving
    <3>4. CASE i # call[c].i
      <4>1. local'[i] = local[i] BY <2>2, <3>1, <3>4
      <4> QED BY <1>4, <2>1, <2>3, <3>1, <3>2, <4>1
    <3> QED BY <3>3, <3>4
  <2>4. CASE call[c].op = "cache"
    <3>1. /\ local' = call[c].had
          /\ raced' = raced \cup {j \in Items : call[c].had[j] # local[j]}
          /\ Await(c, Idle)
      BY <1>6, <2>4 DEF PutState
    <3>2. \A d \in Calls \ {c} : call'[d] = call[d] BY <1>3, <3>1
    <3>3. local'[i] = local[i] BY <3>1
    <3> QED BY <1>4, <2>1, <2>4, <3>1, <3>2, <3>3
  <2> QED BY <2>1, <2>3, <2>4
<1>7. CASE FindItemMutation(c)
  <2>1. PICK n :
          Await(c, [op |-> "queue", i |-> call[c].i, response |-> call[c].response, at |-> n])
    BY <1>7 DEF FindItemMutation
  <2>2. /\ call'[c].op = "queue" /\ call'[c].i = call[c].i
        /\ \A d \in Calls \ {c} : call'[d] = call[d]
    BY <1>3, <2>1
  <2>3. UNCHANGED <<queue, drain, dropped, raced, local>>
    BY <1>7 DEF FindItemMutation, store, history
  <2> QED BY <1>4, <2>2, <2>3
<1>8. CASE QueueAnswer(c)
  <2>1. CASE i = call[c].i
    BY <1>8, <2>1, ArrivingQueued
  <2>2. CASE i # call[c].i
    <3>1. PICK n \in Seqs :
            /\ n = IF call[c].at = 0 THEN lastSeq + 1 ELSE call[c].at
            /\ queue' = [queue EXCEPT ![n] =
                           [kind |-> "item", i |-> call[c].i, response |-> call[c].response]]
            /\ drain' \in {drain, Start(queue')} /\ UNCHANGED local
            /\ raced' \in {raced \cup {call[c].i}, raced \ {call[c].i}}
            /\ dropped' = dropped \ {call[c].i}
            /\ Await(c, Idle)
      BY <1>8 DEF QueueAnswer, Drain
    <3>2. /\ Arriving(i)
          /\ Saving(i) => Saving(i)'
      <4>1. \A d \in Calls \ {c} : call'[d] = call[d] BY <1>3, <3>1
      <4> QED BY <2>2, <3>1, <4>1 DEF Arrivals, Saving
    <3>3. /\ \A k \in Seqs \ {n} : queue'[k] = queue[k]
          /\ queue'[n] = [kind |-> "item", i |-> call[c].i, response |-> call[c].response]
      BY <3>1 DEF FieldTypeOK
    <3>4. n \notin ItemSeqs(i)
      <4> SUFFICES ASSUME n \in ItemSeqs(i) PROVE FALSE OBVIOUS
      <4>1. /\ queue[n] \in Entry /\ Claim(n, queue[n])
            /\ queue[n].kind = "item" /\ queue[n].i = i
        BY DEF ItemSeqs, Pending, Claim, FieldTypeOK
      <4>2. CASE call[c].at = 0
        BY <3>1, <4>1, <4>2, HeldTyped DEF Agree
      <4>3. CASE call[c].at # 0
        <5>1. PICK e : e = [kind |-> "item", i |-> call[c].i, response |-> call[c].response]
          OBVIOUS
        <5>2. e \in Entry /\ e.kind = "item" /\ e.i = call[c].i
          BY <1>8, <5>1, CallTyped, CallEntry DEF QueueAnswer
        <5>3. Claim(n, e)
          BY <1>8, <3>1, <4>3, <5>1 DEF Claim, QueueAnswer
        <5> QED BY <2>2, <4>1, <5>2, <5>3 DEF Agree, SameMatter
      <4> QED BY <4>2, <4>3
    <3>5. ~(queue'[n].kind = "item" /\ queue'[n].i = i) BY <2>2, <3>3
    <3>6. drain' \in {drain, Start(queue')} /\ local'[i] = local[i] BY <3>1
    <3> QED BY <1>2, <3>2, <3>3, <3>4, <3>5, <3>6, ArrivingAside
  <2> QED BY <2>1, <2>2
<1> QED BY <1>5, <1>6, <1>7, <1>8 DEF CallStep

LEMMA PageArrives ==
  ASSUME FieldTypeOK, Agree, FreshItems, Grounded, NEW i \in Items, Arriving(i),
         \/ EndDrain \/ Online \/ QueuePhoto \/ OpenPage \/ HandleSubmit \/ SubmitFails
         \/ ClearState \/ ClearQueue \/ Reopen
         \/ \E d \in Desk : SubmitFromPage(d) \/ SubmitReply(d) \/ OfficeStep(d),
         i \notin dropped' \cup raced'
  PROVE  Arriving(i)'
<1>1. ASSUME UNCHANGED <<queue, local>>, Saving(i) => Saving(i)', ServerLeaves(i),
             \/ UNCHANGED drain
             \/ drain'.at # "sent" /\ drain'.todo \in {drain.todo, {}, Start(queue).todo}
      PROVE  Arriving(i)'
  BY <1>1, ArrivingQuiet
<1>2. ASSUME UNCHANGED call PROVE Saving(i) => Saving(i)'
  BY <1>2 DEF Saving
<1>3. ASSUME UNCHANGED checkVars PROVE ServerLeaves(i)
  BY <1>3, ServerIdles DEF checkVars
<1>4. CASE EndDrain \/ Online
  <2>1. UNCHANGED <<checkVars, queue, local, call>>
    BY <1>4 DEF EndDrain, Online, store
  <2>2. drain'.at # "sent" /\ drain'.todo \in {{}, Start(queue).todo}
    BY <1>4 DEF EndDrain, Online, Off, Start
  <2> QED BY <1>1, <1>2, <1>3, <2>1, <2>2
<1>5. CASE OpenPage \/ HandleSubmit \/ SubmitFails
  <2>1. UNCHANGED <<checkVars, queue, local, call, drain>>
    BY <1>5 DEF OpenPage, HandleSubmit, SubmitFails, store
  <2> QED BY <1>1, <1>2, <1>3, <2>1
<1>6. CASE Reopen
  <2>1. UNCHANGED <<checkVars, queue, local>> /\ ~Saving(i)
    BY <1>6 DEF Reopen, store
  <2>2. drain'.at # "sent" /\ drain'.todo \in {{}, Start(queue).todo}
    BY <1>6 DEF Reopen, Off, Start
  <2> QED BY <1>1, <1>3, <2>1, <2>2
<1>7. CASE ClearState
  BY <1>7 DEF ClearState, Arriving
<1>8. CASE ClearQueue
  <2>1. /\ \A n \in Seqs : queue'[n] = Null /\ UNCHANGED <<checkVars, local, call, drain>>
        /\ local[i] = Null \/ ItemSeqs(i) = {}
    BY <1>8 DEF ClearQueue
  <2>2. CASE local[i] = Null
    BY <2>1, <2>2, <1>8 DEF Arriving, ClearQueue
  <2>3. CASE ItemSeqs(i) = {}
    <3>1. ItemSeqs(i)' = {} BY <2>1 DEF ItemSeqs, Pending
    <3>2. UNCHANGED <<checkVars, local, call, drain>> BY <1>8 DEF ClearQueue
    <3>3. HeldOf(i)' = HeldOf(i) /\ First' = First BY <3>2 DEF HeldOf, First
    <3> QED BY <1>2, <1>3, <2>3, <3>1, <3>2, <3>3, ArrivingFrame
  <2> QED BY <2>1, <2>2, <2>3
<1>9. CASE QueuePhoto
  <2>1. /\ UNCHANGED <<checkVars, local, call>> /\ drain' \in {drain, Start(queue')}
        /\ lastSeq + 1 \in Seqs
        /\ queue' = [queue EXCEPT ![lastSeq + 1] = [kind |-> "photo"]]
    BY <1>9, FieldWorkAssumption DEF QueuePhoto, Drain, Seqs, FieldTypeOK
  <2>2. PICK n \in Seqs : n = lastSeq + 1 BY <2>1
  <2>3. queue'[n].kind = "photo" /\ \A k \in Seqs \ {n} : queue'[k] = queue[k]
    BY <2>1, <2>2 DEF FieldTypeOK
  <2>4. n \notin ItemSeqs(i)
    <3>1. n \in ItemSeqs(i) => queue[n] \in Entry /\ Claim(n, queue[n])
      BY DEF ItemSeqs, Pending, Claim, FieldTypeOK
    <3> QED BY <2>2, <3>1, HeldTyped DEF Agree
  <2> QED BY <1>2, <1>3, <2>1, <2>3, <2>4, ArrivingAside
<1>10. ASSUME NEW d \in Desk, SubmitFromPage(d) \/ SubmitReply(d) \/ OfficeStep(d)
       PROVE  Arriving(i)'
  <2>1. DeskStep(d) /\ UNCHANGED <<queue, drain, local, call>>
    BY <1>10 DEF SubmitFromPage, SubmitReply, OfficeStep, DeskStep, Read, deviceVars, store
  <2>2. ServerLeaves(i) BY <2>1, DeskLeaves, TypesAreBoth
  <2> QED BY <1>1, <1>2, <2>1, <2>2
<1> QED BY <1>4, <1>5, <1>6, <1>7, <1>8, <1>9, <1>10

LEMMA ArrivalsKept ==
  ASSUME FieldTypeOK, Sound, Agree, FreshItems, InFlight, Grounded, Arrivals, FieldNext
  PROVE  Arrivals'
<1> SUFFICES ASSUME NEW i \in Items, i \notin dropped' \cup raced' PROVE Arriving(i)'
  BY DEF Arrivals
<1>1. ASSUME NEW c \in Calls, CallStep(c) PROVE Arriving(i)'
  BY <1>1, CallArrives
<1>2. ASSUME dropped \subseteq dropped', raced \subseteq raced' PROVE Arriving(i)
  BY <1>2 DEF Arrivals
<1>3. CASE SendItem \/ SendPhoto \/ Lose \/ \E p \in Posts : ServeItem(p) \/ ServerDies(p)
  <2>1. dropped \subseteq dropped' /\ raced \subseteq raced'
    BY <1>3 DEF SendItem, SendPhoto, Lose, ServeItem, ServerDies, Delivered, DeadLettered,
       KeptForLater
  <2> QED BY <1>2, <1>3, <2>1, DrainArrives
<1>4. CASE \/ EndDrain \/ Online \/ QueuePhoto \/ OpenPage \/ HandleSubmit \/ SubmitFails
           \/ ClearState \/ ClearQueue \/ Reopen
           \/ \E d \in Desk : SubmitFromPage(d) \/ SubmitReply(d) \/ OfficeStep(d)
  <2>1. dropped \subseteq dropped' /\ raced \subseteq raced'
    BY <1>4 DEF EndDrain, Online, QueuePhoto, OpenPage, HandleSubmit, SubmitFails, ClearState,
       ClearQueue, Reopen, SubmitFromPage, SubmitReply, OfficeStep, deviceVars, history
  <2> QED BY <1>2, <1>4, <2>1, PageArrives
<1> QED BY <1>1, <1>3, <1>4 DEF FieldNext, DrainStep

\* With nothing of an item waiting on the device, the server has the answer the
\* device keeps, however many requests are lost, given up or repeated, served
\* late or side by side, and however saves overlap - except an answer the
\* engineer was told of (a dead letter), or one that something raced with: a
\* save or a cached document that wrote an older copy of the answers over it;
\* another save of the item, or the drain with an older copy in hand, as its
\* entry was queued; an earlier request, given up but still under way with
\* another answer when the answer was sent; the tab's death or clearCheck
\* between its two writes (checkQueue.ts: drain, saveItemAnswer, cacheDoc,
\* clearCheck).
THEOREM AnswersArrive == FieldSpec => []SyncedUnlessRaced
<1> DEFINE I == FieldTypeOK /\ Sound /\ Agree
           J == FreshItems /\ InFlight /\ Grounded /\ Arrivals
<1>1. FieldInit => J
  BY DEF FieldInit, Init, Idle, FreshItems, DeviceInit, InFlight, Off, Grounded, Known, Arrivals,
         Arriving
<1>2. I /\ J /\ [FieldNext]_vars => J'
  <2> SUFFICES ASSUME I, J, [FieldNext]_vars PROVE J' OBVIOUS
  <2>1. FreshItems'
    BY StepIsServerStep, FreshKept, TypesAreBoth
  <2>2. CASE UNCHANGED vars
    <3>1. InFlight'
      BY <2>2 DEF vars, checkVars, deviceVars, InFlight, First, Idle
    <3>2. Grounded'
      BY <2>2 DEF vars, checkVars, deviceVars, store, Grounded, Known, StoredItems, Stored
    <3>3. ASSUME NEW i \in Items, Arriving(i) PROVE Arriving(i)'
      <4>1. UNCHANGED <<item, post, local, queue, call, drain>>
        BY <2>2 DEF vars, checkVars, deviceVars, store
      <4>2. ServerLeaves(i) /\ (Saving(i) => Saving(i)')
        BY <4>1, ServerIdles DEF Saving
      <4> QED BY <3>3, <4>1, <4>2, ArrivingQuiet
    <3>4. Arrivals'
      BY <2>2, <3>3 DEF vars, deviceVars, history, Arrivals
    <3> QED BY <2>1, <3>1, <3>2, <3>4
  <2>3. CASE FieldNext
    BY <2>1, <2>3, InFlightKept, GroundedKept, ArrivalsKept
  <2> QED BY <2>2, <2>3
<1>3. J => SyncedUnlessRaced
  BY DEF Arrivals, Arriving, Settled, Waiting, WaitsAs, SyncedUnlessRaced, OnServer
<1> QED BY <1>1, <1>2, <1>3, AgreeHolds, PTL DEF FieldSpec
=============================================================================
