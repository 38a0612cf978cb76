------------------------------- MODULE Checks -------------------------------
(***************************************************************************)
(* The rows of one check and the requests that change them.                *)
(*   checks/checks.service.ts                                              *)
(*                                                                         *)
(* Every handler reads the check (getForClient), decides, and then writes  *)
(* without a condition: a request is a read step and a write step, and the *)
(* process may die between them.  The desk sessions serve what people do   *)
(* on the page; the posts serve the answers a device replays, each of      *)
(* which arrives, reads the check, then the item, then writes the item.    *)
(* The check and the items that a request of the page reads with it are    *)
(* read at one instant, which loses nothing with one desk session, where   *)
(* the review properties are claimed: nobody else changes the status then. *)
(*                                                                         *)
(* Left out: dates, people, summaries and the audit trail; the pass rate;  *)
(* follow-ons, which change no row of the check.                           *)
(***************************************************************************)
EXTENDS Naturals

CONSTANTS
  Null,
  Items,          \* ids of the items the check has or will have
  TemplateItems,  \* those it is created with
  Answers,        \* responses: PASS, FAIL, NA, free text
  Replies,        \* what replayed updates carry: answers, or Null for a note alone
  Desk,           \* sessions that serve the page
  Posts           \* sessions that serve replayed answers

ASSUME ChecksAssumption ==
  /\ TemplateItems \subseteq Items
  /\ Null \notin Answers
  /\ Replies \subseteq Answers \cup {Null}

VARIABLES
  status,    \* Check.status
  item,      \* the CheckItem rows
  flags,     \* the items with reworkFlagged
  desk,      \* the request each desk session serves
  post       \* the item update each post session serves

checkVars == <<status, item, flags, desk, post>>

PreStart == {"DRAFT", "SCHEDULED", "ASSIGNED"}
Statuses == PreStart \cup
            {"IN_PROGRESS", "PENDING_REVIEW", "COMPLETED", "CANCELLED"}
\* No handler writes CLOSED.

Response == Answers \cup {Null}
Row == [db : {"absent", "stored"}, required : BOOLEAN, response : Response]

Idle == [op |-> "idle"]

DeskRequest ==
  [op : {"idle", "start", "submit", "approve", "return", "cancel"}]
  \cup [op : {"update"}, to : PreStart]
  \cup [op : {"flag", "unflag"}, i : Items]
  \cup [op : {"add"}, i : Items, required : BOOLEAN]

PostRequest ==
  [op : {"idle"}]
  \cup [op : {"sent", "read"}, i : Items, response : Replies]
  \cup [op : {"write"}, i : Items, response : Replies, seen : Response]

Stored(i) == item[i].db = "stored"

\* requiredUnanswered
Unanswered == {i \in Items : Stored(i) /\ item[i].required /\ item[i].response = Null}

----------------------------------------------------------------------------
(* The reads: each handler's refusals.                                     *)

Begin(d, request) ==
  /\ desk[d] = Idle
  /\ desk' = [desk EXCEPT ![d] = request]
  /\ UNCHANGED <<status, item, flags, post>>

\* updateForClient: the new status is computed from the date and the assignee
\* the check will have, either of which the request may set, clear or keep.
UpdateForClient(d) ==
  /\ status \in PreStart
  /\ \E to \in PreStart : Begin(d, [op |-> "update", to |-> to])

StartCheck(d) == status \in PreStart /\ Begin(d, [op |-> "start"])

\* The items whose creation is under way: each creation draws an id of its own.
Adding == {desk[e].i : e \in {f \in Desk : desk[f].op = "add"}}

\* Mutant of AddAdHocItem: items may still be added while the check is reviewed.
AddAdHocItemAnyTime(d) ==
  \E i \in Items, required \in BOOLEAN :
    /\ ~Stored(i) /\ i \notin Adding
    /\ Begin(d, [op |-> "add", i |-> i, required |-> required])

AddAdHocItem(d) ==
  /\ status \in PreStart \cup {"IN_PROGRESS"}
  /\ \E i \in Items, required \in BOOLEAN :
       /\ ~Stored(i) /\ i \notin Adding
       /\ Begin(d, [op |-> "add", i |-> i, required |-> required])

SubmitForReview(d) ==
  /\ status = "IN_PROGRESS"
  /\ Unanswered = {}
  /\ Begin(d, [op |-> "submit"])

\* Mutant of FlagItem: an item of a returned check can still be flagged.
FlagItemReturned(d) ==
  /\ status \in {"PENDING_REVIEW", "ASSIGNED"}
  /\ \E i \in Items, op \in {"flag", "unflag"} :
       Stored(i) /\ Begin(d, [op |-> op, i |-> i])

\* flagItem and unflagItem
FlagItem(d) ==
  /\ status = "PENDING_REVIEW"
  /\ \E i \in Items, op \in {"flag", "unflag"} :
       Stored(i) /\ Begin(d, [op |-> op, i |-> i])

ApproveCheck(d) == status = "PENDING_REVIEW" /\ Begin(d, [op |-> "approve"])

ReturnForRework(d) == status = "PENDING_REVIEW" /\ Begin(d, [op |-> "return"])

CancelCheck(d) ==
  /\ status \notin {"COMPLETED", "CANCELLED"}
  /\ Begin(d, [op |-> "cancel"])

Read(d) ==
  \/ UpdateForClient(d) \/ StartCheck(d) \/ AddAdHocItem(d) \/ SubmitForReview(d)
  \/ FlagItem(d) \/ ApproveCheck(d) \/ ReturnForRework(d) \/ CancelCheck(d)

----------------------------------------------------------------------------
(* The writes.                                                             *)

End(d) == desk' = [desk EXCEPT ![d] = Idle] /\ UNCHANGED post

\* Mutant of StatusAfter: approving closes the check.
StatusAfterClosing(request) ==
  CASE request.op = "update" -> request.to
    [] request.op = "start" -> "IN_PROGRESS"
    [] request.op = "submit" -> "PENDING_REVIEW"
    [] request.op = "approve" -> "CLOSED"
    [] request.op = "return" -> "ASSIGNED"
    [] request.op = "cancel" -> "CANCELLED"

\* The status each request writes.
StatusAfter(request) ==
  CASE request.op = "update" -> request.to
    [] request.op = "start" -> "IN_PROGRESS"
    [] request.op = "submit" -> "PENDING_REVIEW"
    [] request.op = "approve" -> "COMPLETED"
    [] request.op = "return" -> "ASSIGNED"
    [] request.op = "cancel" -> "CANCELLED"

\* Submitting clears the flags in the same transaction.
WriteStatus(d) ==
  /\ desk[d].op \in {"update", "start", "submit", "approve", "return", "cancel"}
  /\ status' = StatusAfter(desk[d])
  /\ flags' = IF desk[d].op = "submit" THEN {} ELSE flags
  /\ End(d)
  /\ UNCHANGED item

WriteFlag(d) ==
  /\ desk[d].op \in {"flag", "unflag"}
  /\ flags' = IF desk[d].op = "flag" THEN flags \cup {desk[d].i}
                                     ELSE flags \ {desk[d].i}
  /\ End(d)
  /\ UNCHANGED <<status, item>>

WriteItem(d) ==
  /\ desk[d].op = "add"
  /\ item' = [item EXCEPT ![desk[d].i] =
                [db |-> "stored", required |-> desk[d].required, response |-> Null]]
  /\ End(d)
  /\ UNCHANGED <<status, flags>>

\* The process dies between the read and the write.
Fail(d) ==
  /\ desk[d] # Idle
  /\ End(d)
  /\ UNCHANGED <<status, item, flags>>

DeskStep(d) == Read(d) \/ WriteStatus(d) \/ WriteFlag(d) \/ WriteItem(d) \/ Fail(d)

----------------------------------------------------------------------------
(* updateItem: the request arrives, and reads the check, then the item.    *)

Locked == status \in {"PENDING_REVIEW", "COMPLETED"}

Serve(p, request) == post' = [post EXCEPT ![p] = request] /\ UNCHANGED desk

PostItem(p, i, response) ==
  /\ post[p] = Idle
  /\ Serve(p, [op |-> "sent", i |-> i, response |-> response])
  /\ UNCHANGED <<status, item, flags>>

\* Answered with 400 while the check is under review or completed.
PostCheck(p) ==
  /\ post[p].op = "sent"
  /\ Serve(p, IF Locked THEN Idle
               ELSE [op |-> "read", i |-> post[p].i, response |-> post[p].response])
  /\ UNCHANGED <<status, item, flags>>

PostRead(p) ==
  /\ post[p].op = "read"
  /\ Serve(p, IF Stored(post[p].i)
                THEN [op |-> "write", i |-> post[p].i, response |-> post[p].response,
                      seen |-> item[post[p].i].response]
                ELSE Idle)
  /\ UNCHANGED <<status, item, flags>>

\* dto.response ?? item.response
Answered(request) == IF request.response = Null THEN request.seen ELSE request.response

PostWrite(p) ==
  /\ post[p].op = "write"
  /\ item' = [item EXCEPT ![post[p].i].response = Answered(post[p])]
  /\ Serve(p, Idle)
  /\ UNCHANGED <<status, flags>>

PostFail(p) ==
  /\ post[p] # Idle
  /\ Serve(p, Idle)
  /\ UNCHANGED <<status, item, flags>>

PostStep(p) ==
  \/ \E i \in Items, response \in Replies : PostItem(p, i, response)
  \/ PostCheck(p) \/ PostRead(p) \/ PostWrite(p) \/ PostFail(p)

----------------------------------------------------------------------------
\* createForClient: the template's items are copied.
Init ==
  /\ status \in {"DRAFT", "SCHEDULED"}
  /\ item \in [Items -> Row]
  /\ \A i \in Items :
       /\ item[i].response = Null
       /\ Stored(i) <=> i \in TemplateItems
       /\ ~Stored(i) => ~item[i].required
  /\ flags = {}
  /\ desk = [d \in Desk |-> Idle]
  /\ post = [p \in Posts |-> Idle]

Next == (\E d \in Desk : DeskStep(d)) \/ (\E p \in Posts : PostStep(p))

Spec == Init /\ [][Next]_checkVars

----------------------------------------------------------------------------
TypeOK ==
  /\ status \in Statuses
  /\ item \in [Items -> Row]
  /\ flags \in SUBSET Items
  /\ desk \in [Desk -> DeskRequest]
  /\ post \in [Posts -> PostRequest]

Phase ==
  CASE status \in PreStart \cup {"IN_PROGRESS"} -> "work"
    [] status = "PENDING_REVIEW" -> "review"
    [] status = "COMPLETED" -> "done"
    [] status = "CANCELLED" -> "cancelled"

\* The reviewer's view of the check.
Review == INSTANCE CheckReview WITH phase <- Phase, open <- Unanswered

\* With one desk session, and replayed updates that come one at a time or all
\* carry an answer, whatever these interleave with, a check does what
\* CheckReview promises: submitForReview's gate holds at the write and
\* afterwards although no statement re-checks it.
KeepsReviewPromise == Review!Spec

\* Rework notes a returned check carries stay as the reviewer left them until
\* the next submission (flagItem, unflagItem and submitForReview).
FlagsKeptDuringRework ==
  [][flags' # flags => status = "PENDING_REVIEW" \/ status' = "PENDING_REVIEW"]_checkVars
=============================================================================
