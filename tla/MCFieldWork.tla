---------------------------- MODULE MCFieldWork ----------------------------
(***************************************************************************)
(* Small instances of FieldWork for TLC.  Every behaviour stays in one     *)
(* focus, chosen at the start, so that the instances add up instead of     *)
(* multiplying:                                                            *)
(*   saves     two calls on one item, or the cached document, overlap      *)
(*   items     a call on each of two items, one of them added ad hoc       *)
(*   requests  two requests for one item are under way                     *)
(*   photos    an answer and a photo, or two photos                        *)
(*   clear     the page submits, and answers are saved meanwhile           *)
(*   late      requests are under way while the check is reviewed          *)
(*   review    everything the office does, with an item added ad hoc       *)
(***************************************************************************)
EXTENDS FieldWork

CONSTANTS i1, i2, d1, p1, p2, c1, c2

CONSTANT Foci  \* those a run covers

VARIABLE focus

mcVars == <<vars, focus>>

MCInit ==
  /\ FieldInit
  /\ status = "SCHEDULED" /\ ~item[i1].required
  /\ focus \in Foci

\* What one step may begin: the office's requests, and the calls on the device.
Ops(ops) == \A d \in Desk : desk'[d].op \in {"idle"} \cup ops
OneCall == call'[c2] = Idle /\ call'[c1].op # "cache"
About(c, i, answers) ==
  call'[c].op \notin {"idle", "cache"} => call'[c].i = i /\ call'[c].response \in answers
OneRequest == post'[p2] = Idle
NoPhoto == \A n \in Seqs : queue'[n] # Null => queue'[n].kind = "item"
NoSubmission == page'.at \in {"away", "working"}

InFocus ==
  CASE focus = "saves" ->
         /\ Ops({"start"}) /\ NoSubmission /\ NoPhoto /\ OneRequest
         /\ \A c \in Calls : About(c, i1, Answers)
         /\ troubles' = 0
    [] focus = "items" ->
         /\ Ops({"start", "add"}) /\ NoSubmission /\ NoPhoto /\ OneRequest
         /\ About(c1, i1, Answers) /\ About(c2, i2, {"PASS"})
         /\ \A c \in Calls : call'[c].op # "cache"
         /\ \A d \in Desk : desk'[d].op = "add" => ~desk'[d].required
         /\ troubles' = 0
    [] focus = "requests" ->
         Ops({"start"}) /\ NoSubmission /\ NoPhoto /\ OneCall /\ About(c1, i1, Answers)
    [] focus = "photos" ->
         Ops({"start"}) /\ NoSubmission /\ OneCall /\ About(c1, i1, Answers) /\ OneRequest
    [] focus = "clear" ->
         /\ Ops({"start", "submit", "return"}) /\ NoPhoto /\ OneRequest
         /\ OneCall /\ About(c1, i1, {"PASS"})
    [] focus = "late" ->
         /\ Ops({"start", "submit", "return", "approve"}) /\ NoSubmission /\ NoPhoto
         /\ OneCall /\ About(c1, i1, {"PASS"})
         /\ lastSeq' <= 1
    [] focus = "review" ->
         /\ NoSubmission /\ NoPhoto /\ OneCall /\ OneRequest /\ About(c1, i2, {"PASS"})
         /\ \A d \in Desk : desk'[d].op \in {"flag", "unflag"} => desk'[d].i = i2
         /\ lastSeq' <= 1

MCNext == FieldNext /\ InFocus /\ UNCHANGED focus

MCSpec == MCInit /\ [][MCNext]_mcVars /\ WF_vars(DrainStep)
=============================================================================
