----------------------------- MODULE FieldWork -----------------------------
(***************************************************************************)
(* An engineer's device working a check with an unreliable connection: the *)
(* answers and the replay queue it keeps in IndexedDB, the drain that      *)
(* replays the queue to the server of module Checks, and the page that     *)
(* submits the check.                                                      *)
(*   web/src/lib/offline/checkQueue.ts, db.ts, useCheckExecutionSync.ts    *)
(*   web/src/routes/CheckDetailPage.tsx                                    *)
(*                                                                         *)
(* Every read and write of IndexedDB is a transaction of its own, so that  *)
(* calls of saveItemAnswer and cacheDoc overlap with each other and with   *)
(* the drain.  A request may be lost, the device may stop waiting for its  *)
(* answer while it is still on its way or being served, and the tab may be *)
(* closed and reopened at any point: IndexedDB survives, the drain and the *)
(* rest of the memory do not.                                              *)
(*                                                                         *)
(* Left out: captions, notes without an answer, cached check documents,    *)
(* other checks' entries, other devices and a second tab of this one, and  *)
(* the screens.                                                            *)
(***************************************************************************)
EXTENDS Checks

CONSTANTS
  Calls,       \* bound: calls of saveItemAnswer and cacheDoc under way at once
  MaxSeq,      \* bound: entries the queue ever numbers
  MaxTroubles  \* bound: requests lost or given up, and tabs reopened

ASSUME FieldWorkAssumption ==
  /\ Answers \subseteq Replies
  /\ MaxSeq \in Nat /\ MaxTroubles \in Nat

VARIABLES
  local,     \* checkState.answers
  queue,     \* mutationQueue, by seq
  lastSeq,   \* its auto-increment key
  call,      \* where each call of saveItemAnswer or cacheDoc has come to
  drain,     \* the drain's stage, what is left of its snapshot, and the post
             \* session it waits for
  page,      \* the check's page, and the session serving its submission
  troubles,
  dropped,   \* items whose answer was dead-lettered (history)
  raced,     \* items whose replay something raced with (history)
  uploads    \* copies of each photo on the server (history)

store == <<local, queue, lastSeq>>
history == <<dropped, raced, uploads>>
deviceVars == <<store, call, drain, page, troubles, history>>
vars == <<checkVars, deviceVars>>

Seqs == 1..MaxSeq
Entry == [kind : {"item"}, i : Items, response : Answers] \cup [kind : {"photo"}]

Call ==
  [op : {"idle"}]
  \cup [op : {"put"}, i : Items, response : Answers, had : [Items -> Response]]
  \cup [op : {"find"}, i : Items, response : Answers]
  \cup [op : {"queue"}, i : Items, response : Answers, at : {0} \cup Seqs]
  \cup [op : {"cache"}, had : [Items -> Response]]

ASSUME NullIsNoEntry == Null \notin Entry

At(stage) == [at |-> stage, by |-> Null]

Pending(q) == {n \in Seqs : q[n] # Null}

ItemSeqs(i) == {n \in Pending(queue) : queue[n].kind = "item" /\ queue[n].i = i}

Trouble == troubles < MaxTroubles /\ troubles' = troubles + 1

----------------------------------------------------------------------------
(* The replay.  It works from the copies it read when it started, lowest   *)
(* key first.  What it does with a reply is one step with the reply's      *)
(* arrival: a save between the two is a save before it arrived.            *)

Off == [at |-> "off", todo |-> {}, by |-> Null]
First == CHOOSE m \in drain.todo : \A n \in drain.todo : m.seq <= n.seq

Start(q) == [at |-> "next", todo |-> {[seq |-> n, entry |-> q[n]] : n \in Pending(q)},
             by |-> Null]

\* drain() called when the queue is q: it returns at once while another one
\* runs, and when the device knows it is offline.
Drain(q) == drain' \in (IF drain.at = "off" THEN {drain, Start(q)} ELSE {drain})

Sending(kind) == drain.at = "next" /\ drain.todo # {} /\ First.entry.kind = kind

Awaited(p) == drain.at = "sent" /\ drain.by = p

HeldOf(i) == {m \in drain.todo : m.entry.kind = "item" /\ m.entry.i = i}

Forget ==
  /\ queue' = [queue EXCEPT ![First.seq] = Null]
  /\ drain' = [at |-> "next", todo |-> drain.todo \ {First}, by |-> Null]
  /\ UNCHANGED troubles

\* Mutant of Delivered: the entry is sent but not deleted.
DeliveredKept ==
  /\ drain' = [at |-> "next", todo |-> drain.todo \ {First}, by |-> Null]
  /\ UNCHANGED <<queue, troubles, dropped>>

Delivered == Forget /\ UNCHANGED dropped

\* Mutant of DeadLettered: the entry stays, at the head of the snapshot.
DeadLetteredWedged ==
  drain' = [drain EXCEPT !.at = "next"] /\ UNCHANGED <<queue, dropped, troubles>>

\* 4xx: dropped with a warning, so that it cannot block what is behind it.
DeadLettered ==
  /\ Forget
  /\ dropped' = IF First.entry.kind = "item" THEN dropped \cup {First.entry.i} ELSE dropped

\* Mutant of KeptForLater: an entry whose request failed is dropped.
KeptForLaterNot ==
  /\ Trouble
  /\ queue' = [queue EXCEPT ![First.seq] = Null]
  /\ drain' = Off
  /\ UNCHANGED dropped

\* No answer, or 5xx: the copy is put back and the drain stops.
KeptForLater ==
  /\ Trouble
  /\ queue' = [queue EXCEPT ![First.seq] = First.entry]
  /\ drain' = Off
  /\ UNCHANGED dropped

\* The requests for item i that are on their way or being served.
UnderWay(i) == {p \in Posts : post[p] # Idle /\ post[p].i = i}

\* An earlier request the device gave up on may be under way with another
\* answer: the server will write the two in any order.
SendItem ==
  /\ Sending("item")
  /\ LET i == First.entry.i
         response == First.entry.response
     IN \E p \in Posts :
          /\ PostItem(p, i, response)
          /\ drain' = [drain EXCEPT !.at = "sent", !.by = p]
          /\ raced' = IF \E q \in UnderWay(i) : post[q].response # response
                        THEN raced \cup {i} ELSE raced
  /\ UNCHANGED <<store, call, page, troubles, dropped, uploads>>

\* The server works on the item whether or not the device still waits for it.
ServeItem(p) ==
  /\ PostCheck(p) \/ PostRead(p) \/ PostWrite(p)
  /\ IF post'[p] # Idle \/ ~Awaited(p) THEN UNCHANGED <<queue, drain, troubles, dropped>>
     ELSE IF post[p].op = "write" THEN Delivered ELSE DeadLettered
  /\ UNCHANGED <<local, lastSeq, call, page, raced, uploads>>

\* uploadAttachment: stored, refused as too large or of a wrong type, or
\* stored with its reply lost.
SendPhoto ==
  /\ Sending("photo")
  /\ \/ DeadLettered /\ UNCHANGED uploads
     \/ /\ Delivered \/ KeptForLater
        /\ uploads' = [uploads EXCEPT ![First.seq] = @ + 1]
  /\ UNCHANGED <<checkVars, local, lastSeq, call, page, raced>>

\* The device has no answer: what it sent was lost, or goes on without it.  (A
\* photo that does is counted in SendPhoto when it is given up.)
Lose ==
  /\ drain.at = "sent" \/ (drain.at = "next" /\ drain.todo # {})
  /\ KeptForLater
  /\ UNCHANGED <<checkVars, local, lastSeq, call, page, raced, uploads>>

\* A request is lost on its way, or the server dies while it works on it.
ServerDies(p) ==
  /\ PostFail(p)
  /\ IF Awaited(p) THEN KeptForLater ELSE Trouble /\ UNCHANGED <<queue, drain, dropped>>
  /\ UNCHANGED <<local, lastSeq, call, page, raced, uploads>>

EndDrain ==
  /\ drain.at = "next" /\ drain.todo = {}
  /\ drain' = Off
  /\ UNCHANGED <<checkVars, store, call, page, troubles, history>>

DrainStep == SendItem \/ (\E p \in Posts : ServeItem(p)) \/ SendPhoto \/ EndDrain

\* The `online` event calls drain().
Online ==
  /\ drain.at = "off"
  /\ drain' = Start(queue)
  /\ UNCHANGED <<checkVars, store, call, page, troubles, history>>

----------------------------------------------------------------------------
(* Saving an answer, and caching the check's document, which the page does *)
(* after every read of the check.  Both write the record of the check's    *)
(* answers whole, from the copy they read.                                 *)

Await(c, state) == call' = [call EXCEPT ![c] = state]

SaveItemAnswer(c) ==
  /\ call[c] = Idle /\ page.at # "away"
  /\ \E i \in Items, response \in Answers :
       /\ Stored(i)
       /\ Await(c, [op |-> "put", i |-> i, response |-> response, had |-> local])
  /\ UNCHANGED <<checkVars, store, drain, page, troubles, history>>

CacheDoc(c) ==
  /\ call[c] = Idle /\ page.at # "away"
  /\ Await(c, [op |-> "cache", had |-> local])
  /\ UNCHANGED <<checkVars, store, drain, page, troubles, history>>

PutState(c) ==
  LET q == call[c]
      changed == {j \in Items : q.had[j] # local[j]}
  IN /\ \/ /\ q.op = "put"
           /\ local' = [q.had EXCEPT ![q.i] = q.response]
           /\ raced' = raced \cup (changed \ {q.i})
           /\ Await(c, [op |-> "find", i |-> q.i, response |-> q.response])
        \/ /\ q.op = "cache"
           /\ local' = q.had
           /\ raced' = raced \cup changed
           /\ Await(c, Idle)
     /\ UNCHANGED <<checkVars, queue, lastSeq, drain, page, troubles, dropped, uploads>>

\* The first of the item's pending entries, or none.
FindItemMutation(c) ==
  /\ call[c].op = "find"
  /\ LET i == call[c].i
     IN \E n \in {0} \cup ItemSeqs(i) :
          /\ n = 0 <=> ItemSeqs(i) = {}
          /\ \A k \in ItemSeqs(i) : n <= k
          /\ Await(c, [op |-> "queue", i |-> i, response |-> call[c].response, at |-> n])
  /\ UNCHANGED <<checkVars, store, drain, page, troubles, history>>

\* Entry n of item i, about to be written with this response, is not what the
\* replay of the item will end with, or not the answer the device keeps: another
\* save overlapped, or the drain holds an older copy of this or a later entry.
Overlapped(i, response, n) ==
  \/ local[i] # response
  \/ \E m \in HeldOf(i) : m.seq >= n
  \/ \E k \in ItemSeqs(i) : k > n /\ queue[k].response # response

\* The entry that was found is replaced, even if it was deleted meanwhile;
\* without one, the entry is added.
QueueAnswer(c) ==
  LET q == call[c]
      n == IF q.at = 0 THEN lastSeq + 1 ELSE q.at
  IN /\ q.op = "queue"
     /\ n \in Seqs
     /\ lastSeq' = IF q.at = 0 THEN n ELSE lastSeq
     /\ queue' = [queue EXCEPT ![n] = [kind |-> "item", i |-> q.i, response |-> q.response]]
     /\ raced' = IF Overlapped(q.i, q.response, n) THEN raced \cup {q.i} ELSE raced \ {q.i}
     /\ dropped' = dropped \ {q.i}
     /\ Drain(queue')
     /\ Await(c, Idle)
     /\ UNCHANGED <<checkVars, local, page, troubles, uploads>>

\* Saves of the item whose answer is kept and not yet queued.
Saving(i) == \E c \in Calls : call[c].op \in {"find", "queue"} /\ call[c].i = i

CallStep(c) ==
  SaveItemAnswer(c) \/ CacheDoc(c) \/ PutState(c) \/ FindItemMutation(c) \/ QueueAnswer(c)

QueuePhoto ==
  /\ page.at # "away" /\ lastSeq < MaxSeq
  /\ lastSeq' = lastSeq + 1
  /\ queue' = [queue EXCEPT ![lastSeq + 1] = [kind |-> "photo"]]
  /\ Drain(queue')
  /\ UNCHANGED <<checkVars, local, call, page, troubles, history>>

----------------------------------------------------------------------------
(* The page.                                                               *)

OpenPage ==
  /\ page.at = "away" /\ status = "IN_PROGRESS"
  /\ page' = At("working")
  /\ UNCHANGED <<checkVars, store, call, drain, troubles, history>>

\* canSubmit: nothing pending.
HandleSubmit ==
  /\ page.at = "working" /\ Pending(queue) = {}
  /\ page' = At("asked")
  /\ UNCHANGED <<checkVars, store, call, drain, troubles, history>>

SubmitFromPage(d) ==
  /\ page.at = "asked"
  /\ SubmitForReview(d)
  /\ page' = [at |-> "submitting", by |-> d]
  /\ UNCHANGED <<store, call, drain, troubles, history>>

SubmitReply(d) ==
  /\ page = [at |-> "submitting", by |-> d]
  /\ \/ WriteStatus(d) /\ page' = At("clearing")
     \/ Fail(d) /\ page' = At("working")
  /\ UNCHANGED <<store, call, drain, troubles, history>>

\* The submission is refused, lost, or goes on without the page.
SubmitFails ==
  /\ \/ page.at = "asked" /\ UNCHANGED troubles
     \/ page.at = "submitting" /\ Trouble
  /\ page' = At("working")
  /\ UNCHANGED <<checkVars, store, call, drain, history>>

\* clearCheck: the record, then the entries; an answer saved between the two
\* loses its entry.  Then the page shows the check under review.
ClearState ==
  /\ page.at = "clearing"
  /\ local' = [i \in Items |-> Null]
  /\ page' = At("emptying")
  /\ UNCHANGED <<checkVars, queue, lastSeq, call, drain, troubles, history>>

ClearQueue ==
  /\ page.at = "emptying"
  /\ queue' = [n \in Seqs |-> Null]
  /\ raced' = raced \cup {i \in Items : local[i] # Null /\ ItemSeqs(i) # {}}
  /\ page' = At("away")
  /\ UNCHANGED <<checkVars, local, lastSeq, call, drain, troubles, dropped, uploads>>

\* The tab dies, with what it was doing, and is opened again: init() drains.
\* A photo on its way may have reached the server.
Reopen ==
  /\ Trouble
  /\ page' = At("away")
  /\ call' = [c \in Calls |-> Idle]
  /\ raced' = raced \cup {i \in Items : Saving(i)}
  /\ drain' \in {Off, Start(queue)}
  /\ uploads' \in {uploads} \cup
       (IF Sending("photo") THEN {[uploads EXCEPT ![First.seq] = @ + 1]} ELSE {})
  /\ UNCHANGED <<checkVars, store, dropped>>

\* Everyone else's requests on this check, and those of this page that are
\* not its submission.
OfficeStep(d) ==
  /\ page # [at |-> "submitting", by |-> d]
  /\ DeskStep(d)
  /\ UNCHANGED deviceVars

----------------------------------------------------------------------------
DeviceInit ==
  /\ local = [i \in Items |-> Null]
  /\ queue = [n \in Seqs |-> Null]
  /\ lastSeq = 0
  /\ call = [c \in Calls |-> Idle]
  /\ drain = Off
  /\ page = At("away")
  /\ troubles = 0
  /\ dropped = {} /\ raced = {}
  /\ uploads = [n \in Seqs |-> 0]

FieldInit == Init /\ DeviceInit

FieldNext ==
  \/ DrainStep \/ Lose \/ (\E p \in Posts : ServerDies(p)) \/ Online
  \/ \E c \in Calls : CallStep(c)
  \/ QueuePhoto \/ OpenPage \/ HandleSubmit \/ SubmitFails \/ ClearState \/ ClearQueue \/ Reopen
  \/ \E d \in Desk : SubmitFromPage(d) \/ SubmitReply(d) \/ OfficeStep(d)

\* A drain that runs goes on, and the server answers what it was sent.
FieldSpec == FieldInit /\ [][FieldNext]_vars /\ WF_vars(DrainStep)

----------------------------------------------------------------------------
FieldTypeOK ==
  /\ TypeOK
  /\ local \in [Items -> Response]
  /\ queue \in [Seqs -> Entry \cup {Null}]
  /\ lastSeq \in 0..MaxSeq
  /\ call \in [Calls -> Call]
  /\ drain \in [at : {"off", "next", "sent"},
                todo : SUBSET [seq : Seqs, entry : Entry], by : Posts \cup {Null}]
  /\ page \in [at : {"away", "working", "asked", "submitting", "clearing", "emptying"},
               by : Desk \cup {Null}]
  /\ troubles \in 0..MaxTroubles
  /\ dropped \in SUBSET Items /\ raced \in SUBSET Items
  /\ uploads \in [Seqs -> Nat]

\* What the device keeps for item i is what the server has.
OnServer(i) == local[i] # Null => item[i].response = local[i]

\* When nothing of an item waits on the device, the server has the answer the
\* device keeps, whatever was lost, repeated or reopened in between - except an
\* answer the engineer was told of (a dead letter), or one that something raced
\* with: a save or a cached document that wrote an older copy of the answers
\* over it; another save of the item, or the drain with an older copy in hand,
\* as its entry was queued; an earlier request, given up but still under way
\* with another answer when the answer was sent; the tab's death or clearCheck
\* between its two writes.  Those are the only holes in checkQueue's replay of
\* one device.
SyncedUnlessRaced ==
  \A i \in Items :
    ItemSeqs(i) = {} /\ ~Saving(i) /\ i \notin dropped \cup raced
      => OnServer(i)

\* A photo reaches the server more than once only if a reply was lost or the
\* tab was reopened between the upload and the delete of its entry.
CopiesHaveACause == \A n \in Seqs : uploads[n] <= 1 + troubles

\* The server's side of the composition is the server of module Checks.
ServerAlone == Init /\ [][Next]_checkVars

\* One entry cannot wedge the device: unless the device stops draining for
\* good, because nothing is saved and the connection does not come back, every
\* entry leaves the queue, whatever is refused, lost or saved again meanwhile.
EntriesLeave == (\A n \in Seqs : []<>(queue[n] = Null)) \/ <>[](drain.at = "off")

\* useCheckExecutionSync: "synced - queue empty, everything is on the server",
\* once every call has returned, and nothing was reported as lost.
SyncedMeansOnServer ==
  drain.at = "off" /\ Pending(queue) = {} /\ call = [c \in Calls |-> Idle] /\ dropped = {}
    => \A i \in Items : OnServer(i)
=============================================================================
