---------------------------------- MODULE Chat ----------------------------------
(***************************************************************************)
(* A group room of handlers/chat.go: the requests that send, edit, delete  *)
(* and clear messages and mark them seen, the goroutine that writes the    *)
(* preview of the room, and the goroutines of triggerAIResponse, which     *)
(* answer the messages that ask the assistant, a few at a time.            *)
(*                                                                         *)
(* Each SQL statement and each broadcast is an action of its own; the      *)
(* transaction of ClearMessages is one. A broadcast reaches a client that  *)
(* is connected all the time and keeps a list of the messages: what the    *)
(* hub loses is the matter of WsHub.                                       *)
(*                                                                         *)
(* Abstractions: a text is the request that wrote it; the pieces of a      *)
(* streamed answer, the typing notices and the media files are left out,   *)
(* and so are the checks of the path and the body of a request. The        *)
(* statements whose error the code ignores succeed (chat.go:571, 1208,     *)
(* 1216, 1328, 1354).                                                      *)
(***************************************************************************)
EXTENDS Integers, FiniteSets

CONSTANTS
  Requests,   (* the requests of a behaviour                                  *)
  User,       (* who makes each request                                       *)
  Ops,        (* what each request may be                                     *)
  Assistant,  (* the user row of the assistant                                *)
  AISlots     (* capacity of the semaphore (3 in the code)                    *)

MaxId == 1 + 2 * Cardinality(Requests)
Ids == 1..MaxId
Kinds == {"send", "ask", "edit", "delete", "clear", "seen"}
Users == {User[r] : r \in Requests}

ASSUME ChatAssumption ==
  /\ IsFiniteSet(Requests)
  /\ DOMAIN User = Requests /\ Assistant \notin Users
  /\ Ops \in [Requests -> SUBSET Kinds]
  /\ AISlots \in Nat \ {0}

(* A row of chat_messages: its sender, who wrote its text, and whether the *)
(* status is "processed".                                                  *)
First == "first"      (* the text of the message that is there at the start   *)
Reply == "reply"      (* an answer of the assistant, or its apology           *)
Msg(u, t) == [by |-> u, text |-> t, processed |-> FALSE]
NoMsg == [by |-> "nobody", text |-> "none", processed |-> FALSE]

VARIABLES
  rows,      (* the table chat_messages                                       *)
  nextId,    (* its sequence                                                  *)
  preview,   (* the message that the last_msg columns show, or 0              *)
  receipts,  (* last_read of each user, 0 without a row                       *)
  op, pc,    (* each request: what it is, and how far its handler is          *)
  target,    (* the message of the request, last_read of a seen request       *)
  copy,      (* the row it has loaded                                         *)
  code,      (* its answer                                                    *)
  prv,       (* the preview goroutine of each send                            *)
  ai,        (* the goroutine triggerAIResponse of each ask                   *)
  answer,    (* the row that goroutine has inserted, or 0                     *)
  status,    (* the last chat:ai_status of the room                           *)
  elsewhere, (* the slots that answers in other rooms hold                    *)
  view,      (* the messages a connected client shows                         *)
  raced,     (* history: messages on which two operations overlapped          *)
  last,      (* history: the message the preview should show, 0 for none, or  *)
             (* Unsure when two writes of the preview overlapped              *)
  before     (* history: the seen requests that were over as each one began   *)

tables == <<rows, nextId, preview, receipts>>
handler == <<op, pc, target, copy, code>>
runs == <<prv, ai, answer, status, elsewhere>>
history == <<raced, last, before>>
vars == <<tables, handler, runs, view, history>>

Init ==
  /\ \E u \in Users : rows = [i \in Ids |-> IF i = 1 THEN Msg(u, First) ELSE NoMsg]
  /\ nextId = 2 /\ preview = 1 /\ receipts = [u \in Users |-> 0]
  /\ op = [r \in Requests |-> "none"] /\ pc = [r \in Requests |-> "idle"]
  /\ target = [r \in Requests |-> 0] /\ copy = [r \in Requests |-> NoMsg]
  /\ code = [r \in Requests |-> 0]
  /\ prv = [r \in Requests |-> "none"] /\ ai = [r \in Requests |-> "none"]
  /\ answer = [r \in Requests |-> 0] /\ status = "none"
  /\ elsewhere = 0
  /\ view = rows
  /\ raced = {} /\ last = 1 /\ before = [r \in Requests |-> {}]

-----------------------------------------------------------------------------
(* Which operations are under way, for the history.                        *)

Active(r) == pc[r] \notin {"idle", "done"}

Touches(r, i) ==
  /\ Active(r)
  /\ op[r] = "clear" \/ (op[r] \in {"send", "ask", "edit", "delete"} /\ target[r] = i)

AiTouches(r, i) == answer[r] = i /\ ai[r] # "done"

Contended(i) == \E r \in Requests : Touches(r, i) \/ AiTouches(r, i)

(* The writes of the preview that are still to come; id is the next to be. *)
Unsure == -1
Previewing == \E r \in Requests : prv[r] = "started" \/ ai[r] = "answered"
Due(id) == last' = IF Previewing THEN Unsure ELSE id

(* Request r begins, as an operation on the messages in S.                 *)
Begin(r, k, S) ==
  /\ pc[r] = "idle" /\ k \in Ops[r]
  /\ op' = [op EXCEPT ![r] = k]
  /\ before' = [before EXCEPT ![r] = {q \in Requests : pc[q] = "done" /\ op[q] = "seen"
                                                      /\ k = "seen"}]
  /\ raced' = raced \cup {i \in S : Contended(i)}

Goto(r, l) == pc' = [pc EXCEPT ![r] = l]
Answer(r, n) == code' = [code EXCEPT ![r] = n]

-----------------------------------------------------------------------------
(* SendMessage.                                                            *)

(* The INSERT, and the preview goroutine is started.                       *)
SendCreate(r, k) ==
  /\ k \in {"send", "ask"} /\ Begin(r, k, {nextId})
  /\ rows' = [rows EXCEPT ![nextId] = Msg(User[r], r)]
  /\ nextId' = nextId + 1
  /\ target' = [target EXCEPT ![r] = nextId]
  /\ prv' = [prv EXCEPT ![r] = "started"]
  /\ Goto(r, "saved") /\ Due(nextId)
  /\ UNCHANGED <<preview, receipts, copy, code, ai, answer, status, elsewhere, view>>

(* The broadcast, and triggerAIResponse is started for an ask.             *)
SendBroadcast(r) ==
  /\ pc[r] = "saved"
  /\ view' = [view EXCEPT ![target[r]] = Msg(User[r], r)]
  /\ ai' = [ai EXCEPT ![r] = IF op[r] = "ask" THEN "waiting" ELSE @]
  /\ Goto(r, "done") /\ Answer(r, 201)
  /\ UNCHANGED <<tables, op, target, copy, prv, answer, status, elsewhere, history>>

(* The preview goroutine.                                                  *)
PreviewWrite(r) ==
  /\ prv[r] = "started"
  /\ preview' = target[r]
  /\ prv' = [prv EXCEPT ![r] = "done"]
  /\ UNCHANGED <<rows, nextId, receipts, handler, ai, answer, status,
                 elsewhere, view, history>>

-----------------------------------------------------------------------------
(* EditMessage and DeleteMessage.                                          *)

(* The row is loaded; only its sender may go on.                           *)
LoadOwn(r, k, i) ==
  /\ k \in {"edit", "delete"} /\ i < nextId /\ Begin(r, k, {i})
  /\ target' = [target EXCEPT ![r] = i]
  /\ copy' = [copy EXCEPT ![r] = IF k = "edit" THEN rows[i] ELSE @]
  /\ IF rows[i] # NoMsg /\ rows[i].by = User[r]
     THEN Goto(r, "loaded") /\ UNCHANGED code
     ELSE Goto(r, "done") /\ Answer(r, IF rows[i] = NoMsg THEN 404 ELSE 403)
  /\ UNCHANGED <<tables, runs, view, last>>

(* Mutant: the new text is not saved.                                      *)
EditSaveForgets(r) ==
  /\ pc[r] = "loaded" /\ op[r] = "edit"
  /\ copy' = [copy EXCEPT ![r].text = r]
  /\ Goto(r, "reloaded")
  /\ UNCHANGED <<tables, op, target, code, runs, view, history>>

(* Save writes all columns, and inserts the row again when it is gone.     *)
EditSave(r) ==
  /\ pc[r] = "loaded" /\ op[r] = "edit"
  /\ copy' = [copy EXCEPT ![r].text = r]
  /\ rows' = [rows EXCEPT ![target[r]] = [copy[r] EXCEPT !.text = r]]
  /\ Goto(r, "edited")
  /\ UNCHANGED <<nextId, preview, receipts, op, target, code, runs, view, history>>

(* The row is read again, for the sender; an error is not looked at.       *)
EditReload(r) ==
  /\ pc[r] = "edited"
  /\ copy' = [copy EXCEPT ![r] = IF rows[target[r]] = NoMsg THEN @ ELSE rows[target[r]]]
  /\ Goto(r, "reloaded")
  /\ UNCHANGED <<tables, op, target, code, runs, view, history>>

EditBroadcast(r) ==
  /\ pc[r] = "reloaded"
  /\ view' = [view EXCEPT ![target[r]] = copy[r]]
  /\ copy' = [copy EXCEPT ![r] = NoMsg]
  /\ Goto(r, "done") /\ Answer(r, 200)
  /\ UNCHANGED <<tables, op, target, runs, history>>

DeleteRow(r) ==
  /\ pc[r] = "loaded" /\ op[r] = "delete"
  /\ rows' = [rows EXCEPT ![target[r]] = NoMsg]
  /\ Goto(r, "deleted")
  /\ UNCHANGED <<nextId, preview, receipts, op, target, copy, code, runs, view, history>>

DeleteBroadcast(r) ==
  /\ pc[r] = "deleted"
  /\ view' = [view EXCEPT ![target[r]] = NoMsg]
  /\ Goto(r, "done") /\ Answer(r, 200)
  /\ UNCHANGED <<tables, op, target, copy, runs, history>>

-----------------------------------------------------------------------------
(* ClearMessages: one transaction over receipts, messages and the room.    *)

(* Mutant: the columns of the preview are not reset.                       *)
ClearCommitKeepsPreview(r) ==
  /\ Begin(r, "clear", Ids)
  /\ rows' = [i \in Ids |-> NoMsg] /\ receipts' = [u \in Users |-> 0]
  /\ Goto(r, "cleared") /\ Due(0)
  /\ UNCHANGED <<nextId, preview, target, copy, code, runs, view>>

(* The rows and receipts go, and the columns of the preview are reset.     *)
ClearCommit(r) ==
  /\ Begin(r, "clear", Ids)
  /\ rows' = [i \in Ids |-> NoMsg] /\ receipts' = [u \in Users |-> 0] /\ preview' = 0
  /\ Goto(r, "cleared") /\ Due(0)
  /\ UNCHANGED <<nextId, target, copy, code, runs, view>>

ClearBroadcast(r) ==
  /\ pc[r] = "cleared"
  /\ view' = [i \in Ids |-> NoMsg]
  /\ Goto(r, "done") /\ Answer(r, 200)
  /\ UNCHANGED <<tables, op, target, copy, runs, history>>

-----------------------------------------------------------------------------
(* MarkSeen: FirstOrCreate with Assign. Bound: the first message or the    *)
(* newest is marked.                                                       *)

SeenFind(r, i) ==
  /\ i \in {1, nextId - 1} /\ Begin(r, "seen", {})
  /\ target' = [target EXCEPT ![r] = i]
  /\ Goto(r, IF receipts[User[r]] = 0 THEN "absent" ELSE "found")
  /\ UNCHANGED <<tables, copy, code, runs, view, last>>

(* The INSERT, which the unique index over room and user may refuse.       *)
SeenCreate(r) ==
  /\ pc[r] = "absent"
  /\ IF receipts[User[r]] = 0
     THEN receipts' = [receipts EXCEPT ![User[r]] = target[r]] /\ Answer(r, 200)
     ELSE Answer(r, 500) /\ UNCHANGED receipts
  /\ Goto(r, "done")
  /\ UNCHANGED <<rows, nextId, preview, op, target, copy, runs, view, history>>

(* Mutant: a row that is found is left as it is.                           *)
SeenUpdateForgets(r) ==
  /\ pc[r] = "found"
  /\ Goto(r, "done") /\ Answer(r, 200)
  /\ UNCHANGED <<tables, op, target, copy, runs, view, history>>

(* The UPDATE, of no row when the room was cleared in between.             *)
SeenUpdate(r) ==
  /\ pc[r] = "found"
  /\ receipts' = [receipts EXCEPT ![User[r]] = IF @ = 0 THEN 0 ELSE target[r]]
  /\ Goto(r, "done") /\ Answer(r, 200)
  /\ UNCHANGED <<rows, nextId, preview, op, target, copy, runs, view, history>>

-----------------------------------------------------------------------------
(* triggerAIResponse.                                                      *)

Running == {r \in Requests : ai[r] \notin {"none", "waiting", "done"}}

AiGoto(r, l) == ai' = [ai EXCEPT ![r] = l]

(* Answers in other rooms take slots and give them back. Bound: one at a   *)
(* time.                                                                   *)
OtherTakes ==
  /\ elsewhere = 0 /\ Cardinality(Running) < AISlots
  /\ elsewhere' = 1
  /\ UNCHANGED <<tables, handler, prv, ai, answer, status, view, history>>

OtherReleases ==
  /\ elsewhere > 0
  /\ elsewhere' = 0
  /\ UNCHANGED <<tables, handler, prv, ai, answer, status, view, history>>

(* A slot of the semaphore is taken, and the first status is broadcast.    *)
AiAcquire(r) ==
  /\ ai[r] = "waiting" /\ Cardinality(Running) + elsewhere < AISlots
  /\ status' = "thinking"
  /\ AiGoto(r, "thinking")
  /\ UNCHANGED <<tables, handler, prv, answer, elsewhere, view, history>>

(* The status of the message that asked is updated, if it is there, and    *)
(* the history loaded; then the second status is broadcast.                *)
AiRespond(r) ==
  /\ ai[r] = "thinking"
  /\ rows' = [rows EXCEPT ![target[r]].processed = (rows[target[r]] # NoMsg)]
  /\ status' = "responding"
  /\ AiGoto(r, "responding")
  /\ UNCHANGED <<nextId, preview, receipts, handler, prv, answer, elsewhere, view,
                 history>>

(* Mutant: a failed call ends the goroutine with a line in the log.        *)
AiSaveLogs(r) ==
  /\ ai[r] = "responding"
  /\ status' = "idle"
  /\ AiGoto(r, "done")
  /\ UNCHANGED <<tables, handler, prv, answer, elsewhere, view, history>>

(* The answer, or for an error or a status other than 200 an apology, is   *)
(* inserted.                                                               *)
AiSave(r) ==
  /\ ai[r] = "responding"
  /\ rows' = [rows EXCEPT ![nextId] = Msg(Assistant, Reply)]
  /\ nextId' = nextId + 1
  /\ answer' = [answer EXCEPT ![r] = nextId]
  /\ raced' = raced \cup {i \in {nextId} : Contended(i)}
  /\ \/ AiGoto(r, "answered") /\ Due(nextId)
     \/ AiGoto(r, "excused") /\ UNCHANGED last
  /\ UNCHANGED <<preview, receipts, handler, prv, status, elsewhere, view, before>>

(* Only an answer becomes the preview of the room.                         *)
AiPreview(r) ==
  /\ ai[r] = "answered"
  /\ preview' = answer[r]
  /\ AiGoto(r, "previewed")
  /\ UNCHANGED <<rows, nextId, receipts, handler, prv, answer, status,
                 elsewhere, view, history>>

(* Mutant: saveAIError returns after the apology, without the last status. *)
AiShowOnly(r) ==
  /\ ai[r] \in {"previewed", "excused"}
  /\ view' = [view EXCEPT ![answer[r]] = Msg(Assistant, Reply)]
  /\ status' = IF ai[r] = "excused" THEN status ELSE "idle"
  /\ AiGoto(r, "done")
  /\ UNCHANGED <<tables, handler, prv, answer, elsewhere, history>>

(* The reply and the last status are broadcast, one after the other, and   *)
(* the slot is given back.                                                 *)
AiShow(r) ==
  /\ ai[r] \in {"previewed", "excused"}
  /\ view' = [view EXCEPT ![answer[r]] = Msg(Assistant, Reply)]
  /\ status' = "idle"
  /\ AiGoto(r, "done")
  /\ UNCHANGED <<tables, handler, prv, answer, elsewhere, history>>

-----------------------------------------------------------------------------
Arrive(r) ==
  \/ \E k \in Kinds : SendCreate(r, k)
  \/ \E k \in Kinds, i \in Ids : LoadOwn(r, k, i)
  \/ ClearCommit(r)
  \/ \E i \in Ids : SeenFind(r, i)

HandlerStep(r) ==
  \/ SendBroadcast(r)
  \/ EditSave(r) \/ EditReload(r) \/ EditBroadcast(r)
  \/ DeleteRow(r) \/ DeleteBroadcast(r)
  \/ ClearBroadcast(r)
  \/ SeenCreate(r) \/ SeenUpdate(r)

AiStep(r) ==
  \/ AiAcquire(r) \/ AiRespond(r) \/ AiSave(r) \/ AiPreview(r) \/ AiShow(r)

Next ==
  \/ \E r \in Requests : Arrive(r) \/ HandlerStep(r) \/ PreviewWrite(r) \/ AiStep(r)
  \/ OtherTakes \/ OtherReleases

Spec == Init /\ [][Next]_vars

(* The requests that may ask.                                              *)
Askers == {r \in Requests : "ask" \in Ops[r]}

(* The goroutines of the assistant go on, for its call ends within its     *)
(* timeout, here and in other rooms; a Go channel serves those who wait to *)
(* send in their order, so nobody waits for a slot for ever. Nobody has to *)
(* send a request.                                                         *)
Fairness == (\A r \in Askers : SF_vars(AiStep(r))) /\ WF_vars(OtherReleases)

FairSpec == Spec /\ Fairness
-----------------------------------------------------------------------------
(* Properties.                                                             *)

Row == [by : Users \cup {Assistant, "nobody"},
        text : Requests \cup {First, Reply, "none"}, processed : BOOLEAN]

TypeOK ==
  /\ rows \in [Ids -> Row] /\ view \in [Ids -> Row]
  /\ nextId \in 1..(MaxId + 1)
  /\ preview \in 0..MaxId
  /\ receipts \in [Users -> 0..MaxId]
  /\ op \in [Requests -> Kinds \cup {"none"}]
  /\ pc \in [Requests -> {"idle", "saved", "loaded", "edited", "reloaded", "deleted",
                          "cleared", "absent", "found", "done"}]
  /\ target \in [Requests -> 0..MaxId]
  /\ copy \in [Requests -> Row]
  /\ code \in [Requests -> {0, 200, 201, 403, 404, 500}]
  /\ prv \in [Requests -> {"none", "started", "done"}]
  /\ ai \in [Requests -> {"none", "waiting", "thinking", "responding", "answered",
                          "excused", "previewed", "done"}]
  /\ answer \in [Requests -> 0..MaxId]
  /\ status \in {"none", "thinking", "responding", "idle"}
  /\ elsewhere \in 0..AISlots /\ Cardinality(Running) + elsewhere <= AISlots
  /\ raced \subseteq Ids /\ last \in Unsure..MaxId
  /\ before \in [Requests -> SUBSET Requests]

(* A client that hears every broadcast shows each message as the table has *)
(* it once nobody works on it, unless two operations on that message       *)
(* overlapped.                                                             *)
ViewConverges ==
  TypeOK /\ \A i \in Ids \ raced :
    ~Contended(i) => view[i].by = rows[i].by /\ view[i].text = rows[i].text

(* The list of rooms shows the last message that was sent, or none after   *)
(* the room was cleared, unless a message or the clearing followed another *)
(* message before its preview was written (chat.go:569). An apology of the *)
(* assistant does not count.                                               *)
PreviewIsLast == ~Previewing /\ last # Unsure => preview = last

(* When no answer is under way, the room does not show the assistant as    *)
(* thinking or responding, however many answers overlapped and failed.     *)
IdleWhenQuiet == Running = {} => status \in {"none", "idle"}

(* The receipt of a user is never left at the value of a request that was  *)
(* over before a later, successful one began, unless the room was cleared. *)
ReceiptNotStale ==
  \A u \in Users :
    LET done == {r \in Requests : op[r] = "seen" /\ User[r] = u /\ code[r] = 200}
    IN  (\A r \in Requests : op[r] # "clear") /\ done # {}
          => \E r \in done : /\ receipts[u] = target[r]
                             /\ \A q \in done :
                                  r \notin before[q] \/ target[q] = target[r]

(* Whoever asks the assistant is answered in the end, be it by an apology, *)
(* although only AISlots answers are worked on at a time.                  *)
AskIsAnswered == \A r \in Askers : ai[r] = "waiting" ~> ai[r] = "done" /\ answer[r] # 0
=============================================================================
