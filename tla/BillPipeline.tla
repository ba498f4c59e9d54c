----------------------------- MODULE BillPipeline -----------------------------
(***************************************************************************)
(* The utility-bill pipeline: the HTTP handlers of handlers/bills.go, the  *)
(* in-memory job channel made in main.go, the single extraction worker of  *)
(* workers/extraction.go, the PDF store of bills/store.go and the alert    *)
(* ledger of bills/notify.go.                                              *)
(*                                                                         *)
(* Every handler runs in a goroutine of its own and talks to the database  *)
(* in several statements; each statement is an action here, so statements  *)
(* of different requests and of the worker interleave as they do in the    *)
(* program.  A request of the model serves one HTTP request and then stops *)
(* with its status code, so the set Requests bounds the number of calls.   *)
(*                                                                         *)
(* Abstractions: all PDFs belong to one property and one statement month   *)
(* (the case in which bills compete for the same alert); a file is         *)
(* identified with its hash; the amounts of a bill are reduced to who      *)
(* wrote them last, a payment to whether one is recorded.                  *)
(***************************************************************************)
EXTENDS Naturals, Sequences, FiniteSets, ExtractOutcome

CONSTANTS
  Requests,    (* the HTTP requests of a behaviour                             *)
  Files,       (* the PDFs users upload, identified with their sha256          *)
  NoHash,      (* FileHash = "" of a manually entered bill                     *)
  MaxBills,    (* bound: how many rows are ever created                        *)
  QueueCap,    (* capacity of the job channel (64 in main.go)                  *)
  Kinds,       (* the kinds of requests that arrive                            *)
  AlertLists,  (* the trigger lists EvaluateTriggers may return                *)
  DbFaults,    (* TRUE: a database or disk call may fail                       *)
  MaxCrashes   (* bound: how often the process dies and restarts               *)

AllKinds == {"upload", "manual", "reextract", "update", "markpaid",
             "softdelete", "harddelete"}

Triggers == {"bill_imported", "budget_exceeded", "budget_warning", "late_fee",
             "payment_reminder", "payment_overdue"}

ASSUME BillAssumption ==
  /\ NoHash \notin Files
  /\ MaxBills \in Nat
  /\ QueueCap \in Nat \ {0}
  /\ MaxCrashes \in Nat
  /\ Kinds \subseteq AllKinds
  /\ AlertLists \subseteq Seq(Triggers)
  /\ AlertLists # {}
  /\ DbFaults \in BOOLEAN

Bills == 1..MaxBills
Keys  == Files \cup {NoHash}

(* A row of utility_bills.  "deleted" is a row whose deleted_at is set.    *)
Row == [st      : {"none", "live", "deleted"},
        key     : Keys,
        status  : {"processing", "completed", "needs_review", "failed"},
        path    : BOOLEAN,                         \* file_path # ""
        paid    : BOOLEAN,                         \* a payment is recorded
        amounts : {"blank", "edited", "parsed"}]   \* last writer of the totals

NoRow == [st |-> "none", key |-> NoHash, status |-> "processing",
          path |-> FALSE, paid |-> FALSE, amounts |-> "blank"]

(* What the statements of the handlers and the worker do to a row.         *)
AsLive(row)       == [row EXCEPT !.st = "live"]
AsDeleted(row)    == [row EXCEPT !.st = "deleted"]
AsProcessing(row) == [row EXCEPT !.status = "processing"]
AsFailed(row)     == [row EXCEPT !.status = "failed"]
WithPath(row)     == [row EXCEPT !.path = TRUE]
WithPayment(row)  == [row EXCEPT !.paid = TRUE]
WithEdit(row)     == [row EXCEPT !.amounts = "edited"]
AsNeedsReview(row) == [row EXCEPT !.status = "needs_review"]
WithParse(row, s) == [row EXCEPT !.status = s, !.amounts = "parsed"]
NewUpload(f)      == [NoRow EXCEPT !.st = "live", !.key = f]
NewManual         == [NoRow EXCEPT !.st = "live", !.status = "completed",
                                   !.amounts = "edited"]

AlertKey == [trigger : Triggers, scope : 0..MaxBills]

VARIABLES
  rows,      (* the table utility_bills, one record per id                     *)
  kids,      (* the bills that have line items or meters                       *)
  pdf,       (* the files on disk                                              *)
  ledger,    (* utility_bill_notifications: key -> bill_id, 0 when absent      *)
  nextId,    (* the next id the table hands out                                *)
  queue,     (* the job channel, oldest job first                              *)
  wpc,       (* the worker: where it is in runOne                              *)
  wjob,      (* ... the bill of its job                                        *)
  wcopy,     (* ... the row as it read it when the job began                   *)
  wres,      (* ... the outcome of Extract                                     *)
  wtodo,     (* ... the triggers evaluateAndFire has still to handle           *)
  op,        (* the kind of each request, "none" before it arrives             *)
  pc,        (* where each request is in its handler                           *)
  rid,       (* the bill each request works on, 0 before it is known           *)
  copy,      (* the row each request holds in memory                           *)
  code,      (* the HTTP status a finished request returned, 0 if none         *)
  crashes,   (* how often the process has died                                 *)
  fired,     (* history: how often each alert was broadcast                    *)
  purged     (* history: how often a hard delete removed a ledger row          *)

dbVars     == <<rows, kids, pdf, ledger, nextId>>
workerVars == <<wpc, wjob, wcopy, wres, wtodo>>
reqVars    == <<op, pc, rid, copy, code>>
histVars   == <<crashes, fired, purged>>
vars       == <<dbVars, queue, workerVars, reqVars, histVars>>

-----------------------------------------------------------------------------
(* The database as the code uses it through GORM.                          *)

Exists(b) == rows[b].st # "none"
Live(b)   == rows[b].st = "live"

(* Mutant: the upsert of a stale copy is not checked against the index.    *)
KeyFreeUnchecked(b, k) == b \in Bills /\ k \in Keys

(* UNIQUE(property_id, file_hash) looks at soft-deleted rows too.          *)
KeyFree(b, k) == \A o \in Bills \ {b} : Exists(o) => rows[o].key # k

(* db.Save writes every column of the in-memory row.  When the UPDATE      *)
(* matches no live row GORM falls back to INSERT .. ON CONFLICT(id) UPDATE, *)
(* so a row deleted in the meantime is live again.                         *)
SaveRow(b, r) ==
  /\ KeyFree(b, r.key)
  /\ rows' = [rows EXCEPT ![b] = AsLive(r)]

(* bills.PeriodKey: budget alerts are keyed by month, the others by bill.  *)
PeriodKey(b, t) ==
  [trigger |-> t,
   scope   |-> IF t \in {"budget_warning", "budget_exceeded"} THEN 0 ELSE b]

(* The rows the program may find in the table when it starts: none, or one *)
(* bill that an earlier run has settled, kept or soft-deleted.             *)
SettledRows ==
  {NoRow} \cup [st : {"live", "deleted"}, key : Files,
                status : {"completed", "needs_review"}, path : {TRUE},
                paid : {FALSE}, amounts : {"parsed"}]

Init ==
  /\ \E first \in SettledRows :
       /\ MaxBills = 0 => first = NoRow
       /\ rows = [b \in Bills |-> IF b = 1 THEN first ELSE NoRow]
       /\ nextId = IF first = NoRow THEN 1 ELSE 2
       /\ kids = IF first = NoRow THEN {} ELSE {1}
       /\ pdf = IF first = NoRow THEN {} ELSE {first.key}
  /\ ledger = [k \in AlertKey |-> 0]
  /\ queue = <<>>
  /\ wpc = "idle" /\ wjob = 0 /\ wcopy = NoRow
  /\ wres = "none" /\ wtodo = <<>>
  /\ op = [r \in Requests |-> "none"]
  /\ pc = [r \in Requests |-> "new"]
  /\ rid = [r \in Requests |-> 0]
  /\ copy = [r \in Requests |-> NoRow]
  /\ code = [r \in Requests |-> 0]
  /\ crashes = 0
  /\ fired = [k \in AlertKey |-> 0]
  /\ purged = [k \in AlertKey |-> 0]

-----------------------------------------------------------------------------
(* Request bookkeeping.                                                    *)

Arrive(r, k) ==
  /\ pc[r] = "new"
  /\ k \in Kinds
  /\ op' = [op EXCEPT ![r] = k]

Goto(r, l) == pc' = [pc EXCEPT ![r] = l] /\ UNCHANGED code

Reply(r, c) ==
  /\ pc' = [pc EXCEPT ![r] = "done"]
  /\ code' = [code EXCEPT ![r] = c]

Hold(r, b, row) ==
  /\ rid' = [rid EXCEPT ![r] = b]
  /\ copy' = [copy EXCEPT ![r] = row]

(* Take the next step of request r from label l in its handler.            *)
At(r, l) == pc[r] = l /\ UNCHANGED op

(* Most handlers begin with DB.First(&bill, id): 404 unless the bill is    *)
(* live.                                                                   *)
First(r, k, next) ==
  /\ Arrive(r, k)
  /\ \E b \in Bills :
       /\ b < nextId
       /\ IF Live(b)
          THEN Goto(r, next) /\ Hold(r, b, rows[b])
          ELSE Reply(r, 404) /\ UNCHANGED <<rid, copy>>
  /\ UNCHANGED <<dbVars, queue, workerVars, histVars>>

(* The non-blocking send "select { case h.Jobs <- job: default: }".        *)
TrySend(b) == Len(queue) < QueueCap /\ queue' = Append(queue, b)
QueueFull  == Len(queue) >= QueueCap /\ UNCHANGED queue

-----------------------------------------------------------------------------
(* POST /utility-bills/upload                                              *)

(* The dedup lookup, soft-deleted rows included.                           *)
UploadCheck(r) ==
  /\ Arrive(r, "upload")
  /\ \E f \in Files :
       \/ \E b \in Bills :
            /\ Exists(b) /\ rows[b].key = f
            /\ IF Live(b)
               THEN Reply(r, 409) /\ UNCHANGED <<rid, copy>>
               ELSE Goto(r, "u_restore") /\ Hold(r, b, rows[b])
       \/ /\ \A b \in Bills : Exists(b) => rows[b].key # f
          /\ Goto(r, "u_create")
          /\ Hold(r, 0, NewUpload(f))
  /\ UNCHANGED <<dbVars, queue, workerVars, histVars>>

(* Mutant: the generated id is not read back into the copy.                *)
UploadCreateLosesId(r) ==
  /\ At(r, "u_create")
  /\ nextId <= MaxBills
  /\ rows' = [rows EXCEPT ![nextId] = copy[r]]
  /\ nextId' = nextId + 1
  /\ Goto(r, "u_put")
  /\ UNCHANGED <<kids, pdf, ledger, queue, workerVars, rid, copy, histVars>>

(* No prior row: INSERT, which the unique index may still refuse when      *)
(* another upload of the same file came first.                             *)
UploadCreate(r) ==
  /\ At(r, "u_create")
  /\ IF \E b \in Bills : Exists(b) /\ rows[b].key = copy[r].key
     THEN Reply(r, 500) /\ UNCHANGED <<rows, nextId, rid, copy>>
     ELSE /\ nextId <= MaxBills
          /\ rows' = [rows EXCEPT ![nextId] = copy[r]]
          /\ Hold(r, nextId, copy[r])
          /\ nextId' = nextId + 1
          /\ Goto(r, "u_put")
  /\ UNCHANGED <<kids, pdf, ledger, queue, workerVars, histVars>>

(* Restoring a soft-deleted bill: the column UPDATE by id ...              *)
UploadRestore(r) ==
  /\ At(r, "u_restore")
  /\ IF Exists(rid[r])
     THEN rows' = [rows EXCEPT ![rid[r]] = AsLive(AsProcessing(@))]
     ELSE UNCHANGED rows
  /\ Goto(r, "u_wipe")
  /\ UNCHANGED <<kids, pdf, ledger, nextId, queue, workerVars, rid, copy, histVars>>

(* ... then the line items and the meters go, in two statements, of which  *)
(* the second is this step (a failing one leaves some of them) ...         *)
UploadWipe(r) ==
  /\ At(r, "u_wipe")
  /\ kids' = kids \ {rid[r]}
  /\ Goto(r, "u_reload")
  /\ UNCHANGED <<rows, pdf, ledger, nextId, queue, workerVars, rid, copy, histVars>>

(* ... and the row is read again.                                          *)
UploadReload(r) ==
  /\ At(r, "u_reload")
  /\ IF Live(rid[r])
     THEN Goto(r, "u_put") /\ Hold(r, rid[r], rows[rid[r]])
     ELSE Reply(r, 500) /\ UNCHANGED <<rid, copy>>
  /\ UNCHANGED <<dbVars, queue, workerVars, histVars>>

(* Store.Put.  The path depends on property, month and hash only.          *)
UploadPut(r) ==
  /\ At(r, "u_put")
  /\ pdf' = pdf \cup {copy[r].key}
  /\ copy' = [copy EXCEPT ![r] = WithPath(@)]
  /\ Goto(r, "u_save")
  /\ UNCHANGED <<rows, kids, ledger, nextId, queue, workerVars, rid, histVars>>

(* Store.Put failed: the row is soft-deleted again.                        *)
UploadUndo(r) ==
  /\ At(r, "u_undo")
  /\ rows' = IF Live(rid[r]) THEN [rows EXCEPT ![rid[r]] = AsDeleted(@)] ELSE rows
  /\ Reply(r, 500)
  /\ UNCHANGED <<kids, pdf, ledger, nextId, queue, workerVars, rid, copy, histVars>>

(* Save(&bill) with the path: every column of the copy is written.         *)
UploadSave(r) ==
  /\ At(r, "u_save")
  /\ IF KeyFree(rid[r], copy[r].key)
     THEN SaveRow(rid[r], copy[r]) /\ Goto(r, "u_enqueue")
     ELSE Reply(r, 500) /\ UNCHANGED rows
  /\ UNCHANGED <<kids, pdf, ledger, nextId, queue, workerVars, rid, copy, histVars>>

(* Mutant: a full queue is reported, but the bill is not marked failed.    *)
UploadEnqueueForgetsStatus(r) ==
  /\ At(r, "u_enqueue")
  /\ \/ TrySend(rid[r]) /\ Reply(r, 202)
     \/ QueueFull /\ Reply(r, 503)
  /\ UNCHANGED <<dbVars, workerVars, rid, copy, histVars>>

UploadEnqueue(r) ==
  /\ At(r, "u_enqueue")
  /\ \/ TrySend(rid[r]) /\ Reply(r, 202) /\ UNCHANGED copy
     \/ /\ QueueFull
        /\ copy' = [copy EXCEPT ![r] = AsFailed(@)]
        /\ Goto(r, "u_full")
  /\ UNCHANGED <<dbVars, workerVars, rid, histVars>>

(* The queue was full: the bill is saved as failed; errors are ignored.    *)
UploadFull(r) ==
  /\ At(r, "u_full")
  /\ IF KeyFree(rid[r], copy[r].key)
     THEN SaveRow(rid[r], copy[r])
     ELSE UNCHANGED rows
  /\ Reply(r, 503)
  /\ UNCHANGED <<kids, pdf, ledger, nextId, queue, workerVars, rid, copy, histVars>>

-----------------------------------------------------------------------------
(* POST /utility-bills: a manual entry has no PDF and an empty file hash,  *)
(* which the unique index of the property treats like any other hash.      *)
ManualCreate(r) ==
  /\ Arrive(r, "manual")
  /\ IF \E b \in Bills : Exists(b) /\ rows[b].key = NoHash
     THEN Reply(r, 500) /\ UNCHANGED <<rows, nextId, rid, copy>>
     ELSE /\ nextId <= MaxBills
          /\ rows' = [rows EXCEPT ![nextId] = NewManual]
          /\ Hold(r, nextId, NewManual)
          /\ nextId' = nextId + 1
          /\ Reply(r, 201)
  /\ UNCHANGED <<kids, pdf, ledger, queue, workerVars, histVars>>

-----------------------------------------------------------------------------
(* POST /utility-bills/:id/reextract                                       *)

ReextractFirst(r) == First(r, "reextract", "x_check")

ReextractReset(r) ==
  /\ At(r, "x_check")
  /\ IF ~copy[r].path
     THEN Reply(r, 400) /\ UNCHANGED <<rows, copy>>
     ELSE IF KeyFree(rid[r], copy[r].key)
          THEN /\ copy' = [copy EXCEPT ![r] = AsProcessing(@)]
               /\ SaveRow(rid[r], AsProcessing(copy[r]))
               /\ Goto(r, "x_enqueue")
          ELSE Reply(r, 500) /\ UNCHANGED <<rows, copy>>
  /\ UNCHANGED <<kids, pdf, ledger, nextId, queue, workerVars, rid, histVars>>

ReextractEnqueue(r) ==
  /\ At(r, "x_enqueue")
  /\ TrySend(rid[r])
  /\ Reply(r, 202)
  /\ UNCHANGED <<dbVars, workerVars, rid, copy, histVars>>

(* The queue is full: 503, and the row keeps the status just written.      *)
ReextractFull(r) ==
  /\ At(r, "x_enqueue")
  /\ QueueFull
  /\ Reply(r, 503)
  /\ UNCHANGED <<dbVars, workerVars, rid, copy, histVars>>

-----------------------------------------------------------------------------
(* PATCH /utility-bills/:id writes only the given columns of a live row,   *)
(* amounts or dates or the payment columns.                                *)

UpdateFirst(r) == First(r, "update", "e_write")

UpdateWrite(r) ==
  /\ At(r, "e_write")
  /\ IF Live(rid[r])
     THEN \/ rows' = [rows EXCEPT ![rid[r]] = WithEdit(@)]
          \/ rows' = [rows EXCEPT ![rid[r]] = WithPayment(@)]
     ELSE UNCHANGED rows
  /\ Goto(r, "e_reload")
  /\ UNCHANGED <<kids, pdf, ledger, nextId, queue, workerVars, rid, copy, histVars>>

UpdateReload(r) ==
  /\ At(r, "e_reload")
  /\ Reply(r, IF Live(rid[r]) THEN 200 ELSE 500)
  /\ UNCHANGED <<dbVars, queue, workerVars, rid, copy, histVars>>

(* POST /utility-bills/:id/mark-paid reads the row and saves all of it.    *)
MarkPaidFirst(r) == First(r, "markpaid", "p_save")

MarkPaidSave(r) ==
  /\ At(r, "p_save")
  /\ IF KeyFree(rid[r], copy[r].key)
     THEN SaveRow(rid[r], WithPayment(copy[r])) /\ Reply(r, 200)
     ELSE Reply(r, 500) /\ UNCHANGED rows
  /\ UNCHANGED <<kids, pdf, ledger, nextId, queue, workerVars, rid, copy, histVars>>

-----------------------------------------------------------------------------
(* DELETE /utility-bills/:id, soft by default, ?hard=true for good.        *)

DeleteFirst(r) ==
  \/ First(r, "softdelete", "d_soft")
  \/ First(r, "harddelete", "d_tx")

DeleteSoft(r) ==
  /\ At(r, "d_soft")
  /\ rows' = IF Live(rid[r]) THEN [rows EXCEPT ![rid[r]] = AsDeleted(@)] ELSE rows
  /\ Reply(r, 204)
  /\ UNCHANGED <<kids, pdf, ledger, nextId, queue, workerVars, rid, copy, histVars>>

(* Mutant: the ledger rows stay.                                           *)
DeleteHardKeepsLedger(r) ==
  /\ At(r, "d_tx")
  /\ rows' = [rows EXCEPT ![rid[r]] = NoRow]
  /\ kids' = kids \ {rid[r]}
  /\ Goto(r, "d_file")
  /\ UNCHANGED <<pdf, ledger, nextId, queue, workerVars, rid, copy, histVars>>

(* One transaction: line items, meters, ledger rows, then the bill.        *)
DeleteHard(r) ==
  /\ At(r, "d_tx")
  /\ LET b == rid[r] IN
     /\ rows' = [rows EXCEPT ![b] = NoRow]
     /\ kids' = kids \ {b}
     /\ ledger' = [k \in AlertKey |-> IF ledger[k] = b THEN 0 ELSE ledger[k]]
     /\ purged' = [k \in AlertKey |-> IF ledger[k] = b THEN purged[k] + 1
                                                       ELSE purged[k]]
  /\ Goto(r, "d_file")
  /\ UNCHANGED <<pdf, nextId, queue, workerVars, rid, copy, crashes, fired>>

DeleteFile(r) ==
  /\ At(r, "d_file")
  /\ pdf' = IF copy[r].path THEN pdf \ {copy[r].key} ELSE pdf
  /\ Reply(r, 204)
  /\ UNCHANGED <<rows, kids, ledger, nextId, queue, workerVars, rid, copy, histVars>>

-----------------------------------------------------------------------------
(* The extraction worker.                                                  *)

WorkerIdle == wpc' = "idle" /\ wjob' = 0 /\ wcopy' = NoRow
              /\ wres' = "none" /\ wtodo' = <<>>

(* RunExtractionWorker receives the oldest job.                            *)
WorkerTake ==
  /\ wpc = "idle"
  /\ queue # <<>>
  /\ wpc' = "taken" /\ wjob' = Head(queue) /\ queue' = Tail(queue)
  /\ UNCHANGED <<dbVars, wcopy, wres, wtodo, reqVars, histVars>>

(* runOne reads the bill; a job whose bill is gone is dropped.             *)
WorkerLoad ==
  /\ wpc = "taken"
  /\ IF Live(wjob)
     THEN wpc' = "loaded" /\ wcopy' = rows[wjob] /\ UNCHANGED <<wjob, wres, wtodo>>
     ELSE WorkerIdle
  /\ UNCHANGED <<dbVars, queue, reqVars, histVars>>

(* store.Get and then Extract, which reads nothing that is shared; both    *)
(* may take long before the next step.                                     *)
WorkerExtract ==
  /\ wpc = "loaded"
  /\ \E out \in Outcomes :
       IF wcopy.path /\ wcopy.key \in pdf /\ out # "failed"
       THEN wpc' = "persist" /\ wres' = out
       ELSE wpc' = "fail" /\ UNCHANGED wres
  /\ UNCHANGED <<dbVars, queue, wjob, wcopy, wtodo, reqVars, histVars>>

(* The in-memory row the persist transaction writes: the copy read when    *)
(* the job began, the outcome, and the parsed amounts unless Extract       *)
(* failed softly.                                                          *)
ApplyParsed == wres # "soft"

Extracted ==
  IF ApplyParsed THEN WithParse(wcopy, wres) ELSE AsNeedsReview(wcopy)

(* The line items and meters of the bill are deleted and those that were   *)
(* parsed inserted, which may be none; a soft failure leaves them alone.   *)
ReplaceKids ==
  kids' \in IF ApplyParsed THEN {kids \cup {wjob}, kids \ {wjob}} ELSE {kids}

(* Mutant: a column UPDATE instead of Save, which matches no row when the  *)
(* bill is gone, followed by the children.                                 *)
WorkerPersistColumns ==
  /\ wpc = "persist"
  /\ wcopy' = Extracted
  /\ rows' = IF Exists(wjob) THEN [rows EXCEPT ![wjob] = Extracted] ELSE rows
  /\ ReplaceKids
  /\ wpc' = "alert"
  /\ wtodo' \in AlertLists
  /\ UNCHANGED <<pdf, ledger, nextId, queue, wjob, wres, reqVars, histVars>>

(* The transaction: Save(&bill), then the children are replaced.           *)
WorkerPersist ==
  /\ wpc = "persist"
  /\ wcopy' = Extracted
  /\ IF KeyFree(wjob, wcopy.key)
     THEN /\ SaveRow(wjob, Extracted)
          /\ ReplaceKids
          /\ wpc' = "alert"
          /\ wtodo' \in AlertLists
     ELSE wpc' = "fail" /\ UNCHANGED <<rows, kids, wtodo>>
  /\ UNCHANGED <<pdf, ledger, nextId, queue, wjob, wres, reqVars, histVars>>

(* Mutant: the failure is broadcast but not saved.                         *)
WorkerMarkFailedForgetsSave ==
  /\ wpc = "fail"
  /\ WorkerIdle
  /\ UNCHANGED <<dbVars, queue, reqVars, histVars>>

(* markFailed: Save(&bill) as failed, errors ignored.                      *)
WorkerMarkFailed ==
  /\ wpc = "fail"
  /\ IF KeyFree(wjob, wcopy.key)
     THEN SaveRow(wjob, AsFailed(wcopy))
     ELSE UNCHANGED rows
  /\ WorkerIdle
  /\ UNCHANGED <<kids, pdf, ledger, nextId, queue, reqVars, histVars>>

(* Mutant: the alert goes out whether or not the ledger row was new.       *)
WorkerInsertAlertAlways ==
  /\ wpc = "alert" /\ wtodo # <<>>
  /\ LET k == PeriodKey(wjob, Head(wtodo)) IN
     ledger' = [ledger EXCEPT ![k] = IF @ = 0 THEN wjob ELSE @]
  /\ wpc' = "send"
  /\ UNCHANGED <<rows, kids, pdf, nextId, queue, wjob, wcopy, wres, wtodo, reqVars, histVars>>

(* evaluateAndFire, one trigger after the other: TryInsertNotification     *)
(* (ON CONFLICT DO NOTHING) ...                                            *)
WorkerInsertAlert ==
  /\ wpc = "alert" /\ wtodo # <<>>
  /\ LET k == PeriodKey(wjob, Head(wtodo)) IN
     IF ledger[k] = 0
     THEN ledger' = [ledger EXCEPT ![k] = wjob] /\ wpc' = "send" /\ UNCHANGED wtodo
     ELSE wtodo' = Tail(wtodo) /\ UNCHANGED <<ledger, wpc>>
  /\ UNCHANGED <<rows, kids, pdf, nextId, queue, wjob, wcopy, wres, reqVars, histVars>>

(* ... and the broadcast of bill:alert:<trigger> if the row was new.       *)
WorkerSendAlert ==
  /\ wpc = "send"
  /\ LET k == PeriodKey(wjob, Head(wtodo)) IN fired' = [fired EXCEPT ![k] = @ + 1]
  /\ wpc' = "alert" /\ wtodo' = Tail(wtodo)
  /\ UNCHANGED <<dbVars, queue, wjob, wcopy, wres, reqVars, crashes, purged>>

WorkerFinish ==
  /\ wpc = "alert" /\ wtodo = <<>>
  /\ WorkerIdle
  /\ UNCHANGED <<dbVars, queue, reqVars, histVars>>

-----------------------------------------------------------------------------
(* Faults.                                                                 *)

(* What a handler answers when the call of a step fails.  UploadFull,      *)
(* UploadUndo and DeleteFile ignore the error of their call.               *)
FaultCode ==
  [l \in {"u_create", "u_restore", "u_wipe", "u_reload", "u_save", "u_undo",
          "u_full", "x_check", "e_write", "e_reload", "p_save", "d_soft",
          "d_tx", "d_file"} |->
     CASE l = "u_full" -> 503 [] l = "d_file" -> 204 [] OTHER -> 500]

RequestFault(r) ==
  /\ DbFaults
  /\ pc[r] \in DOMAIN FaultCode
  /\ pc[r] = "x_check" => copy[r].path
  /\ Reply(r, FaultCode[pc[r]])
  /\ UNCHANGED <<op, rid, copy, dbVars, queue, workerVars, histVars>>

(* Mutant: the error of Store.Put is overlooked.                           *)
PutFaultOverlooked(r) ==
  /\ DbFaults
  /\ At(r, "u_put")
  /\ copy' = [copy EXCEPT ![r] = WithPath(@)]
  /\ Goto(r, "u_save")
  /\ UNCHANGED <<rid, dbVars, queue, workerVars, histVars>>

(* Store.Put fails: the handler goes on to undo the row.                   *)
PutFault(r) ==
  /\ DbFaults
  /\ At(r, "u_put")
  /\ Goto(r, "u_undo")
  /\ UNCHANGED <<rid, copy, dbVars, queue, workerVars, histVars>>

(* A failing call of the worker: First drops the job, the transaction goes *)
(* to markFailed with the values already set in memory, the Save of        *)
(* markFailed and the ledger insert are passed over.                       *)
WorkerFault ==
  /\ DbFaults
  /\ \/ wpc \in {"taken", "fail"} /\ WorkerIdle
     \/ /\ wpc = "persist"
        /\ wpc' = "fail" /\ wcopy' = Extracted
        /\ UNCHANGED <<wjob, wres, wtodo>>
     \/ /\ wpc = "alert" /\ wtodo # <<>>
        /\ wtodo' = Tail(wtodo)
        /\ UNCHANGED <<wpc, wjob, wcopy, wres>>
  /\ UNCHANGED <<dbVars, queue, reqVars, histVars>>

(* The process dies: the channel, the worker and the requests in flight    *)
(* live in memory only; main() starts again over the same table and disk.  *)
Crash ==
  /\ crashes < MaxCrashes
  /\ crashes' = crashes + 1
  /\ queue' = <<>>
  /\ WorkerIdle
  /\ pc' = [r \in Requests |-> IF pc[r] = "new" THEN "new" ELSE "done"]
  /\ UNCHANGED <<dbVars, op, rid, copy, code, fired, purged>>

-----------------------------------------------------------------------------
UploadStep(r) ==
  \/ UploadCreate(r) \/ UploadRestore(r) \/ UploadWipe(r) \/ UploadReload(r)
  \/ UploadPut(r) \/ UploadUndo(r) \/ UploadSave(r) \/ UploadEnqueue(r)
  \/ UploadFull(r)

(* The steps of a request that has arrived.                                *)
HandlerStep(r) ==
  \/ UploadStep(r)
  \/ ReextractReset(r) \/ ReextractEnqueue(r) \/ ReextractFull(r)
  \/ UpdateWrite(r) \/ UpdateReload(r)
  \/ MarkPaidSave(r)
  \/ DeleteSoft(r) \/ DeleteHard(r) \/ DeleteFile(r)

RequestStart(r) ==
  \/ UploadCheck(r) \/ ManualCreate(r) \/ ReextractFirst(r) \/ UpdateFirst(r)
  \/ MarkPaidFirst(r) \/ DeleteFirst(r)

Worker ==
  \/ WorkerTake \/ WorkerLoad \/ WorkerExtract \/ WorkerPersist
  \/ WorkerMarkFailed \/ WorkerInsertAlert \/ WorkerSendAlert \/ WorkerFinish

Next ==
  \/ \E r \in Requests :
       RequestStart(r) \/ HandlerStep(r) \/ RequestFault(r) \/ PutFault(r)
  \/ Worker
  \/ WorkerFault
  \/ Crash

Spec == Init /\ [][Next]_vars

(* The worker goroutine and every handler goroutine keep running; nobody   *)
(* has to send a request.                                                  *)
Fairness == WF_vars(Worker) /\ \A r \in Requests : WF_vars(HandlerStep(r))

FairSpec == Spec /\ Fairness
-----------------------------------------------------------------------------
(* Properties.                                                             *)

Labels == {"new", "done", "u_create", "u_restore", "u_wipe", "u_reload", "u_put",
           "u_undo", "u_save", "u_enqueue", "u_full", "x_check", "x_enqueue",
           "e_write", "e_reload", "p_save", "d_soft", "d_tx", "d_file"}
Codes  == {0, 200, 201, 202, 204, 400, 404, 409, 500, 503}

DbOK ==
  /\ rows \in [Bills -> Row]
  /\ kids \subseteq Bills
  /\ pdf \subseteq Keys
  /\ ledger \in [AlertKey -> 0..MaxBills]
  /\ nextId \in 1..(MaxBills + 1)

WorkerOK ==
  /\ queue \in Seq(Bills)
  /\ wpc \in {"idle", "taken", "loaded", "persist", "fail", "alert", "send"}
  /\ wjob \in 0..MaxBills
  /\ wcopy \in Row
  /\ wres \in {"none"} \cup Outcomes
  /\ wtodo \in Seq(Triggers)

RequestOK ==
  /\ op \in [Requests -> AllKinds \cup {"none"}]
  /\ pc \in [Requests -> Labels]
  /\ rid \in [Requests -> 0..MaxBills]
  /\ copy \in [Requests -> Row]
  /\ code \in [Requests -> Codes]

HistoryOK ==
  /\ crashes \in 0..MaxCrashes
  /\ fired \in [AlertKey -> Nat]
  /\ purged \in [AlertKey -> Nat]

TypeOK == DbOK /\ WorkerOK /\ RequestOK /\ HistoryOK

(* At most one row, soft-deleted ones included, per property and file      *)
(* hash, whatever stale copies are written back and whichever uploads of   *)
(* the same file run at the same time.                                     *)
OneRowPerFile ==
  \A a, b \in Bills :
    a # b /\ Exists(a) /\ Exists(b) => rows[a].key # rows[b].key

(* Line items and meters never outlive their bill: a hard delete racing    *)
(* with the worker or with an upload leaves no children without a row.     *)
NoOrphanChildren == \A b \in kids : Exists(b)

(* An alert is broadcast at most once per ledger row ever written for it:  *)
(* repeated extractions stay silent, and only a hard delete, which removes *)
(* the ledger row, lets an alert sound again.                              *)
AlertAtMostOnce == \A k \in AlertKey : fired[k] <= 1 + purged[k]

(* A PDF is missing from disk under a row that names it only after a hard  *)
(* delete of a bill with that file reached its last step.                  *)
PdfLostOnlyByHardDelete ==
  \A b \in Bills :
    Exists(b) /\ rows[b].path /\ rows[b].key \notin pdf =>
      \E r \in Requests :
        /\ op[r] = "harddelete" /\ pc[r] = "done" /\ code[r] = 204
        /\ copy[r].key = rows[b].key

(* The alert whose ledger row is written and whose broadcast is to come.   *)
Sounding == IF wpc = "send" THEN {PeriodKey(wjob, Head(wtodo))} ELSE {}

(* Where each bill is kept.                                                *)
Shelf == [b \in Bills |-> rows[b].st]

(* The file of a bill, from whichever version of it there is.              *)
KeysOf(b) == {copy[r].key : r \in {q \in Requests : rid[q] = b}}
               \cup (IF Exists(b) THEN {rows[b].key} ELSE {})

FileOf == [b \in Bills |-> IF KeysOf(b) = {} THEN NoHash ELSE CHOOSE k \in KeysOf(b) : TRUE]

Archive == INSTANCE BillArchive WITH
  Ids <- Bills, Names <- Keys, NoName <- NoHash, Notices <- AlertKey,
  shelf <- Shelf, file <- FileOf, next <- nextId, papers <- kids,
  claim <- ledger, sounding <- Sounding, sounded <- fired

(* The handlers and the worker keep the archive of BillArchive, with the   *)
(* rows as its bills and the ledger rows as claims: stale copies that are  *)
(* saved, hard deletes and restarts in between included.                   *)
ImplementsArchive == Archive!ArchiveSpec

(* Someone has still to finish the extraction of bill b.                   *)
Pending(b) ==
  \/ \E i \in DOMAIN queue : queue[i] = b
  \/ wjob = b /\ wpc \in {"taken", "loaded", "persist", "fail"}
  \/ \E r \in Requests :
       /\ rid[r] = b
       /\ pc[r] \in {"u_wipe", "u_reload", "u_put", "u_undo", "u_save",
                     "u_enqueue", "u_full", "x_enqueue"}

Processing(b) == Live(b) /\ rows[b].status = "processing"

(* A bill the list shows as "processing" although nobody will ever touch it *)
Stranded(b) == Processing(b) /\ ~Pending(b)

(* The only steps that strand a bill are a re-extract refused by a full    *)
(* queue, a mark-paid that writes back the status it read before the       *)
(* worker was done, a failing call, and a restart of the process.  Every   *)
(* other interleaving of uploads, deletes, restores and the worker leaves  *)
(* a processing bill in somebody's hands.                                  *)
StrandingStep ==
  \/ \E r \in Requests :
       ReextractFull(r) \/ MarkPaidSave(r) \/ RequestFault(r)
  \/ WorkerFault
  \/ Crash

StrandedOnlyByKnownSteps ==
  [][(\E b \in Bills : Stranded(b)' /\ ~Stranded(b)) => StrandingStep]_vars

(* When no call fails, the process stays up, the queue has room and nobody *)
(* marks a bill paid meanwhile, every processing bill leaves that status.  *)
ProcessingSettles == \A b \in Bills : Processing(b) ~> ~Processing(b)
=============================================================================
