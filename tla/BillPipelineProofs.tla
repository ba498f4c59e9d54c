-------------------------- MODULE BillPipelineProofs --------------------------
(***************************************************************************)
(* Theorems about BillPipeline for every set of requests and files, every  *)
(* queue capacity, and every list of alerts.                               *)
(***************************************************************************)
EXTENDS BillPipeline, TLAPS

(* A request or a worker that is past its first step works on a real id,   *)
(* and the row an upload is about to insert is a live one.                 *)
RequestIds ==
  \A r \in Requests :
    /\ pc[r] \notin {"new", "done", "u_create"} => rid[r] \in Bills
    /\ pc[r] = "u_create" => copy[r].st = "live"
WorkerId ==
  /\ wpc # "idle" => wjob \in Bills
  /\ wpc = "persist" => wres \in {"soft", "completed", "needs_review"}
  /\ wpc = "send" => wtodo # <<>>

TypeInv == TypeOK /\ RequestIds /\ WorkerId

-----------------------------------------------------------------------------
(* Rows stay rows, and keep their key, whatever columns are written.       *)
LEMMA RowUpdates ==
  \A x \in Row :
    /\ AsLive(x) \in Row /\ AsLive(x).key = x.key /\ AsLive(x).st = "live"
    /\ AsDeleted(x) \in Row /\ AsDeleted(x).key = x.key
    /\ AsDeleted(x).st = "deleted"
    /\ AsProcessing(x) \in Row /\ AsProcessing(x).key = x.key
    /\ AsFailed(x) \in Row /\ AsFailed(x).key = x.key
    /\ WithPath(x) \in Row /\ WithPath(x).key = x.key
    /\ WithPayment(x) \in Row /\ WithPayment(x).key = x.key
    /\ WithPayment(x).st = x.st
    /\ WithEdit(x) \in Row /\ WithEdit(x).key = x.key /\ WithEdit(x).st = x.st
    /\ AsNeedsReview(x) \in Row /\ AsNeedsReview(x).key = x.key
    /\ \A s \in {"completed", "needs_review"} :
         WithParse(x, s) \in Row /\ WithParse(x, s).key = x.key
  BY DEF Row, AsLive, AsDeleted, AsProcessing, AsFailed, WithPath, WithPayment,
         WithEdit, AsNeedsReview, WithParse

LEMMA NewRows ==
  /\ NoRow \in Row /\ NoRow.st = "none"
  /\ \A f \in Files : NewUpload(f) \in Row /\ NewUpload(f).st = "live"
  /\ NewManual \in Row /\ NewManual.st = "live" /\ NewManual.key = NoHash
  BY DEF Row, NoRow, Keys, NewUpload, NewManual

LEMMA SettledAreRows == SettledRows \subseteq Row
  BY NewRows DEF SettledRows, Row, Keys

(* The statuses Extract can return.                                        *)
LEMMA OutcomeValues == Outcomes \subseteq {"failed", "soft", "completed", "needs_review"}
  BY DEF Outcomes, Extract, VisionPath

LEMMA LabelFacts ==
  /\ {"new", "done", "u_create", "u_restore", "u_wipe", "u_reload", "u_put",
      "u_undo", "u_save", "u_enqueue", "u_full", "x_check", "x_enqueue",
      "e_write", "e_reload", "p_save", "d_soft", "d_tx", "d_file"} = Labels
  /\ {0, 200, 201, 202, 204, 400, 404, 409, 500, 503} = Codes
  BY DEF Labels, Codes

LEMMA ExtractedIsRow ==
  WorkerOK /\ WorkerId /\ wpc = "persist"
    => Extracted \in Row /\ Extracted.key = wcopy.key
  BY RowUpdates DEF WorkerOK, WorkerId, Extracted, ApplyParsed

LEMMA BillIds ==
  /\ Bills \subseteq 0..MaxBills
  /\ \A n \in 1..(MaxBills + 1) : n <= MaxBills => n \in Bills
  BY BillAssumption DEF Bills

(* The common beginning of the handlers that read a bill first.            *)
LEMMA FirstType ==
  ASSUME TypeInv, NEW r \in Requests, NEW k \in AllKinds, NEW next \in Labels \ {"u_create"},
         First(r, k, next)
  PROVE  RequestOK' /\ RequestIds'
  <1> USE LabelFacts, BillIds DEF TypeInv, TypeOK, RequestOK, RequestIds, DbOK
  <1>1. PICK b \in Bills :
          IF Live(b) THEN Goto(r, next) /\ Hold(r, b, rows[b])
                     ELSE Reply(r, 404) /\ UNCHANGED <<rid, copy>>
    BY DEF First
  <1>2. op' \in [Requests -> AllKinds \cup {"none"}]
    BY DEF First, Arrive
  <1>3. CASE Live(b)
    <2>1. rows[b] \in Row
      OBVIOUS
    <2>2. Goto(r, next) /\ Hold(r, b, rows[b])
      BY <1>1, <1>3
    <2>3. QED
      BY <1>2, <2>1, <2>2 DEF Goto, Hold
  <1>4. CASE ~Live(b)
    <2>1. Reply(r, 404) /\ UNCHANGED <<rid, copy>>
      BY <1>1, <1>4
    <2>2. QED
      BY <1>2, <2>1 DEF Reply
  <1>5. QED
    BY <1>3, <1>4

LEMMA UploadCheckType ==
  ASSUME TypeInv, NEW r \in Requests, UploadCheck(r)
  PROVE  RequestOK' /\ RequestIds'
  <1> USE LabelFacts, BillIds DEF TypeInv, TypeOK, RequestOK, RequestIds, DbOK
  <1>1. op' \in [Requests -> AllKinds \cup {"none"}]
    BY DEF UploadCheck, Arrive, AllKinds
  <1>2. PICK f \in Files :
          \/ \E b \in Bills :
               /\ Exists(b) /\ rows[b].key = f
               /\ IF Live(b)
                  THEN Reply(r, 409) /\ UNCHANGED <<rid, copy>>
                  ELSE Goto(r, "u_restore") /\ Hold(r, b, rows[b])
          \/ /\ Goto(r, "u_create")
             /\ Hold(r, 0, NewUpload(f))
    BY DEF UploadCheck
  <1>3. CASE Reply(r, 409) /\ UNCHANGED <<rid, copy>>
    BY <1>1, <1>3 DEF Reply
  <1>4. ASSUME NEW b \in Bills, Goto(r, "u_restore"), Hold(r, b, rows[b])
        PROVE  RequestOK' /\ RequestIds'
    <2>1. rows[b] \in Row
      OBVIOUS
    <2>2. QED
      BY <1>1, <1>4, <2>1 DEF Goto, Hold
  <1>5. CASE Goto(r, "u_create") /\ Hold(r, 0, NewUpload(f))
    <2>1. NewUpload(f) \in Row /\ NewUpload(f).st = "live" /\ 0 \in 0..MaxBills
      BY NewRows, BillAssumption
    <2>3. copy' = [copy EXCEPT ![r] = NewUpload(f)] /\ rid' = [rid EXCEPT ![r] = 0]
          /\ pc' = [pc EXCEPT ![r] = "u_create"] /\ UNCHANGED code
      BY <1>5 DEF Goto, Hold
    <2>4. RequestOK'
      BY <1>1, <2>1, <2>3
    <2>2. QED
      BY <2>1, <2>3, <2>4
  <1>6. QED
    BY <1>2, <1>3, <1>4, <1>5

LEMMA CreateType ==
  ASSUME TypeInv, NEW r \in Requests, UploadCreate(r) \/ ManualCreate(r)
  PROVE  RequestOK' /\ RequestIds'
  <1> USE LabelFacts, BillIds DEF TypeInv, TypeOK, RequestOK, RequestIds, DbOK
  <1>1. op' \in [Requests -> AllKinds \cup {"none"}]
    BY DEF UploadCreate, ManualCreate, At, Arrive, AllKinds
  <1>2. CASE Reply(r, 500) /\ UNCHANGED <<rid, copy>>
    BY <1>1, <1>2 DEF Reply
  <1>3. CASE nextId <= MaxBills /\ Hold(r, nextId, copy[r]) /\ Goto(r, "u_put")
    BY <1>1, <1>3 DEF Hold, Goto
  <1>4. CASE nextId <= MaxBills /\ Hold(r, nextId, NewManual) /\ Reply(r, 201)
    BY <1>1, <1>4, NewRows DEF Hold, Reply
  <1>5. QED
    BY <1>2, <1>3, <1>4 DEF UploadCreate, ManualCreate

LEMMA RequestSteps ==
  ASSUME TypeInv, NEW r \in Requests
  PROVE  RequestStart(r) \/ HandlerStep(r) \/ RequestFault(r) \/ PutFault(r)
           => RequestOK' /\ RequestIds'
  <1> USE LabelFacts DEF TypeInv, TypeOK, RequestOK, RequestIds, DbOK
  <1>1. ASSUME UploadCheck(r) PROVE RequestOK' /\ RequestIds'
    BY <1>1, UploadCheckType
  <1>2. ASSUME UploadCreate(r) PROVE RequestOK' /\ RequestIds'
    BY <1>2, CreateType
  <1>3. ASSUME UploadRestore(r) PROVE RequestOK' /\ RequestIds'
    BY <1>3 DEF UploadRestore, At, Goto
  <1>4. ASSUME UploadWipe(r) PROVE RequestOK' /\ RequestIds'
    BY <1>4 DEF UploadWipe, At, Goto
  <1>5. ASSUME UploadReload(r) PROVE RequestOK' /\ RequestIds'
    BY <1>5 DEF UploadReload, At, Goto, Hold, Reply
  <1>6. ASSUME UploadPut(r) PROVE RequestOK' /\ RequestIds'
    BY <1>6, RowUpdates DEF UploadPut, At, Goto
  <1>7. ASSUME UploadUndo(r) PROVE RequestOK' /\ RequestIds'
    BY <1>7 DEF UploadUndo, At, Reply
  <1>8. ASSUME UploadSave(r) PROVE RequestOK' /\ RequestIds'
    BY <1>8 DEF UploadSave, At, Goto, Reply
  <1>9. ASSUME UploadEnqueue(r) PROVE RequestOK' /\ RequestIds'
    BY <1>9, RowUpdates DEF UploadEnqueue, At, Goto, Reply
  <1>10. ASSUME UploadFull(r) PROVE RequestOK' /\ RequestIds'
    BY <1>10 DEF UploadFull, At, Reply
  <1>11. ASSUME ManualCreate(r) PROVE RequestOK' /\ RequestIds'
    BY <1>11, CreateType
  <1>12. ASSUME ReextractFirst(r) PROVE RequestOK' /\ RequestIds'
    BY <1>12, FirstType DEF ReextractFirst, AllKinds
  <1>13. ASSUME ReextractReset(r) PROVE RequestOK' /\ RequestIds'
    BY <1>13, RowUpdates DEF ReextractReset, At, Goto, Reply
  <1>14. ASSUME ReextractEnqueue(r) PROVE RequestOK' /\ RequestIds'
    BY <1>14 DEF ReextractEnqueue, At, Reply
  <1>15. ASSUME ReextractFull(r) PROVE RequestOK' /\ RequestIds'
    BY <1>15 DEF ReextractFull, At, Reply
  <1>16. ASSUME UpdateFirst(r) PROVE RequestOK' /\ RequestIds'
    BY <1>16, FirstType DEF UpdateFirst, AllKinds
  <1>17. ASSUME UpdateWrite(r) PROVE RequestOK' /\ RequestIds'
    BY <1>17 DEF UpdateWrite, At, Goto
  <1>18. ASSUME UpdateReload(r) PROVE RequestOK' /\ RequestIds'
    BY <1>18 DEF UpdateReload, At, Reply
  <1>19. ASSUME MarkPaidFirst(r) PROVE RequestOK' /\ RequestIds'
    BY <1>19, FirstType DEF MarkPaidFirst, AllKinds
  <1>20. ASSUME MarkPaidSave(r) PROVE RequestOK' /\ RequestIds'
    BY <1>20 DEF MarkPaidSave, At, Reply
  <1>21. ASSUME DeleteFirst(r) PROVE RequestOK' /\ RequestIds'
    BY <1>21, FirstType DEF DeleteFirst, AllKinds
  <1>22. ASSUME DeleteSoft(r) PROVE RequestOK' /\ RequestIds'
    BY <1>22 DEF DeleteSoft, At, Reply
  <1>23. ASSUME DeleteHard(r) PROVE RequestOK' /\ RequestIds'
    BY <1>23 DEF DeleteHard, At, Goto
  <1>24. ASSUME DeleteFile(r) PROVE RequestOK' /\ RequestIds'
    BY <1>24 DEF DeleteFile, At, Reply
  <1>25. ASSUME RequestFault(r) PROVE RequestOK' /\ RequestIds'
    BY <1>25 DEF RequestFault, Reply, FaultCode
  <1>26. ASSUME PutFault(r) PROVE RequestOK' /\ RequestIds'
    BY <1>26 DEF PutFault, At, Goto
  <1>27. QED
    BY <1>1, <1>2, <1>3, <1>4, <1>5, <1>6, <1>7, <1>8, <1>9, <1>10, <1>11, <1>12, <1>13, <1>14, <1>15, <1>16, <1>17, <1>18, <1>19, <1>20, <1>21, <1>22, <1>23, <1>24, <1>25, <1>26
    DEF RequestStart, HandlerStep, UploadStep

LEMMA InitType == Init => TypeInv
  <1> SUFFICES ASSUME Init PROVE TypeInv
    OBVIOUS
  <1> USE BillAssumption
  <1>1. PICK first \in SettledRows :
          /\ MaxBills = 0 => first = NoRow
          /\ rows = [b \in Bills |-> IF b = 1 THEN first ELSE NoRow]
          /\ nextId = IF first = NoRow THEN 1 ELSE 2
          /\ kids = IF first = NoRow THEN {} ELSE {1}
          /\ pdf = IF first = NoRow THEN {} ELSE {first.key}
    BY DEF Init
  <1>2. first \in Row /\ NoRow \in Row
    BY <1>1, SettledAreRows, NewRows
  <1>3. first # NoRow => first.key \in Files
    BY <1>1 DEF SettledRows
  <1>4. DbOK
    <2>1. rows \in [Bills -> Row] /\ kids \subseteq Bills /\ pdf \subseteq Keys
          /\ nextId \in 1..(MaxBills + 1)
      BY <1>1, <1>2, <1>3 DEF Bills, Keys
    <2>2. ledger \in [AlertKey -> 0..MaxBills]
      BY DEF Init
    <2>3. QED
      BY <2>1, <2>2 DEF DbOK
  <1>5. WorkerOK /\ WorkerId
    BY <1>2 DEF Init, WorkerOK, WorkerId
  <1>6. RequestOK /\ RequestIds
    BY <1>2 DEF Init, RequestOK, RequestIds, Labels, Codes
  <1>7. HistoryOK
    BY DEF Init, HistoryOK
  <1>8. QED
    BY <1>4, <1>5, <1>6, <1>7 DEF TypeInv, TypeOK

LEMMA WorkerSteps == TypeInv /\ [Next]_vars => WorkerOK' /\ WorkerId'
  <1> SUFFICES ASSUME TypeInv, [Next]_vars PROVE WorkerOK' /\ WorkerId'
    OBVIOUS
  <1> USE DEF TypeInv, TypeOK, WorkerOK, WorkerId, WorkerIdle
  <1>1. CASE UNCHANGED <<queue, workerVars>>
    BY <1>1 DEF workerVars
  <1>2. ASSUME NEW r \in Requests,
               RequestStart(r) \/ HandlerStep(r) \/ RequestFault(r) \/ PutFault(r)
        PROVE  WorkerOK' /\ WorkerId'
    <2>1. UNCHANGED workerVars
      BY <1>2 DEF RequestStart, HandlerStep, UploadStep, UploadCheck, First,
         ManualCreate, ReextractFirst, UpdateFirst, MarkPaidFirst, DeleteFirst,
         UploadCreate, UploadRestore, UploadWipe, UploadReload, UploadPut,
         UploadUndo, UploadSave, UploadEnqueue, UploadFull, ReextractReset,
         ReextractEnqueue, ReextractFull, UpdateWrite, UpdateReload, MarkPaidSave,
         DeleteSoft, DeleteHard, DeleteFile, RequestFault, PutFault
    <2>2. UNCHANGED queue \/ ((UploadEnqueue(r) \/ ReextractEnqueue(r)) /\ TrySend(rid[r]))
      BY <1>2 DEF RequestStart, HandlerStep, UploadStep, UploadCheck, First,
         ManualCreate, ReextractFirst, UpdateFirst, MarkPaidFirst, DeleteFirst,
         UploadCreate, UploadRestore, UploadWipe, UploadReload, UploadPut,
         UploadUndo, UploadSave, UploadEnqueue, UploadFull, ReextractReset,
         ReextractEnqueue, ReextractFull, UpdateWrite, UpdateReload, MarkPaidSave,
         DeleteSoft, DeleteHard, DeleteFile, RequestFault, PutFault, QueueFull
    <2>3. CASE (UploadEnqueue(r) \/ ReextractEnqueue(r)) /\ TrySend(rid[r])
      <3>1. rid[r] \in Bills
        BY <2>3 DEF UploadEnqueue, ReextractEnqueue, At, RequestIds
      <3>2. QED
        BY <2>1, <2>3, <3>1 DEF TrySend, workerVars
    <2>4. QED
      BY <1>1, <2>1, <2>2, <2>3
  <1>3. CASE WorkerTake
    <2>1. Head(queue) \in Bills /\ Tail(queue) \in Seq(Bills)
      BY <1>3 DEF WorkerTake
    <2>2. wpc' = "taken" /\ wjob' = Head(queue) /\ queue' = Tail(queue)
          /\ UNCHANGED <<wcopy, wres, wtodo>>
      BY <1>3 DEF WorkerTake
    <2>3. QED
      BY <2>1, <2>2, BillIds
  <1>4. CASE WorkerLoad
    <2>1. CASE Live(wjob)
      BY <1>4, <2>1 DEF WorkerLoad, DbOK
    <2>2. CASE ~Live(wjob)
      BY <1>4, <2>2, NewRows, BillAssumption DEF WorkerLoad
    <2>3. QED
      BY <2>1, <2>2
  <1>5. CASE WorkerExtract
    BY <1>5, OutcomeValues DEF WorkerExtract
  <1>6. CASE WorkerPersist
    BY <1>6, ExtractedIsRow, BillAssumption DEF WorkerPersist
  <1>7. CASE WorkerMarkFailed
    BY <1>7, NewRows, BillAssumption DEF WorkerMarkFailed
  <1>8. CASE WorkerInsertAlert
    <2>1. wtodo # <<>> /\ Tail(wtodo) \in Seq(Triggers)
      BY <1>8 DEF WorkerInsertAlert
    <2>2. UNCHANGED <<queue, wjob, wcopy, wres>>
          /\ \/ wpc' = "send" /\ UNCHANGED wtodo
             \/ wtodo' = Tail(wtodo) /\ UNCHANGED wpc
      BY <1>8 DEF WorkerInsertAlert
    <2>3. wpc = "alert"
      BY <1>8 DEF WorkerInsertAlert
    <2>4. QED
      BY <2>1, <2>2, <2>3
  <1>9. CASE WorkerSendAlert
    <2>1. wtodo # <<>>
      BY <1>9 DEF WorkerSendAlert
    <2>2. Tail(wtodo) \in Seq(Triggers)
      BY <2>1
    <2>3. QED
      BY <1>9, <2>2 DEF WorkerSendAlert
  <1>10. CASE WorkerFinish
    BY <1>10, NewRows, BillAssumption DEF WorkerFinish
  <1>11. CASE WorkerFault
    <2>1. UNCHANGED queue
      BY <1>11 DEF WorkerFault
    <2>2. CASE WorkerIdle
      BY <2>1, <2>2, NewRows, BillAssumption
    <2>3. CASE /\ wpc = "persist"
               /\ wpc' = "fail" /\ wcopy' = Extracted
               /\ UNCHANGED <<wjob, wres, wtodo>>
      BY <2>1, <2>3, ExtractedIsRow
    <2>4. CASE /\ wpc = "alert" /\ wtodo # <<>>
               /\ wtodo' = Tail(wtodo)
               /\ UNCHANGED <<wpc, wjob, wcopy, wres>>
      <3>1. Tail(wtodo) \in Seq(Triggers)
        BY <2>4
      <3>2. QED
        BY <2>1, <2>4, <3>1
    <2>5. QED
      BY <1>11, <2>2, <2>3, <2>4 DEF WorkerFault
  <1>12. CASE Crash
    BY <1>12, NewRows, BillAssumption DEF Crash
  <1>13. QED
    BY <1>1, <1>2, <1>3, <1>4, <1>5, <1>6, <1>7, <1>8, <1>9, <1>10, <1>11, <1>12
    DEF Next, Worker, vars

-----------------------------------------------------------------------------
(* What the statements do to the table of bills.                           *)

(* A statement that writes row x under id b, which the unique index allows *)
WriteRow(b, x) ==
  /\ x.st # "none"
  /\ KeyFree(b, x.key)
  /\ rows' = [rows EXCEPT ![b] = x]

RowsKept == rows' = rows \/ \E b \in Bills, x \in Row : WriteRow(b, x)

(* An upsert is such a statement ...                                       *)
LEMMA SaveWrites ==
  ASSUME NEW b \in Bills, NEW x \in Row, SaveRow(b, x)
  PROVE  WriteRow(b, AsLive(x)) /\ AsLive(x) \in Row
  BY RowUpdates DEF SaveRow, WriteRow

(* ... and so is an UPDATE of some columns of a row that exists.           *)
LEMMA UpdateWrites ==
  ASSUME TypeInv, OneRowPerFile, NEW b \in Bills, NEW x \in Row, Exists(b),
         x.key = rows[b].key, x.st # "none", rows' = [rows EXCEPT ![b] = x]
  PROVE  WriteRow(b, x)
  BY DEF OneRowPerFile, WriteRow, KeyFree, Exists

(* Such statements keep the rows well formed, their files apart, and every *)
(* row that was there.                                                     *)
LEMMA WritesKeep ==
  ASSUME TypeInv, OneRowPerFile, RowsKept
  PROVE  /\ rows' \in [Bills -> Row]
         /\ OneRowPerFile'
         /\ \A c \in Bills : Exists(c) => Exists(c)'
  <1> USE DEF TypeInv, TypeOK, DbOK
  <1>1. CASE rows' = rows
    BY <1>1 DEF OneRowPerFile, Exists
  <1>2. ASSUME NEW b \in Bills, NEW x \in Row, WriteRow(b, x)
        PROVE  /\ rows' \in [Bills -> Row]
               /\ OneRowPerFile'
               /\ \A c \in Bills : Exists(c) => Exists(c)'
    <2>1. rows' \in [Bills -> Row] /\ rows'[b] = x
          /\ \A c \in Bills \ {b} : rows'[c] = rows[c]
      BY <1>2 DEF WriteRow
    <2>2. \A c \in Bills \ {b} : Exists(c) => rows[c].key # x.key
      BY <1>2 DEF WriteRow, KeyFree
    <2>3. x.st # "none"
      BY <1>2 DEF WriteRow
    <2>4. QED
      BY <2>1, <2>2, <2>3 DEF OneRowPerFile, Exists
  <1>3. QED
    BY <1>1, <1>2 DEF RowsKept

(* Every statement but the hard delete is one of those.                    *)
LEMMA RequestWrites ==
  ASSUME TypeInv, OneRowPerFile, NEW r \in Requests, ~DeleteHard(r),
         RequestStart(r) \/ HandlerStep(r) \/ RequestFault(r) \/ PutFault(r)
  PROVE  RowsKept
  <1> USE DEF TypeInv, TypeOK, DbOK, RequestOK, RequestIds
  <1>1. CASE rows' = rows
    BY <1>1 DEF RowsKept
  <1>2. ASSUME NEW x \in Row, NEW b \in Bills, Exists(b), x.key = rows[b].key,
               x.st # "none", rows' = [rows EXCEPT ![b] = x]
        PROVE  RowsKept
    BY <1>2, UpdateWrites DEF RowsKept
  <1>3. ASSUME NEW x \in Row, NEW b \in Bills, SaveRow(b, x) PROVE RowsKept
    BY <1>3, SaveWrites DEF RowsKept
  <1>4. CASE UploadCreate(r)
    <2>1. CASE UNCHANGED rows
      BY <2>1 DEF RowsKept
    <2>2. CASE /\ ~\E b \in Bills : Exists(b) /\ rows[b].key = copy[r].key
               /\ nextId <= MaxBills
               /\ rows' = [rows EXCEPT ![nextId] = copy[r]]
      <3>1. copy[r] \in Row /\ copy[r].st = "live" /\ nextId \in Bills
        BY <1>4, <2>2, BillIds DEF UploadCreate, At
      <3>2. QED
        BY <2>2, <3>1 DEF RowsKept, WriteRow, KeyFree
    <2>3. QED
      BY <1>4, <2>1, <2>2 DEF UploadCreate
  <1>5. CASE ManualCreate(r)
    <2>1. CASE UNCHANGED rows
      BY <2>1 DEF RowsKept
    <2>2. CASE /\ ~\E b \in Bills : Exists(b) /\ rows[b].key = NoHash
               /\ nextId <= MaxBills
               /\ rows' = [rows EXCEPT ![nextId] = NewManual]
      <3>1. NewManual \in Row /\ NewManual.st = "live" /\ NewManual.key = NoHash
            /\ nextId \in Bills
        BY <2>2, NewRows, BillIds
      <3>2. QED
        BY <2>2, <3>1 DEF RowsKept, WriteRow, KeyFree
    <2>3. QED
      BY <1>5, <2>1, <2>2 DEF ManualCreate
  <1>6. CASE UploadRestore(r)
    <2>1. rid[r] \in Bills
      BY <1>6 DEF UploadRestore, At
    <2>2. CASE Exists(rid[r])
      <3>1. rows[rid[r]] \in Row
        BY <2>1
      <3>2. AsProcessing(rows[rid[r]]) \in Row
            /\ AsProcessing(rows[rid[r]]).key = rows[rid[r]].key
        BY <3>1, RowUpdates
      <3>3. AsLive(AsProcessing(rows[rid[r]])) \in Row
            /\ AsLive(AsProcessing(rows[rid[r]])).key = rows[rid[r]].key
            /\ AsLive(AsProcessing(rows[rid[r]])).st = "live"
        BY <3>2, RowUpdates
      <3>4. rows' = [rows EXCEPT ![rid[r]] = AsLive(AsProcessing(rows[rid[r]]))]
        BY <1>6, <2>2 DEF UploadRestore
      <3>5. QED
        BY <1>2, <2>1, <2>2, <3>3, <3>4
    <2>3. QED
      BY <1>1, <1>6, <2>2 DEF UploadRestore
  <1>7. CASE UploadUndo(r) \/ DeleteSoft(r)
    <2>1. rid[r] \in Bills
      BY <1>7 DEF UploadUndo, DeleteSoft, At
    <2>2. CASE Live(rid[r])
      <3>1. AsDeleted(rows[rid[r]]) \in Row
            /\ AsDeleted(rows[rid[r]]).key = rows[rid[r]].key
            /\ AsDeleted(rows[rid[r]]).st = "deleted"
        BY <2>1, RowUpdates
      <3>2. rows' = [rows EXCEPT ![rid[r]] = AsDeleted(rows[rid[r]])]
        BY <1>7, <2>2 DEF UploadUndo, DeleteSoft
      <3>3. Exists(rid[r])
        BY <2>2 DEF Live, Exists
      <3>4. QED
        BY <1>2, <2>1, <3>1, <3>2, <3>3
    <2>3. QED
      BY <1>1, <1>7, <2>2 DEF UploadUndo, DeleteSoft
  <1>8. CASE UpdateWrite(r)
    <2>1. rid[r] \in Bills
      BY <1>8 DEF UpdateWrite, At
    <2>2. CASE Live(rid[r])
      <3>1. /\ WithEdit(rows[rid[r]]) \in Row
            /\ WithEdit(rows[rid[r]]).key = rows[rid[r]].key
            /\ WithEdit(rows[rid[r]]).st = "live"
        BY <2>1, <2>2, RowUpdates DEF Live
      <3>2. /\ WithPayment(rows[rid[r]]) \in Row
            /\ WithPayment(rows[rid[r]]).key = rows[rid[r]].key
            /\ WithPayment(rows[rid[r]]).st = "live"
        BY <2>1, <2>2, RowUpdates DEF Live
      <3>3. \/ rows' = [rows EXCEPT ![rid[r]] = WithEdit(rows[rid[r]])]
            \/ rows' = [rows EXCEPT ![rid[r]] = WithPayment(rows[rid[r]])]
        BY <1>8, <2>2 DEF UpdateWrite
      <3>4. Exists(rid[r])
        BY <2>2 DEF Live, Exists
      <3>5. QED
        BY <1>2, <2>1, <3>1, <3>2, <3>3, <3>4
    <2>3. QED
      BY <1>1, <1>8, <2>2 DEF UpdateWrite
  <1>9. CASE UploadSave(r) \/ UploadFull(r)
    <2>1. rid[r] \in Bills /\ copy[r] \in Row
      BY <1>9 DEF UploadSave, UploadFull, At
    <2>2. SaveRow(rid[r], copy[r]) \/ rows' = rows
      BY <1>9 DEF UploadSave, UploadFull
    <2>3. QED
      BY <1>1, <1>3, <2>1, <2>2
  <1>10. CASE ReextractReset(r)
    <2>1. rid[r] \in Bills /\ AsProcessing(copy[r]) \in Row
      BY <1>10, RowUpdates DEF ReextractReset, At
    <2>2. SaveRow(rid[r], AsProcessing(copy[r])) \/ rows' = rows
      BY <1>10 DEF ReextractReset
    <2>3. QED
      BY <1>1, <1>3, <2>1, <2>2
  <1>11. CASE MarkPaidSave(r)
    <2>1. rid[r] \in Bills /\ WithPayment(copy[r]) \in Row
      BY <1>11, RowUpdates DEF MarkPaidSave, At
    <2>2. SaveRow(rid[r], WithPayment(copy[r])) \/ rows' = rows
      BY <1>11 DEF MarkPaidSave
    <2>3. QED
      BY <1>1, <1>3, <2>1, <2>2
  <1>12. ASSUME UploadCheck(r) \/ ReextractFirst(r) \/ UpdateFirst(r)
                \/ MarkPaidFirst(r) \/ DeleteFirst(r) \/ UploadWipe(r)
                \/ UploadReload(r) \/ UploadPut(r) \/ UploadEnqueue(r)
                \/ ReextractEnqueue(r) \/ ReextractFull(r) \/ UpdateReload(r)
                \/ DeleteFile(r) \/ RequestFault(r) \/ PutFault(r)
         PROVE  rows' = rows
    BY <1>12 DEF UploadCheck, ReextractFirst, UpdateFirst, MarkPaidFirst,
       DeleteFirst, First, UploadWipe, UploadReload, UploadPut, UploadEnqueue,
       ReextractEnqueue, ReextractFull, UpdateReload, DeleteFile, RequestFault,
       PutFault, dbVars
  <1>13. QED
    BY <1>1, <1>4, <1>5, <1>6, <1>7, <1>8, <1>9, <1>10, <1>11, <1>12
    DEF RequestStart, HandlerStep, UploadStep

LEMMA WorkerWrites ==
  ASSUME TypeInv, OneRowPerFile, Worker \/ WorkerFault \/ Crash \/ UNCHANGED vars
  PROVE  RowsKept
  <1> USE DEF TypeInv, TypeOK, WorkerId
  <1>1. CASE rows' = rows
    BY <1>1 DEF RowsKept
  <1>2. ASSUME NEW x \in Row, NEW b \in Bills, SaveRow(b, x) PROVE RowsKept
    BY <1>2, SaveWrites DEF RowsKept
  <1>3. CASE WorkerPersist
    <2>1. wjob \in Bills /\ Extracted \in Row
      BY <1>3, ExtractedIsRow DEF WorkerPersist
    <2>2. SaveRow(wjob, Extracted) \/ rows' = rows
      BY <1>3 DEF WorkerPersist
    <2>3. QED
      BY <1>1, <1>2, <2>1, <2>2
  <1>4. CASE WorkerMarkFailed
    <2>1. wjob \in Bills /\ AsFailed(wcopy) \in Row
      BY <1>4, RowUpdates DEF WorkerMarkFailed, WorkerOK
    <2>2. SaveRow(wjob, AsFailed(wcopy)) \/ rows' = rows
      BY <1>4 DEF WorkerMarkFailed
    <2>3. QED
      BY <1>1, <1>2, <2>1, <2>2
  <1>5. ASSUME ~WorkerPersist, ~WorkerMarkFailed PROVE rows' = rows
    BY <1>5 DEF Worker, WorkerTake, WorkerLoad, WorkerExtract, WorkerInsertAlert,
       WorkerSendAlert, WorkerFinish, WorkerFault, Crash, vars, dbVars
  <1>6. QED
    BY <1>1, <1>3, <1>4, <1>5

(* The hard delete removes the row together with its children.             *)
LEMMA DeleteHardKeeps ==
  ASSUME TypeInv, OneRowPerFile, NoOrphanChildren, NEW r \in Requests, DeleteHard(r)
  PROVE  /\ rows' \in [Bills -> Row] /\ OneRowPerFile'
         /\ kids' \subseteq Bills /\ NoOrphanChildren'
  <1> USE DEF TypeInv, TypeOK, DbOK, RequestIds
  <1>1. rid[r] \in Bills /\ rows' = [rows EXCEPT ![rid[r]] = NoRow]
        /\ kids' = kids \ {rid[r]}
    BY DEF DeleteHard, At
  <1>2. NoRow \in Row /\ NoRow.st = "none"
    BY NewRows
  <1>3. rows' \in [Bills -> Row] /\ rows'[rid[r]].st = "none"
        /\ \A c \in Bills \ {rid[r]} : rows'[c] = rows[c]
    BY <1>1, <1>2
  <1>4. QED
    BY <1>1, <1>3 DEF OneRowPerFile, NoOrphanChildren, Exists

(* Children are only ever added together with the row they belong to.      *)
LEMMA ChildrenKeep ==
  ASSUME TypeInv, OneRowPerFile, NoOrphanChildren, RowsKept,
         kids' \subseteq kids \/ (WorkerPersist /\ SaveRow(wjob, Extracted)
                                /\ kids' \subseteq kids \cup {wjob})
  PROVE  kids' \subseteq Bills /\ NoOrphanChildren'
  <1> USE DEF TypeInv, TypeOK, DbOK, WorkerId, NoOrphanChildren
  <1>1. CASE kids' \subseteq kids
    BY <1>1, WritesKeep
  <1>2. CASE WorkerPersist /\ SaveRow(wjob, Extracted) /\ kids' \subseteq kids \cup {wjob}
    <2>1. wjob \in Bills /\ Extracted \in Row
      BY <1>2, ExtractedIsRow DEF WorkerPersist
    <2>2. AsLive(Extracted) \in Row /\ AsLive(Extracted).st = "live"
      BY <2>1, RowUpdates
    <2>3. rows' = [rows EXCEPT ![wjob] = AsLive(Extracted)]
      BY <1>2 DEF SaveRow
    <2>4. rows'[wjob].st # "none"
      BY <2>1, <2>2, <2>3
    <2>5. \A c \in Bills : Exists(c) => rows'[c].st # "none"
      BY WritesKeep DEF Exists
    <2>6. \A c \in kids' : c \in Bills /\ rows'[c].st # "none"
      BY <1>2, <2>1, <2>4, <2>5
    <2>7. QED
      BY <2>6 DEF Exists
  <1>3. QED
    BY <1>1, <1>2

LEMMA KidsChange ==
  ASSUME [Next]_vars, ~\E r \in Requests : DeleteHard(r)
  PROVE  kids' \subseteq kids \/ (WorkerPersist /\ SaveRow(wjob, Extracted)
                                /\ kids' \subseteq kids \cup {wjob})
  <1>1. CASE WorkerPersist
    BY <1>1 DEF WorkerPersist, ReplaceKids
  <1>2. ASSUME NEW r \in Requests, ~DeleteHard(r),
               RequestStart(r) \/ HandlerStep(r) \/ RequestFault(r) \/ PutFault(r)
        PROVE  kids' \subseteq kids
    BY <1>2 DEF RequestStart, HandlerStep, UploadStep, UploadCheck, First,
         ManualCreate, ReextractFirst, UpdateFirst, MarkPaidFirst, DeleteFirst,
         UploadCreate, UploadRestore, UploadWipe, UploadReload, UploadPut,
         UploadUndo, UploadSave, UploadEnqueue, UploadFull, ReextractReset,
         ReextractEnqueue, ReextractFull, UpdateWrite, UpdateReload, MarkPaidSave,
         DeleteSoft, DeleteFile, RequestFault, PutFault, dbVars
  <1>3. ASSUME ~WorkerPersist, Worker \/ WorkerFault \/ Crash \/ UNCHANGED vars
        PROVE  kids' = kids
    BY <1>3 DEF Worker, WorkerTake, WorkerLoad, WorkerExtract, WorkerInsertAlert,
       WorkerMarkFailed, WorkerSendAlert, WorkerFinish, WorkerFault, Crash, vars, dbVars
  <1>4. QED
    BY <1>1, <1>2, <1>3 DEF Next

-----------------------------------------------------------------------------
(* What changes the other tables.                                          *)

LEMMA AlertKeys ==
  \A b \in Bills, t \in Triggers : PeriodKey(b, t) \in AlertKey
  BY BillIds, BillAssumption DEF PeriodKey, AlertKey

(* The files on disk belong to rows, and ids are handed out one by one.    *)
LEMMA FilesType ==
  ASSUME TypeInv, [Next]_vars
  PROVE  pdf' \subseteq Keys /\ nextId' \in 1..(MaxBills + 1)
  <1> USE DEF TypeInv, TypeOK, DbOK
  <1>1. ASSUME NEW r \in Requests, UploadPut(r)
        PROVE  pdf' \subseteq Keys /\ nextId' \in 1..(MaxBills + 1)
    <2>1. copy[r].key \in Keys
      BY DEF RequestOK, Row
    <2>2. QED
      BY <1>1, <2>1 DEF UploadPut
  <1>2. ASSUME NEW r \in Requests, DeleteFile(r)
        PROVE  pdf' \subseteq Keys /\ nextId' \in 1..(MaxBills + 1)
    BY <1>2 DEF DeleteFile
  <1>3. ASSUME NEW r \in Requests, UploadCreate(r) \/ ManualCreate(r)
        PROVE  pdf' \subseteq Keys /\ nextId' \in 1..(MaxBills + 1)
    BY <1>3, BillAssumption DEF UploadCreate, ManualCreate
  <1>4. ASSUME NEW r \in Requests, ~UploadPut(r), ~DeleteFile(r), ~UploadCreate(r),
               ~ManualCreate(r),
               RequestStart(r) \/ HandlerStep(r) \/ RequestFault(r) \/ PutFault(r)
        PROVE  pdf' = pdf /\ nextId' = nextId
    BY <1>4 DEF RequestStart, HandlerStep, UploadStep, UploadCheck, First,
         ReextractFirst, UpdateFirst, MarkPaidFirst, DeleteFirst,
         UploadRestore, UploadWipe, UploadReload,
         UploadUndo, UploadSave, UploadEnqueue, UploadFull, ReextractReset,
         ReextractEnqueue, ReextractFull, UpdateWrite, UpdateReload, MarkPaidSave,
         DeleteSoft, DeleteHard, RequestFault, PutFault, dbVars
  <1>5. ASSUME Worker \/ WorkerFault \/ Crash \/ UNCHANGED vars
        PROVE  pdf' = pdf /\ nextId' = nextId
    BY <1>5 DEF Worker, WorkerTake, WorkerLoad, WorkerExtract, WorkerPersist,
       WorkerInsertAlert, WorkerMarkFailed, WorkerSendAlert, WorkerFinish,
       WorkerFault, Crash, vars, dbVars
  <1>6. QED
    BY <1>1, <1>2, <1>3, <1>4, <1>5 DEF Next

(* The alerts announced so far, one under way included, are covered by the *)
(* ledger rows present and removed.                                        *)
Sending(k) == wpc = "send" /\ k = PeriodKey(wjob, Head(wtodo))

AlertsCovered ==
  \A k \in AlertKey :
    fired[k] + (IF Sending(k) THEN 1 ELSE 0)
      <= purged[k] + (IF ledger[k] # 0 THEN 1 ELSE 0)

LedgerOK == ledger \in [AlertKey -> 0..MaxBills]

(* Steps of requests leave the ledger alone, except the hard delete.       *)
LEMMA LedgerFrame ==
  ASSUME NEW r \in Requests, ~DeleteHard(r),
         RequestStart(r) \/ HandlerStep(r) \/ RequestFault(r) \/ PutFault(r)
  PROVE  UNCHANGED <<ledger, histVars, workerVars>>
  BY DEF RequestStart, HandlerStep, UploadStep, UploadCheck, First,
     ManualCreate, ReextractFirst, UpdateFirst, MarkPaidFirst, DeleteFirst,
     UploadCreate, UploadRestore, UploadWipe, UploadReload, UploadPut,
     UploadUndo, UploadSave, UploadEnqueue, UploadFull, ReextractReset,
     ReextractEnqueue, ReextractFull, UpdateWrite, UpdateReload, MarkPaidSave,
     DeleteSoft, DeleteFile, RequestFault, PutFault, dbVars

LEMMA LedgerSteps ==
  ASSUME TypeInv, AlertsCovered, [Next]_vars
  PROVE  LedgerOK' /\ HistoryOK' /\ AlertsCovered'
  <1> USE DEF TypeInv, TypeOK, DbOK, HistoryOK, LedgerOK
  <1>1. CASE UNCHANGED <<ledger, histVars, workerVars>>
    BY <1>1 DEF AlertsCovered, Sending, histVars, workerVars
  <1>2. ASSUME NEW r \in Requests, DeleteHard(r)
        PROVE  LedgerOK' /\ HistoryOK' /\ AlertsCovered'
    <2>1. rid[r] \in Bills
      BY <1>2 DEF DeleteHard, At, RequestIds
    <2>2. /\ ledger' = [k \in AlertKey |-> IF ledger[k] = rid[r] THEN 0 ELSE ledger[k]]
          /\ purged' = [k \in AlertKey |-> IF ledger[k] = rid[r] THEN purged[k] + 1
                                                                 ELSE purged[k]]
          /\ UNCHANGED <<workerVars, crashes, fired>>
      BY <1>2 DEF DeleteHard
    <2>3. LedgerOK' /\ HistoryOK'
      BY <2>2, BillAssumption
    <2>4. 0 \notin Bills
      BY DEF Bills
    <2>5. \A k \in AlertKey : Sending(k)' <=> Sending(k)
      BY <2>2 DEF Sending, workerVars
    <2>6. QED
      BY <2>1, <2>2, <2>3, <2>4, <2>5 DEF AlertsCovered
  <1>3. CASE WorkerInsertAlert
    <2> DEFINE k0 == PeriodKey(wjob, Head(wtodo))
    <2>1. wjob \in Bills /\ Head(wtodo) \in Triggers
      BY <1>3 DEF WorkerInsertAlert, WorkerId, WorkerOK
    <2>2. k0 \in AlertKey
      BY <2>1, AlertKeys
    <2>3. wpc = "alert" /\ UNCHANGED <<wjob, histVars>>
          /\ \/ ledger[k0] = 0 /\ ledger' = [ledger EXCEPT ![k0] = wjob]
                /\ wpc' = "send" /\ wtodo' = wtodo
             \/ ledger' = ledger /\ wpc' = wpc
      BY <1>3 DEF WorkerInsertAlert
    <2>4. CASE ledger' = ledger /\ wpc' = wpc
      BY <2>3, <2>4 DEF AlertsCovered, Sending, histVars
    <2>5. CASE ledger[k0] = 0 /\ ledger' = [ledger EXCEPT ![k0] = wjob]
               /\ wpc' = "send" /\ wtodo' = wtodo
      <3>1. LedgerOK' /\ HistoryOK'
        BY <2>1, <2>2, <2>3, <2>5, BillIds DEF histVars
      <3>2. \A k \in AlertKey : ~Sending(k) /\ (Sending(k)' <=> k = k0)
        BY <2>3, <2>5 DEF Sending
      <3>3. wjob # 0
        BY <2>1 DEF Bills
      <3>4. QED
        BY <2>2, <2>3, <2>5, <3>1, <3>2, <3>3 DEF AlertsCovered, histVars
    <2>6. QED
      BY <2>3, <2>4, <2>5
  <1>4. CASE WorkerSendAlert
    <2> DEFINE k0 == PeriodKey(wjob, Head(wtodo))
    <2>1. wjob \in Bills /\ Head(wtodo) \in Triggers
      BY <1>4 DEF WorkerSendAlert, WorkerId, WorkerOK
    <2>2. k0 \in AlertKey
      BY <2>1, AlertKeys
    <2>3. wpc = "send" /\ wpc' = "alert" /\ fired' = [fired EXCEPT ![k0] = fired[k0] + 1]
          /\ UNCHANGED <<ledger, crashes, purged>>
      BY <1>4 DEF WorkerSendAlert, dbVars
    <2>4. LedgerOK' /\ HistoryOK'
      BY <2>2, <2>3
    <2>5. \A k \in AlertKey : ~Sending(k)' /\ (Sending(k) <=> k = k0)
      BY <2>3 DEF Sending
    <2>6. QED
      BY <2>2, <2>3, <2>4, <2>5 DEF AlertsCovered
  <1>5. CASE Crash
    <2>1. UNCHANGED <<ledger, fired, purged>> /\ wpc' = "idle"
          /\ crashes' = crashes + 1 /\ crashes < MaxCrashes
      BY <1>5 DEF Crash, WorkerIdle, dbVars
    <2>2. LedgerOK' /\ HistoryOK'
      BY <2>1, BillAssumption
    <2>3. QED
      BY <2>1, <2>2 DEF AlertsCovered, Sending
  <1>6. CASE WorkerTake \/ WorkerLoad \/ WorkerExtract \/ WorkerPersist
             \/ WorkerMarkFailed \/ WorkerFinish \/ WorkerFault
    <2>1. UNCHANGED <<ledger, histVars>> /\ wpc' # "send"
      BY <1>6 DEF WorkerTake, WorkerLoad, WorkerExtract, WorkerPersist,
         WorkerMarkFailed, WorkerFinish, WorkerFault, WorkerIdle, dbVars
    <2>2. LedgerOK' /\ HistoryOK'
      BY <2>1 DEF histVars
    <2>3. QED
      BY <2>1, <2>2 DEF AlertsCovered, Sending, histVars
  <1>7. CASE UNCHANGED vars
    BY <1>1, <1>7 DEF vars, dbVars
  <1>8. QED
    BY <1>1, <1>2, <1>3, <1>4, <1>5, <1>6, <1>7, LedgerFrame DEF Next, Worker

-----------------------------------------------------------------------------
(* The inductive invariant: types, one row per file, children with their   *)
(* bill, alerts covered by the ledger.  The four parts are proved together *)
(* because each statement that writes a row relies on the types and on the *)
(* rows being apart, and the children on the rows that stay.               *)
BillInv == TypeInv /\ OneRowPerFile /\ NoOrphanChildren /\ AlertsCovered

LEMMA InitInv == Init => BillInv
  <1> SUFFICES ASSUME Init PROVE BillInv
    OBVIOUS
  <1>1. TypeInv
    BY InitType
  <1>2. PICK first \in SettledRows :
          /\ MaxBills = 0 => first = NoRow
          /\ rows = [b \in Bills |-> IF b = 1 THEN first ELSE NoRow]
          /\ kids = IF first = NoRow THEN {} ELSE {1}
    BY DEF Init
  <1>3. first # NoRow => first.st # "none"
    BY <1>2 DEF SettledRows
  <1>4. NoRow.st = "none"
    BY NewRows
  <1>5. OneRowPerFile
    BY <1>2, <1>4 DEF OneRowPerFile, Exists
  <1>6. NoOrphanChildren
    BY <1>2, <1>3, BillAssumption DEF NoOrphanChildren, Exists, Bills
  <1>7. AlertsCovered
    BY DEF Init, AlertsCovered, Sending
  <1>8. QED
    BY <1>1, <1>5, <1>6, <1>7 DEF BillInv

LEMMA RequestStutter ==
  ASSUME TypeInv, [Next]_vars
  PROVE  RequestOK' /\ RequestIds'
  <1> USE DEF TypeInv, TypeOK
  <1>1. CASE UNCHANGED reqVars
    BY <1>1 DEF RequestOK, RequestIds, reqVars
  <1>2. CASE Crash
    BY <1>2, LabelFacts DEF Crash, RequestOK, RequestIds
  <1>3. ASSUME NEW r \in Requests,
               RequestStart(r) \/ HandlerStep(r) \/ RequestFault(r) \/ PutFault(r)
        PROVE  RequestOK' /\ RequestIds'
    BY <1>3, RequestSteps
  <1>4. CASE Worker \/ WorkerFault \/ UNCHANGED vars
    BY <1>1, <1>4 DEF Worker, WorkerTake, WorkerLoad, WorkerExtract, WorkerPersist,
       WorkerInsertAlert, WorkerMarkFailed, WorkerSendAlert, WorkerFinish,
       WorkerFault, vars
  <1>5. QED
    BY <1>2, <1>3, <1>4 DEF Next

LEMMA NextInv == BillInv /\ [Next]_vars => BillInv'
  <1> SUFFICES ASSUME BillInv, [Next]_vars PROVE BillInv'
    OBVIOUS
  <1> USE DEF BillInv
  <1>1. RequestOK' /\ RequestIds'
    BY RequestStutter
  <1>2. WorkerOK' /\ WorkerId'
    BY WorkerSteps
  <1>3. LedgerOK' /\ HistoryOK' /\ AlertsCovered'
    BY LedgerSteps
  <1>4. pdf' \subseteq Keys /\ nextId' \in 1..(MaxBills + 1)
    BY FilesType
  <1>5. /\ rows' \in [Bills -> Row] /\ OneRowPerFile'
        /\ kids' \subseteq Bills /\ NoOrphanChildren'
    <2>1. CASE \E r \in Requests : DeleteHard(r)
      BY <2>1, DeleteHardKeeps
    <2>2. CASE ~\E r \in Requests : DeleteHard(r)
      <3>1. RowsKept
        BY <2>2, RequestWrites, WorkerWrites DEF Next
      <3>2. QED
        BY <2>2, <3>1, WritesKeep, KidsChange, ChildrenKeep
    <2>3. QED
      BY <2>1, <2>2
  <1>6. DbOK'
    BY <1>3, <1>4, <1>5 DEF DbOK, LedgerOK
  <1>7. QED
    BY <1>1, <1>2, <1>3, <1>5, <1>6 DEF TypeInv, TypeOK

LEMMA Inductive == Spec => []BillInv
  BY InitInv, NextInv, PTL DEF Spec

-----------------------------------------------------------------------------
(* Every variable keeps its type, whatever the interleaving.               *)
THEOREM TypeCorrect == Spec => []TypeOK
  <1>1. BillInv => TypeOK
    BY DEF BillInv, TypeInv
  <1>2. QED
    BY <1>1, Inductive, PTL

(* At most one row per property and file hash (handlers/bills.go,          *)
(* workers/extraction.go), for any number of requests, files and faults.   *)
THEOREM OneRowPerFileHolds == Spec => []OneRowPerFile
  <1>1. BillInv => OneRowPerFile
    BY DEF BillInv
  <1>2. QED
    BY <1>1, Inductive, PTL

(* Line items and meters never outlive their bill.                         *)
THEOREM NoOrphanChildrenHolds == Spec => []NoOrphanChildren
  <1>1. BillInv => NoOrphanChildren
    BY DEF BillInv
  <1>2. QED
    BY <1>1, Inductive, PTL

(* An alert is broadcast at most once, and once more for each time a hard  *)
(* delete removed its ledger row (evaluateAndFire, TryInsertNotification). *)
THEOREM AlertAtMostOnceHolds == Spec => []AlertAtMostOnce
  <1>1. BillInv => AlertAtMostOnce
    BY DEF BillInv, TypeInv, TypeOK, HistoryOK, AlertsCovered, AlertAtMostOnce
  <1>2. QED
    BY <1>1, Inductive, PTL

-----------------------------------------------------------------------------
(* A request touches no other one, and never moves again once it is done.  *)
RequestMoves(r) ==
  /\ pc[r] # "done"
  /\ \A q \in Requests \ {r} :
       /\ op'[q] = op[q] /\ pc'[q] = pc[q] /\ code'[q] = code[q]
       /\ rid'[q] = rid[q] /\ copy'[q] = copy[q]

LEMMA RequestFrame ==
  ASSUME TypeInv, NEW r \in Requests,
         RequestStart(r) \/ HandlerStep(r) \/ RequestFault(r) \/ PutFault(r)
  PROVE  RequestMoves(r)
  <1> USE DEF TypeInv, TypeOK, RequestOK, RequestMoves
  <1>1. ASSUME UploadCheck(r) PROVE RequestMoves(r)
    BY <1>1 DEF UploadCheck, Arrive, Hold, Goto, Reply
  <1>2. ASSUME UploadCreate(r) PROVE RequestMoves(r)
    BY <1>2 DEF UploadCreate, At, Hold, Goto, Reply
  <1>3. ASSUME UploadRestore(r) PROVE RequestMoves(r)
    BY <1>3 DEF UploadRestore, At, Goto
  <1>4. ASSUME UploadWipe(r) PROVE RequestMoves(r)
    BY <1>4 DEF UploadWipe, At, Goto
  <1>5. ASSUME UploadReload(r) PROVE RequestMoves(r)
    BY <1>5 DEF UploadReload, At, Hold, Goto, Reply
  <1>6. ASSUME UploadPut(r) PROVE RequestMoves(r)
    BY <1>6 DEF UploadPut, At, Goto
  <1>7. ASSUME UploadUndo(r) PROVE RequestMoves(r)
    BY <1>7 DEF UploadUndo, At, Reply
  <1>8. ASSUME UploadSave(r) PROVE RequestMoves(r)
    BY <1>8 DEF UploadSave, At, Goto, Reply
  <1>9. ASSUME UploadEnqueue(r) PROVE RequestMoves(r)
    BY <1>9 DEF UploadEnqueue, At, Goto, Reply
  <1>10. ASSUME UploadFull(r) PROVE RequestMoves(r)
    BY <1>10 DEF UploadFull, At, Reply
  <1>11. ASSUME ManualCreate(r) PROVE RequestMoves(r)
    BY <1>11 DEF ManualCreate, Arrive, Hold, Reply
  <1>12. ASSUME ReextractFirst(r) PROVE RequestMoves(r)
    BY <1>12 DEF ReextractFirst, First, Arrive, Hold, Goto, Reply
  <1>13. ASSUME ReextractReset(r) PROVE RequestMoves(r)
    BY <1>13 DEF ReextractReset, At, Goto, Reply
  <1>14. ASSUME ReextractEnqueue(r) PROVE RequestMoves(r)
    BY <1>14 DEF ReextractEnqueue, At, Reply
  <1>15. ASSUME ReextractFull(r) PROVE RequestMoves(r)
    BY <1>15 DEF ReextractFull, At, Reply
  <1>16. ASSUME UpdateFirst(r) PROVE RequestMoves(r)
    BY <1>16 DEF UpdateFirst, First, Arrive, Hold, Goto, Reply
  <1>17. ASSUME UpdateWrite(r) PROVE RequestMoves(r)
    BY <1>17 DEF UpdateWrite, At, Goto
  <1>18. ASSUME UpdateReload(r) PROVE RequestMoves(r)
    BY <1>18 DEF UpdateReload, At, Reply
  <1>19. ASSUME MarkPaidFirst(r) PROVE RequestMoves(r)
    BY <1>19 DEF MarkPaidFirst, First, Arrive, Hold, Goto, Reply
  <1>20. ASSUME MarkPaidSave(r) PROVE RequestMoves(r)
    BY <1>20 DEF MarkPaidSave, At, Reply
  <1>21. ASSUME DeleteFirst(r) PROVE RequestMoves(r)
    BY <1>21 DEF DeleteFirst, First, Arrive, Hold, Goto, Reply
  <1>22. ASSUME DeleteSoft(r) PROVE RequestMoves(r)
    BY <1>22 DEF DeleteSoft, At, Reply
  <1>23. ASSUME DeleteHard(r) PROVE RequestMoves(r)
    BY <1>23 DEF DeleteHard, At, Goto
  <1>24. ASSUME DeleteFile(r) PROVE RequestMoves(r)
    BY <1>24 DEF DeleteFile, At, Reply
  <1>25. ASSUME RequestFault(r) PROVE RequestMoves(r)
    BY <1>25 DEF RequestFault, Reply, FaultCode
  <1>26. ASSUME PutFault(r) PROVE RequestMoves(r)
    BY <1>26 DEF PutFault, At, Goto
  <1> QED
    BY <1>1, <1>2, <1>3, <1>4, <1>5, <1>6, <1>7, <1>8, <1>9, <1>10, <1>11, <1>12, <1>13, <1>14, <1>15, <1>16, <1>17, <1>18, <1>19, <1>20, <1>21, <1>22, <1>23, <1>24, <1>25, <1>26
    DEF RequestStart, HandlerStep, UploadStep

-----------------------------------------------------------------------------
(* The versions of a bill that are around: its row, the copies requests    *)
(* hold and the copy of the worker.  A version is traced by its bill, its  *)
(* key and whether it names a file.                                        *)
Trace(b, x) == <<b, x.key, x.path>>

Held(F) ==
  /\ \A b \in Bills : Exists(b) => Trace(b, rows[b]) \in F
  /\ \A r \in Requests : rid[r] \in Bills => Trace(rid[r], copy[r]) \in F
  /\ wpc \notin {"idle", "taken"} => Trace(wjob, wcopy) \in F

(* Whatever columns are written, a version keeps its trace.                *)
LEMMA UpdatesKeepTrace ==
  \A x \in Row, b \in Bills :
    /\ Trace(b, AsLive(x)) = Trace(b, x)
    /\ Trace(b, AsDeleted(x)) = Trace(b, x)
    /\ Trace(b, AsProcessing(x)) = Trace(b, x)
    /\ Trace(b, AsFailed(x)) = Trace(b, x)
    /\ Trace(b, WithPayment(x)) = Trace(b, x)
    /\ Trace(b, WithEdit(x)) = Trace(b, x)
    /\ Trace(b, AsNeedsReview(x)) = Trace(b, x)
    /\ \A s \in {"completed", "needs_review"} :
         Trace(b, WithParse(x, s)) = Trace(b, x)
  BY DEF Row, Trace, AsLive, AsDeleted, AsProcessing, AsFailed, WithPayment,
         WithEdit, AsNeedsReview, WithParse

LEMMA ExtractedKeepsTrace ==
  ASSUME WorkerOK, WorkerId, wpc = "persist"
  PROVE  Trace(wjob, Extracted) = Trace(wjob, wcopy)
  BY UpdatesKeepTrace DEF WorkerOK, WorkerId, Extracted, ApplyParsed

(* Writing a version of a bill to its row keeps the traces of the rows.    *)
LEMMA HeldWrite ==
  ASSUME TypeInv, NEW F, Held(F), NEW b \in Bills, NEW x \in Row,
         Trace(b, x) \in F, rows' = [rows EXCEPT ![b] = x]
  PROVE  \A c \in Bills : Exists(c)' => Trace(c, rows'[c]) \in F
  <1>1. rows \in [Bills -> Row]
    BY DEF TypeInv, TypeOK, DbOK
  <1>2. rows'[b] = x /\ \A c \in Bills \ {b} : rows'[c] = rows[c]
    BY <1>1
  <1>3. QED
    BY <1>2 DEF Held, Exists

LEMMA HeldSave ==
  ASSUME TypeInv, NEW F, Held(F), NEW b \in Bills, NEW x \in Row,
         Trace(b, x) \in F, SaveRow(b, x)
  PROVE  \A c \in Bills : Exists(c)' => Trace(c, rows'[c]) \in F
  <1>1. AsLive(x) \in Row /\ Trace(b, AsLive(x)) \in F
    BY RowUpdates, UpdatesKeepTrace
  <1>2. QED
    BY <1>1, HeldWrite DEF SaveRow

(* Taking a row that is there into memory.                                 *)
LEMMA HeldCopies ==
  ASSUME TypeInv, NEW F, Held(F), NEW r \in Requests, NEW b \in 0..MaxBills, NEW x,
         b \in Bills => Trace(b, x) \in F, Hold(r, b, x)
  PROVE  \A q \in Requests : rid'[q] \in Bills => Trace(rid'[q], copy'[q]) \in F
  <1>1. rid'[r] = b /\ copy'[r] = x
        /\ \A q \in Requests \ {r} : rid'[q] = rid[q] /\ copy'[q] = copy[q]
    BY DEF Hold, TypeInv, TypeOK, RequestOK
  <1>2. QED
    BY <1>1 DEF Held

(* The steps that bring no new trace into the world: all but the inserts   *)
(* and the upload that puts its file on disk.                              *)
LEMMA HeldFirst ==
  ASSUME TypeInv, NEW F, Held(F), NEW r \in Requests, NEW k, NEW next, First(r, k, next)
  PROVE  Held(F)'
  <1>1. PICK b \in Bills :
          IF Live(b) THEN Goto(r, next) /\ Hold(r, b, rows[b])
                     ELSE Reply(r, 404) /\ UNCHANGED <<rid, copy>>
    BY DEF First
  <1>2. UNCHANGED <<rows, wpc, wjob, wcopy>>
    BY DEF First, dbVars, workerVars
  <1>3. CASE Live(b)
    <2>1. Hold(r, b, rows[b]) /\ Trace(b, rows[b]) \in F /\ b \in 0..MaxBills
      BY <1>1, <1>3, BillIds DEF Held, Exists, Live
    <2>2. \A q \in Requests : rid'[q] \in Bills => Trace(rid'[q], copy'[q]) \in F
      BY <2>1, HeldCopies
    <2>3. QED
      BY <1>2, <2>2 DEF Held, Exists
  <1>4. CASE ~Live(b)
    BY <1>1, <1>2, <1>4 DEF Held, Exists
  <1>5. QED
    BY <1>3, <1>4

LEMMA HeldUploads ==
  ASSUME TypeInv, NEW F, Held(F), NEW r \in Requests,
         UploadCheck(r) \/ UploadRestore(r) \/ UploadWipe(r) \/ UploadReload(r)
           \/ UploadUndo(r) \/ UploadSave(r) \/ UploadEnqueue(r) \/ UploadFull(r)
  PROVE  Held(F)'
  <1> USE DEF TypeInv, TypeOK, DbOK, RequestOK, RequestIds
  <1> DEFINE RowsHeld == \A b \in Bills : Exists(b)' => Trace(b, rows'[b]) \in F
             CopiesHeld == \A q \in Requests :
                             rid'[q] \in Bills => Trace(rid'[q], copy'[q]) \in F
  <1>1. UNCHANGED <<wpc, wjob, wcopy>>
    BY DEF UploadCheck, UploadRestore, UploadWipe, UploadReload, UploadUndo,
       UploadSave, UploadEnqueue, UploadFull, workerVars
  <1>2. rows' = rows => RowsHeld
    BY DEF Held, Exists
  <1>3. UNCHANGED <<rid, copy>> => CopiesHeld
    BY DEF Held
  <1>4. CASE UploadCheck(r)
    <2>1. rows' = rows
      BY <1>4 DEF UploadCheck, dbVars
    <2>2. \/ UNCHANGED <<rid, copy>>
          \/ \E b \in Bills : Exists(b) /\ Hold(r, b, rows[b])
          \/ \E f \in Files : Hold(r, 0, NewUpload(f))
      BY <1>4 DEF UploadCheck
    <2>3. ASSUME NEW b \in Bills, Exists(b), Hold(r, b, rows[b]) PROVE CopiesHeld
      <3>1. Trace(b, rows[b]) \in F /\ b \in 0..MaxBills
        BY <2>3, BillIds DEF Held
      <3>2. QED
        BY <2>3, <3>1, HeldCopies
    <2>4. ASSUME NEW f \in Files, Hold(r, 0, NewUpload(f)) PROVE CopiesHeld
      <3>1. 0 \in 0..MaxBills /\ 0 \notin Bills
        BY BillAssumption DEF Bills
      <3>2. QED
        BY <2>4, <3>1, HeldCopies
    <2>5. CopiesHeld
      BY <1>3, <2>2, <2>3, <2>4
    <2>6. QED
      BY <1>1, <1>2, <2>1, <2>5 DEF Held
  <1>5. CASE UploadRestore(r)
    <2>1. rid[r] \in Bills /\ UNCHANGED <<rid, copy>>
      BY <1>5 DEF UploadRestore, At
    <2>2. CASE Exists(rid[r])
      <3>1. rows[rid[r]] \in Row /\ Trace(rid[r], rows[rid[r]]) \in F
        BY <2>1, <2>2 DEF Held
      <3>2. AsProcessing(rows[rid[r]]) \in Row
            /\ Trace(rid[r], AsProcessing(rows[rid[r]])) \in F
        BY <2>1, <3>1, RowUpdates, UpdatesKeepTrace
      <3>3. AsLive(AsProcessing(rows[rid[r]])) \in Row
            /\ Trace(rid[r], AsLive(AsProcessing(rows[rid[r]]))) \in F
        BY <2>1, <3>2, RowUpdates, UpdatesKeepTrace
      <3>4. rows' = [rows EXCEPT ![rid[r]] = AsLive(AsProcessing(rows[rid[r]]))]
        BY <1>5, <2>2 DEF UploadRestore
      <3>5. RowsHeld
        BY <2>1, <3>3, <3>4, HeldWrite
      <3>6. QED
        BY <1>1, <1>3, <2>1, <3>5 DEF Held
    <2>3. CASE ~Exists(rid[r])
      BY <1>1, <1>2, <1>3, <1>5, <2>1, <2>3 DEF UploadRestore, Held
    <2>4. QED
      BY <2>2, <2>3
  <1>6. CASE UploadWipe(r)
    BY <1>1, <1>2, <1>3, <1>6 DEF UploadWipe, Held
  <1>7. CASE UploadReload(r)
    <2>1. rows' = rows
      BY <1>7 DEF UploadReload, dbVars
    <2>2. CASE Live(rid[r])
      <3>1. rid[r] \in Bills /\ rid[r] \in 0..MaxBills
        BY <1>7 DEF UploadReload, At
      <3>2. Trace(rid[r], rows[rid[r]]) \in F /\ Hold(r, rid[r], rows[rid[r]])
        BY <1>7, <2>2, <3>1 DEF UploadReload, Held, Exists, Live
      <3>3. CopiesHeld
        BY <3>1, <3>2, HeldCopies
      <3>4. QED
        BY <1>1, <1>2, <2>1, <3>3 DEF Held
    <2>3. CASE ~Live(rid[r])
      BY <1>1, <1>2, <1>3, <1>7, <2>1, <2>3 DEF UploadReload, Held
    <2>4. QED
      BY <2>2, <2>3
  <1>8. CASE UploadUndo(r)
    <2>1. rid[r] \in Bills /\ UNCHANGED <<rid, copy>>
      BY <1>8 DEF UploadUndo, At
    <2>2. CASE Live(rid[r])
      <3>0. rows[rid[r]] \in Row /\ Trace(rid[r], rows[rid[r]]) \in F
        BY <2>1, <2>2 DEF Held, Live, Exists
      <3>1. AsDeleted(rows[rid[r]]) \in Row
            /\ Trace(rid[r], AsDeleted(rows[rid[r]])) \in F
        BY <2>1, <3>0, RowUpdates, UpdatesKeepTrace
      <3>2. rows' = [rows EXCEPT ![rid[r]] = AsDeleted(rows[rid[r]])]
        BY <1>8, <2>2 DEF UploadUndo
      <3>3. RowsHeld
        BY <2>1, <3>1, <3>2, HeldWrite
      <3>4. QED
        BY <1>1, <1>3, <2>1, <3>3 DEF Held
    <2>3. CASE ~Live(rid[r])
      BY <1>1, <1>2, <1>3, <1>8, <2>1, <2>3 DEF UploadUndo, Held
    <2>4. QED
      BY <2>2, <2>3
  <1>9. CASE UploadSave(r) \/ UploadFull(r)
    <2>1. rid[r] \in Bills /\ copy[r] \in Row /\ UNCHANGED <<rid, copy>>
      BY <1>9 DEF UploadSave, UploadFull, At
    <2>2. SaveRow(rid[r], copy[r]) \/ rows' = rows
      BY <1>9 DEF UploadSave, UploadFull
    <2>3. RowsHeld
      BY <1>2, <2>1, <2>2, HeldSave DEF Held
    <2>4. QED
      BY <1>1, <1>3, <2>1, <2>3 DEF Held
  <1>10. CASE UploadEnqueue(r)
    <2>1. rows' = rows /\ rid' = rid
      BY <1>10 DEF UploadEnqueue, dbVars
    <2>2. copy' = copy \/ copy' = [copy EXCEPT ![r] = AsFailed(copy[r])]
      BY <1>10 DEF UploadEnqueue
    <2>3. copy[r] \in Row /\ rid[r] \in Bills
      BY <1>10 DEF UploadEnqueue, At
    <2>4. Trace(rid[r], AsFailed(copy[r])) \in F
      BY <2>3, UpdatesKeepTrace DEF Held
    <2>5. CopiesHeld
      BY <2>1, <2>2, <2>4 DEF Held
    <2>6. QED
      BY <1>1, <1>2, <2>1, <2>5 DEF Held
  <1>11. QED
    BY <1>4, <1>5, <1>6, <1>7, <1>8, <1>9, <1>10

LEMMA HeldRequests ==
  ASSUME TypeInv, NEW F, Held(F), NEW r \in Requests,
         RequestStart(r) \/ HandlerStep(r) \/ RequestFault(r) \/ PutFault(r),
         ~UploadPut(r), ~UploadCreate(r), ~ManualCreate(r)
  PROVE  Held(F)'
  <1> USE DEF TypeInv, TypeOK, DbOK, RequestOK, RequestIds
  <1> DEFINE RowsHeld == \A b \in Bills : Exists(b)' => Trace(b, rows'[b]) \in F
             CopiesHeld == \A q \in Requests :
                             rid'[q] \in Bills => Trace(rid'[q], copy'[q]) \in F
  <1>1. UNCHANGED <<wpc, wjob, wcopy>> /\ RowsHeld /\ CopiesHeld => Held(F)'
    BY DEF Held
  <1>2. rows' = rows => RowsHeld
    BY DEF Held, Exists
  <1>3. UNCHANGED <<rid, copy>> => CopiesHeld
    BY DEF Held
  <1>4. CASE ReextractFirst(r) \/ UpdateFirst(r) \/ MarkPaidFirst(r) \/ DeleteFirst(r)
    BY <1>4, HeldFirst DEF ReextractFirst, UpdateFirst, MarkPaidFirst, DeleteFirst
  <1>5. CASE ReextractReset(r)
    <2>1. rid[r] \in Bills /\ copy[r] \in Row /\ UNCHANGED <<wpc, wjob, wcopy, rid>>
      BY <1>5 DEF ReextractReset, At, workerVars
    <2>2. AsProcessing(copy[r]) \in Row /\ Trace(rid[r], AsProcessing(copy[r])) \in F
      BY <2>1, RowUpdates, UpdatesKeepTrace DEF Held
    <2>3. \/ UNCHANGED <<rows, copy>>
          \/ /\ SaveRow(rid[r], AsProcessing(copy[r]))
             /\ copy' = [copy EXCEPT ![r] = AsProcessing(copy[r])]
      BY <1>5 DEF ReextractReset
    <2>4. RowsHeld
      BY <1>2, <2>1, <2>2, <2>3, HeldSave
    <2>5. CopiesHeld
      BY <2>1, <2>2, <2>3 DEF Held
    <2>6. QED
      BY <1>1, <2>1, <2>4, <2>5
  <1>6. CASE UpdateWrite(r)
    <2>1. rid[r] \in Bills /\ UNCHANGED <<wpc, wjob, wcopy, rid, copy>>
      BY <1>6 DEF UpdateWrite, At, workerVars
    <2>2. CASE Live(rid[r])
      <3>1. rows[rid[r]] \in Row /\ Trace(rid[r], rows[rid[r]]) \in F
        BY <2>1, <2>2 DEF Held, Live, Exists
      <3>2. /\ WithEdit(rows[rid[r]]) \in Row /\ WithPayment(rows[rid[r]]) \in Row
            /\ Trace(rid[r], WithEdit(rows[rid[r]])) \in F
            /\ Trace(rid[r], WithPayment(rows[rid[r]])) \in F
        BY <2>1, <3>1, RowUpdates, UpdatesKeepTrace
      <3>3. \/ rows' = [rows EXCEPT ![rid[r]] = WithEdit(rows[rid[r]])]
            \/ rows' = [rows EXCEPT ![rid[r]] = WithPayment(rows[rid[r]])]
        BY <1>6, <2>2 DEF UpdateWrite
      <3>4. RowsHeld
        BY <2>1, <3>2, <3>3, HeldWrite
      <3>5. QED
        BY <1>1, <1>3, <2>1, <3>4
    <2>3. CASE ~Live(rid[r])
      BY <1>1, <1>2, <1>3, <1>6, <2>1, <2>3 DEF UpdateWrite
    <2>4. QED
      BY <2>2, <2>3
  <1>7. CASE MarkPaidSave(r)
    <2>1. rid[r] \in Bills /\ copy[r] \in Row
          /\ UNCHANGED <<wpc, wjob, wcopy, rid, copy>>
      BY <1>7 DEF MarkPaidSave, At, workerVars
    <2>2. WithPayment(copy[r]) \in Row /\ Trace(rid[r], WithPayment(copy[r])) \in F
      BY <2>1, RowUpdates, UpdatesKeepTrace DEF Held
    <2>3. SaveRow(rid[r], WithPayment(copy[r])) \/ rows' = rows
      BY <1>7 DEF MarkPaidSave
    <2>4. RowsHeld
      BY <1>2, <2>1, <2>2, <2>3, HeldSave
    <2>5. QED
      BY <1>1, <1>3, <2>1, <2>4
  <1>8. CASE DeleteSoft(r)
    <2>1. rid[r] \in Bills /\ UNCHANGED <<wpc, wjob, wcopy, rid, copy>>
      BY <1>8 DEF DeleteSoft, At, workerVars
    <2>2. CASE Live(rid[r])
      <3>1. rows[rid[r]] \in Row /\ Trace(rid[r], rows[rid[r]]) \in F
        BY <2>1, <2>2 DEF Held, Live, Exists
      <3>2. AsDeleted(rows[rid[r]]) \in Row
            /\ Trace(rid[r], AsDeleted(rows[rid[r]])) \in F
        BY <2>1, <3>1, RowUpdates, UpdatesKeepTrace
      <3>3. rows' = [rows EXCEPT ![rid[r]] = AsDeleted(rows[rid[r]])]
        BY <1>8, <2>2 DEF DeleteSoft
      <3>4. RowsHeld
        BY <2>1, <3>2, <3>3, HeldWrite
      <3>5. QED
        BY <1>1, <1>3, <2>1, <3>4
    <2>3. CASE ~Live(rid[r])
      BY <1>1, <1>2, <1>3, <1>8, <2>1, <2>3 DEF DeleteSoft
    <2>4. QED
      BY <2>2, <2>3
  <1>9. CASE DeleteHard(r)
    <2>1. rid[r] \in Bills /\ rows' = [rows EXCEPT ![rid[r]] = NoRow]
          /\ UNCHANGED <<wpc, wjob, wcopy, rid, copy>>
      BY <1>9 DEF DeleteHard, At, workerVars
    <2>2. rows'[rid[r]].st = "none"
          /\ \A c \in Bills \ {rid[r]} : rows'[c] = rows[c]
      BY <2>1, NewRows
    <2>3. RowsHeld
      BY <2>2 DEF Held, Exists
    <2>4. QED
      BY <1>1, <1>3, <2>1, <2>3
  <1>10. ASSUME ReextractEnqueue(r) \/ ReextractFull(r) \/ UpdateReload(r)
                \/ DeleteFile(r) \/ RequestFault(r) \/ PutFault(r)
         PROVE  UNCHANGED <<rows, rid, copy, wpc, wjob, wcopy>>
    BY <1>10 DEF ReextractEnqueue, ReextractFull, UpdateReload, DeleteFile,
       RequestFault, PutFault, dbVars, workerVars
  <1>11. QED
    BY <1>1, <1>2, <1>3, <1>4, <1>5, <1>6, <1>7, <1>8, <1>9, <1>10, HeldUploads
    DEF RequestStart, HandlerStep, UploadStep

LEMMA HeldWorker ==
  ASSUME TypeInv, NEW F, Held(F), Worker \/ WorkerFault \/ Crash \/ UNCHANGED vars
  PROVE  Held(F)'
  <1> USE DEF TypeInv, TypeOK, DbOK, WorkerId, WorkerOK
  <1> DEFINE RowsHeld == \A b \in Bills : Exists(b)' => Trace(b, rows'[b]) \in F
             CopyHeld == wpc' \notin {"idle", "taken"} => Trace(wjob', wcopy') \in F
  <1>1. UNCHANGED <<rid, copy>>
    BY DEF Worker, WorkerTake, WorkerLoad, WorkerExtract, WorkerPersist,
       WorkerInsertAlert, WorkerMarkFailed, WorkerSendAlert, WorkerFinish,
       WorkerFault, Crash, vars, reqVars
  <1>2. RowsHeld /\ CopyHeld => Held(F)'
    BY <1>1 DEF Held
  <1>3. rows' = rows => RowsHeld
    BY DEF Held, Exists
  <1>4. CASE WorkerLoad
    <2>1. rows' = rows /\ wpc = "taken" /\ wjob \in Bills
      BY <1>4 DEF WorkerLoad, dbVars
    <2>2. CASE Live(wjob)
      BY <1>2, <1>3, <1>4, <2>1, <2>2 DEF WorkerLoad, Held, Live, Exists
    <2>3. CASE ~Live(wjob)
      BY <1>2, <1>3, <1>4, <2>1, <2>3 DEF WorkerLoad, WorkerIdle
    <2>4. QED
      BY <2>2, <2>3
  <1>5. CASE WorkerPersist
    <2>1. wjob \in Bills /\ Extracted \in Row /\ wpc = "persist"
      BY <1>5, ExtractedIsRow DEF WorkerPersist
    <2>2. Trace(wjob, Extracted) \in F
      BY <2>1, ExtractedKeepsTrace DEF Held
    <2>3. wcopy' = Extracted /\ wjob' = wjob
          /\ (SaveRow(wjob, Extracted) \/ rows' = rows)
      BY <1>5 DEF WorkerPersist
    <2>4. RowsHeld
      BY <1>3, <2>1, <2>2, <2>3, HeldSave
    <2>5. QED
      BY <1>2, <2>2, <2>3, <2>4
  <1>6. CASE WorkerMarkFailed
    <2>1. wjob \in Bills /\ wpc = "fail" /\ wpc' = "idle"
          /\ (SaveRow(wjob, AsFailed(wcopy)) \/ rows' = rows)
      BY <1>6 DEF WorkerMarkFailed, WorkerIdle
    <2>2. AsFailed(wcopy) \in Row /\ Trace(wjob, AsFailed(wcopy)) \in F
      BY <2>1, RowUpdates, UpdatesKeepTrace DEF Held
    <2>3. RowsHeld
      BY <1>3, <2>1, <2>2, HeldSave
    <2>4. QED
      BY <1>2, <2>1, <2>3
  <1>7. CASE WorkerFault
    <2>1. rows' = rows
      BY <1>7 DEF WorkerFault, dbVars
    <2>2. CASE wpc = "persist" /\ wcopy' = Extracted /\ wjob' = wjob
      <3>1. Trace(wjob, Extracted) \in F
        BY <2>2, ExtractedKeepsTrace DEF Held
      <3>2. QED
        BY <1>2, <1>3, <2>1, <2>2, <3>1
    <2>3. CASE WorkerIdle
      BY <1>2, <1>3, <2>1, <2>3 DEF WorkerIdle
    <2>4. CASE wpc = "alert" /\ UNCHANGED <<wpc, wjob, wcopy>>
      BY <1>2, <1>3, <2>1, <2>4 DEF Held
    <2>5. QED
      BY <1>7, <2>2, <2>3, <2>4 DEF WorkerFault
  <1>8. ASSUME WorkerTake \/ WorkerExtract \/ WorkerInsertAlert \/ WorkerSendAlert
               \/ WorkerFinish \/ Crash \/ UNCHANGED vars
        PROVE  rows' = rows /\ CopyHeld
    BY <1>8 DEF WorkerTake, WorkerExtract, WorkerInsertAlert, WorkerSendAlert,
       WorkerFinish, WorkerIdle, Crash, vars, dbVars, workerVars, Held
  <1>9. QED
    BY <1>2, <1>3, <1>4, <1>5, <1>6, <1>7, <1>8 DEF Worker

-----------------------------------------------------------------------------
(* No PDF disappears unnoticed.  Every version of a bill that names a file *)
(* finds it on disk, or a hard delete of that file came to its end; a      *)
(* version not yet inserted names none.                                    *)
Lost(k) ==
  \E r \in Requests :
    op[r] = "harddelete" /\ pc[r] = "done" /\ code[r] = 204 /\ copy[r].key = k

Backed == {t \in Bills \X Keys \X BOOLEAN : t[3] => t[2] \in pdf \/ Lost(t[2])}

Starts ==
  \A r \in Requests :
    /\ pc[r] = "u_create" => copy[r].path = FALSE
    /\ pc[r] \in {"d_tx", "d_file"} => op[r] = "harddelete"

PdfInv == Held(Backed) /\ Starts

LEMMA Traced ==
  \A b \in Bills, x \in Row :
    /\ Trace(b, x) \in Bills \X Keys \X BOOLEAN
    /\ Trace(b, x)[2] = x.key /\ Trace(b, x)[3] = x.path
  BY DEF Trace, Row

LEMMA HeldMore ==
  ASSUME NEW F, NEW G, F \subseteq G, Held(F)
  PROVE  Held(G)
  BY DEF Held

LEMMA NewRowsNameNoFile ==
  NoRow.path = FALSE /\ NewManual.path = FALSE /\ \A f \in Files : NewUpload(f).path = FALSE
  BY DEF NoRow, NewManual, NewUpload

LEMMA StartsFirst ==
  ASSUME TypeInv, Starts, NEW r \in Requests, NEW k, NEW next, First(r, k, next),
         next # "u_create", next \in {"d_tx", "d_file"} => k = "harddelete"
  PROVE  Starts'
  <1> USE DEF TypeInv, TypeOK, RequestOK, Starts
  <1>1. PICK b \in Bills :
          IF Live(b) THEN Goto(r, next) /\ Hold(r, b, rows[b])
                     ELSE Reply(r, 404) /\ UNCHANGED <<rid, copy>>
    BY DEF First
  <1>2. op' = [op EXCEPT ![r] = k] /\ b # 0
    BY DEF First, Arrive, Bills
  <1>3. QED
    BY <1>1, <1>2 DEF Goto, Hold, Reply

LEMMA StartsRequests ==
  ASSUME TypeInv, Starts, NEW r \in Requests,
         RequestStart(r) \/ HandlerStep(r) \/ RequestFault(r) \/ PutFault(r)
  PROVE  Starts'
  <1> USE DEF TypeInv, TypeOK, RequestOK, RequestIds, Starts
  <1>0. 0 \notin Bills
    BY DEF Bills
  <1>1. CASE UploadCheck(r)
    <2>1. \/ Reply(r, 409) /\ UNCHANGED <<rid, copy>>
          \/ \E b \in Bills : Goto(r, "u_restore") /\ Hold(r, b, rows[b])
          \/ \E f \in Files : Goto(r, "u_create") /\ Hold(r, 0, NewUpload(f))
      BY <1>1 DEF UploadCheck
    <2>2. op' = [op EXCEPT ![r] = "upload"]
      BY <1>1 DEF UploadCheck, Arrive
    <2>3. QED
      BY <1>0, <2>1, <2>2, NewRowsNameNoFile DEF Reply, Goto, Hold
  <1>2. CASE UploadCreate(r)
    BY <1>2 DEF UploadCreate, At, Reply, Goto, Hold
  <1>3. CASE ManualCreate(r)
    BY <1>3 DEF ManualCreate, Arrive, Reply, Hold
  <1>4. CASE ReextractFirst(r) \/ UpdateFirst(r) \/ MarkPaidFirst(r) \/ DeleteFirst(r)
    BY <1>4, StartsFirst DEF ReextractFirst, UpdateFirst, MarkPaidFirst, DeleteFirst
  <1>5. CASE UploadReload(r)
    BY <1>0, <1>5 DEF UploadReload, At, Reply, Goto, Hold
  <1>6. CASE UploadPut(r) \/ UploadEnqueue(r)
    BY <1>0, <1>6 DEF UploadPut, UploadEnqueue, At, Reply, Goto
  <1>7. CASE ReextractReset(r)
    BY <1>0, <1>7 DEF ReextractReset, At, Reply, Goto
  <1>8. CASE UploadRestore(r) \/ UploadWipe(r) \/ UploadUndo(r) \/ UploadSave(r)
             \/ UploadFull(r)
    BY <1>8 DEF UploadRestore, UploadWipe, UploadUndo, UploadSave, UploadFull, At,
       Reply, Goto
  <1>9. CASE ReextractEnqueue(r) \/ ReextractFull(r) \/ UpdateWrite(r) \/ UpdateReload(r)
             \/ MarkPaidSave(r)
    BY <1>9 DEF ReextractEnqueue, ReextractFull, UpdateWrite, UpdateReload,
       MarkPaidSave, At, Reply, Goto
  <1>10. CASE DeleteSoft(r) \/ DeleteHard(r) \/ DeleteFile(r)
    BY <1>10 DEF DeleteSoft, DeleteHard, DeleteFile, At, Reply, Goto
  <1>11. CASE RequestFault(r) \/ PutFault(r)
    BY <1>11 DEF RequestFault, PutFault, At, Reply, Goto
  <1>12. QED
    BY <1>1, <1>2, <1>3, <1>4, <1>5, <1>6, <1>7, <1>8, <1>9, <1>10, <1>11
    DEF RequestStart, HandlerStep, UploadStep

(* Hard deletes that came to their end are never forgotten.                *)
LEMMA LostStays ==
  ASSUME TypeInv, [Next]_vars, NEW k, Lost(k)
  PROVE  Lost(k)'
  <1>1. PICK q \in Requests :
          op[q] = "harddelete" /\ pc[q] = "done" /\ code[q] = 204 /\ copy[q].key = k
    BY DEF Lost
  <1>2. op'[q] = op[q] /\ pc'[q] = pc[q] /\ code'[q] = code[q] /\ copy'[q] = copy[q]
    <2>1. ASSUME NEW r \in Requests,
                 RequestStart(r) \/ HandlerStep(r) \/ RequestFault(r) \/ PutFault(r)
          PROVE  op'[q] = op[q] /\ pc'[q] = pc[q] /\ code'[q] = code[q] /\ copy'[q] = copy[q]
      BY <1>1, <2>1, RequestFrame DEF RequestMoves
    <2>2. CASE Crash
      BY <1>1, <2>2 DEF Crash
    <2>3. ASSUME Worker \/ WorkerFault \/ UNCHANGED vars
          PROVE  UNCHANGED <<op, pc, code, copy>>
      BY <2>3 DEF Worker, WorkerTake, WorkerLoad, WorkerExtract, WorkerPersist,
         WorkerInsertAlert, WorkerMarkFailed, WorkerSendAlert, WorkerFinish,
         WorkerFault, vars, reqVars
    <2>4. QED
      BY <2>1, <2>2, <2>3 DEF Next
  <1>3. QED
    BY <1>1, <1>2 DEF Lost

(* The one step that takes a file from disk loses it by a hard delete.     *)
LEMMA FilesStay ==
  ASSUME TypeInv, Starts, [Next]_vars
  PROVE  \A k \in pdf : k \in pdf' \/ Lost(k)'
  <1> USE DEF TypeInv, TypeOK, RequestOK
  <1>1. ASSUME NEW r \in Requests, DeleteFile(r), NEW k \in pdf
        PROVE  k \in pdf' \/ Lost(k)'
    <2>1. op'[r] = "harddelete" /\ pc'[r] = "done" /\ code'[r] = 204 /\ copy'[r] = copy[r]
      BY <1>1 DEF DeleteFile, At, Reply, Starts
    <2>2. k \in pdf' \/ copy[r].key = k
      BY <1>1 DEF DeleteFile
    <2>3. QED
      BY <2>1, <2>2 DEF Lost
  <1>2. ASSUME NEW r \in Requests, ~DeleteFile(r),
               RequestStart(r) \/ HandlerStep(r) \/ RequestFault(r) \/ PutFault(r)
        PROVE  pdf \subseteq pdf'
    BY <1>2 DEF RequestStart, HandlerStep, UploadStep, UploadCheck, First,
         ManualCreate, ReextractFirst, UpdateFirst, MarkPaidFirst, DeleteFirst,
         UploadCreate, UploadRestore, UploadWipe, UploadReload, UploadPut,
         UploadUndo, UploadSave, UploadEnqueue, UploadFull, ReextractReset,
         ReextractEnqueue, ReextractFull, UpdateWrite, UpdateReload, MarkPaidSave,
         DeleteSoft, DeleteHard, RequestFault, PutFault, dbVars
  <1>3. ASSUME Worker \/ WorkerFault \/ Crash \/ UNCHANGED vars
        PROVE  pdf' = pdf
    BY <1>3 DEF Worker, WorkerTake, WorkerLoad, WorkerExtract, WorkerPersist,
       WorkerInsertAlert, WorkerMarkFailed, WorkerSendAlert, WorkerFinish,
       WorkerFault, Crash, vars, dbVars
  <1>4. QED
    BY <1>1, <1>2, <1>3 DEF Next

LEMMA PdfStep == TypeInv /\ TypeInv' /\ PdfInv /\ [Next]_vars => PdfInv'
  <1> SUFFICES ASSUME TypeInv, TypeInv', PdfInv, [Next]_vars PROVE PdfInv'
    OBVIOUS
  <1> USE DEF PdfInv
  <1>1. Starts'
    <2>1. CASE Crash
      BY <2>1 DEF Crash, Starts, TypeInv, TypeOK, RequestOK
    <2>2. ASSUME Worker \/ WorkerFault \/ UNCHANGED vars PROVE UNCHANGED <<op, pc, rid, copy>>
      BY <2>2 DEF Worker, WorkerTake, WorkerLoad, WorkerExtract, WorkerPersist,
         WorkerInsertAlert, WorkerMarkFailed, WorkerSendAlert, WorkerFinish,
         WorkerFault, vars, reqVars
    <2>3. QED
      BY <2>1, <2>2, StartsRequests DEF Next, Starts
  <1>2. PICK F : F = Backed
    OBVIOUS
  <1>3. F \subseteq Backed'
    BY <1>2, LostStays, FilesStay DEF Backed
  <1>4. ASSUME NEW r \in Requests, UploadPut(r) PROVE Held(Backed)'
    <2>1. rid[r] \in Bills /\ copy[r] \in Row /\ UNCHANGED <<rows, rid, wpc, wjob, wcopy>>
          /\ copy' = [copy EXCEPT ![r] = WithPath(copy[r])] /\ copy[r].key \in pdf'
      BY <1>4 DEF UploadPut, At, workerVars, TypeInv, TypeOK, RequestOK, RequestIds
    <2>2. WithPath(copy[r]) \in Row /\ WithPath(copy[r]).key = copy[r].key
      BY <2>1, RowUpdates
    <2>3. Trace(rid[r], WithPath(copy[r])) \in Backed'
      BY <2>1, <2>2, Traced DEF Backed
    <2>4. \A q \in Requests \ {r} : copy'[q] = copy[q]
      BY <2>1 DEF TypeInv, TypeOK, RequestOK
    <2>5. copy'[r] = WithPath(copy[r])
      BY <2>1 DEF TypeInv, TypeOK, RequestOK
    <2>6. QED
      BY <1>2, <1>3, <2>1, <2>3, <2>4, <2>5 DEF Held, Exists
  <1>5. ASSUME NEW r \in Requests, UploadCreate(r) \/ ManualCreate(r) PROVE Held(Backed)'
    <2>1. UNCHANGED <<wpc, wjob, wcopy>>
      BY <1>5 DEF UploadCreate, ManualCreate, workerVars
    <2>2. CASE UNCHANGED <<rows, rid, copy>>
      BY <1>2, <1>3, <2>1, <2>2 DEF Held, Exists
    <2>3. ASSUME NEW x \in Row, x.path = FALSE, nextId \in Bills, Hold(r, nextId, x),
                 rows' = [rows EXCEPT ![nextId] = x]
          PROVE  Held(Backed)'
      <3>1. Trace(nextId, x) \in F
        BY <1>2, <2>3, Traced DEF Backed
      <3>0. Held(F)
        BY <1>2
      <3>2. \A c \in Bills : Exists(c)' => Trace(c, rows'[c]) \in F
        BY <2>3, <3>0, <3>1, HeldWrite
      <3>3. \A q \in Requests : rid'[q] \in Bills => Trace(rid'[q], copy'[q]) \in F
        BY <1>2, <2>3, <3>1, BillIds, HeldCopies
      <3>4. QED
        BY <1>2, <1>3, <2>1, <3>2, <3>3 DEF Held
    <2>4. ManualCreate(r) => \/ UNCHANGED <<rows, rid, copy>>
                            \/ /\ nextId \in Bills /\ Hold(r, nextId, NewManual)
                               /\ rows' = [rows EXCEPT ![nextId] = NewManual]
      BY BillIds DEF ManualCreate, TypeInv, TypeOK, DbOK
    <2>5. UploadCreate(r) => \/ UNCHANGED <<rows, rid, copy>>
                            \/ /\ nextId \in Bills /\ Hold(r, nextId, copy[r])
                               /\ rows' = [rows EXCEPT ![nextId] = copy[r]]
      BY BillIds DEF UploadCreate, TypeInv, TypeOK, DbOK
    <2>6. UploadCreate(r) => copy[r] \in Row /\ copy[r].path = FALSE
      BY DEF UploadCreate, At, TypeInv, TypeOK, RequestOK, Starts
    <2>7. QED
      BY <1>5, <2>2, <2>3, <2>4, <2>5, <2>6, NewRows, NewRowsNameNoFile
  <1>6. ASSUME NEW r \in Requests, ~UploadPut(r), ~UploadCreate(r), ~ManualCreate(r),
               RequestStart(r) \/ HandlerStep(r) \/ RequestFault(r) \/ PutFault(r)
        PROVE  Held(Backed)'
    <2>1. Held(F)'
      BY <1>2, <1>6, HeldRequests
    <2>2. QED
      BY <1>3, <2>1 DEF Held
  <1>7. ASSUME Worker \/ WorkerFault \/ Crash \/ UNCHANGED vars PROVE Held(Backed)'
    <2>1. Held(F)'
      BY <1>2, <1>7, HeldWorker
    <2>2. QED
      BY <1>3, <2>1 DEF Held
  <1>8. QED
    BY <1>1, <1>4, <1>5, <1>6, <1>7 DEF Next

LEMMA PdfInit == Init => PdfInv
  <1> SUFFICES ASSUME Init PROVE PdfInv
    OBVIOUS
  <1>1. PICK first \in SettledRows :
          /\ rows = [b \in Bills |-> IF b = 1 THEN first ELSE NoRow]
          /\ pdf = IF first = NoRow THEN {} ELSE {first.key}
    BY DEF Init
  <1>2. first \in Row /\ NoRow.st = "none"
    BY <1>1, SettledAreRows, NewRows
  <1>3. ASSUME NEW b \in Bills, Exists(b) PROVE Trace(b, rows[b]) \in Backed
    <2>1. rows[b] = first /\ first # NoRow /\ first.key \in pdf
      BY <1>1, <1>2, <1>3 DEF Exists
    <2>2. QED
      BY <1>2, <2>1, Traced DEF Backed
  <1>4. \A r \in Requests : rid[r] \notin Bills /\ pc[r] = "new"
    BY DEF Init, Bills
  <1>5. wpc = "idle"
    BY DEF Init
  <1>6. QED
    BY <1>3, <1>4, <1>5 DEF PdfInv, Held, Starts

(* A PDF a row names is on disk unless a hard delete of a bill with that   *)
(* file reached its last step: no upload, restore, re-extract, payment or  *)
(* write-back of a stale copy brings back the path of a file that is gone  *)
(* for another reason (Store.Put, Store.Delete).                           *)
THEOREM PdfLostOnlyByHardDeleteHolds == Spec => []PdfLostOnlyByHardDelete
  <1>1. BillInv => TypeInv
    BY DEF BillInv
  <1>2. Spec => []PdfInv
    <2>1. TypeInv /\ TypeInv' /\ PdfInv /\ [Next]_vars => PdfInv'
      BY PdfStep
    <2>2. QED
      BY <1>1, <2>1, PdfInit, Inductive, PTL DEF Spec
  <1>3. TypeInv /\ PdfInv => PdfLostOnlyByHardDelete
    <2> SUFFICES ASSUME TypeInv, PdfInv, NEW b \in Bills, Exists(b), rows[b].path,
                        rows[b].key \notin pdf
                 PROVE  Lost(rows[b].key)
      BY DEF PdfLostOnlyByHardDelete, Lost
    <2>1. rows[b] \in Row
      BY DEF TypeInv, TypeOK, DbOK
    <2>2. Trace(b, rows[b]) \in Backed
      BY DEF PdfInv, Held
    <2>3. QED
      BY <2>1, <2>2, Traced DEF Backed
  <1>4. QED
    BY <1>1, <1>2, <1>3, Inductive, PTL

-----------------------------------------------------------------------------
(* A bill has one key for life, in its row as in every copy of it, and no  *)
(* copy of a bill exists before the bill has its id.  A copy saved in      *)
(* u_full carries the status failed.                                       *)
Issued(f, n) == {t \in Bills \X Keys \X BOOLEAN : t[1] < n /\ t[2] = f[t[1]]}

KeysFixed == \E f \in [Bills -> Keys] : Held(Issued(f, nextId))

FullFails == \A r \in Requests : pc[r] = "u_full" => copy[r].status = "failed"

LEMMA KeysFixedInit == Init => KeysFixed
  <1> SUFFICES ASSUME Init PROVE KeysFixed
    OBVIOUS
  <1>1. PICK first \in SettledRows :
          /\ rows = [b \in Bills |-> IF b = 1 THEN first ELSE NoRow]
          /\ nextId = IF first = NoRow THEN 1 ELSE 2
    BY DEF Init
  <1>2. first \in Row /\ NoRow.st = "none"
    BY <1>1, SettledAreRows, NewRows
  <1>3. PICK f : f = [b \in Bills |-> first.key]
    OBVIOUS
  <1>4. f \in [Bills -> Keys]
    BY <1>2, <1>3 DEF Row
  <1>5. ASSUME NEW b \in Bills, Exists(b) PROVE Trace(b, rows[b]) \in Issued(f, nextId)
    <2>1. rows[b] = first /\ b = 1 /\ nextId = 2
      BY <1>1, <1>2, <1>5 DEF Exists
    <2>2. Trace(b, first) \in Bills \X Keys \X BOOLEAN /\ Trace(b, first)[2] = first.key
          /\ Trace(b, first)[1] = b
      BY <1>2, Traced DEF Trace
    <2>3. QED
      BY <1>3, <2>1, <2>2 DEF Issued
  <1>6. \A r \in Requests : rid[r] \notin Bills
    BY DEF Init, Bills
  <1>7. wpc = "idle"
    BY DEF Init
  <1>8. QED
    BY <1>4, <1>5, <1>6, <1>7 DEF KeysFixed, Held

(* The bills there are keep their keys.                                    *)
KeysNext(f) ==
  \E g \in [Bills -> Keys] : /\ Held(Issued(g, nextId))'
                             /\ \A b \in Bills : b < nextId => g[b] = f[b]

(* An insert hands out the next id and fixes its key.                      *)
LEMMA KeysInsert ==
  ASSUME TypeInv, NEW f \in [Bills -> Keys], Held(Issued(f, nextId)),
         NEW r \in Requests, NEW x \in Row, nextId \in Bills, Hold(r, nextId, x),
         rows' = [rows EXCEPT ![nextId] = x], nextId' = nextId + 1,
         UNCHANGED <<wpc, wjob, wcopy>>
  PROVE  KeysNext(f)
  <1>1. \A b \in Bills : b < nextId => b # nextId
    BY DEF Bills
  <1>2. PICK g : g = [f EXCEPT ![nextId] = x.key]
    OBVIOUS
  <1>3. PICK F : F = Issued(g, nextId + 1)
    OBVIOUS
  <1>4. x.key \in Keys
    BY DEF Row
  <1>5. g \in [Bills -> Keys] /\ g[nextId] = x.key
        /\ \A b \in Bills : b # nextId => g[b] = f[b]
    BY <1>2, <1>4
  <1>6. Issued(f, nextId) \subseteq F
    <2>1. \A n \in Bills : n < nextId => n < nextId + 1 /\ n # nextId
      BY DEF Bills
    <2>2. QED
      BY <1>3, <1>5, <2>1 DEF Issued
  <1>7. Held(F)
    BY <1>6, HeldMore
  <1>8. Trace(nextId, x) \in F
    <2>1. Trace(nextId, x) \in Bills \X Keys \X BOOLEAN
          /\ Trace(nextId, x)[1] = nextId /\ Trace(nextId, x)[2] = x.key
      BY Traced DEF Trace
    <2>2. nextId < nextId + 1
      BY DEF Bills
    <2>3. QED
      BY <1>3, <1>5, <2>1, <2>2 DEF Issued
  <1>9. \A c \in Bills : Exists(c)' => Trace(c, rows'[c]) \in F
    BY <1>7, <1>8, HeldWrite
  <1>10. \A q \in Requests : rid'[q] \in Bills => Trace(rid'[q], copy'[q]) \in F
    BY <1>7, <1>8, BillIds, HeldCopies
  <1>11. Held(F)'
    BY <1>7, <1>9, <1>10 DEF Held
  <1>12. Held(Issued(g, nextId))'
    BY <1>3, <1>11
  <1>13. QED
    BY <1>1, <1>5, <1>12 DEF KeysNext

LEMMA KeysStep ==
  ASSUME TypeInv, NEW f \in [Bills -> Keys], Held(Issued(f, nextId)), [Next]_vars
  PROVE  KeysNext(f)
  <1>2. PICK F : F = Issued(f, nextId)
    OBVIOUS
  <1>3. Held(F)
    BY <1>2
  <1>4. ASSUME nextId' = nextId, Held(F)' PROVE KeysNext(f)
    BY <1>2, <1>4 DEF KeysNext
  <1>5. ASSUME NEW r \in Requests, UploadPut(r) PROVE KeysNext(f)
    <2>1. rid[r] \in Bills /\ copy[r] \in Row
          /\ UNCHANGED <<rows, nextId, rid, wpc, wjob, wcopy>>
          /\ copy' = [copy EXCEPT ![r] = WithPath(copy[r])]
      BY <1>5 DEF UploadPut, At, workerVars, TypeInv, TypeOK, RequestOK, RequestIds
    <2>2. WithPath(copy[r]) \in Row /\ WithPath(copy[r]).key = copy[r].key
      BY <2>1, RowUpdates
    <2>3. Trace(rid[r], copy[r]) \in F
      BY <1>3, <2>1 DEF Held
    <2>4. Trace(rid[r], WithPath(copy[r])) \in F
      BY <1>2, <2>1, <2>2, <2>3, Traced DEF Issued, Trace
    <2>5. copy'[r] = WithPath(copy[r]) /\ \A q \in Requests \ {r} : copy'[q] = copy[q]
      BY <2>1 DEF TypeInv, TypeOK, RequestOK
    <2>6. Held(F)'
      BY <1>3, <2>1, <2>4, <2>5 DEF Held, Exists
    <2>7. QED
      BY <1>4, <2>1, <2>6
  <1>6. ASSUME NEW r \in Requests, UploadCreate(r) \/ ManualCreate(r) PROVE KeysNext(f)
    <2>1. UNCHANGED <<wpc, wjob, wcopy>>
      BY <1>6 DEF UploadCreate, ManualCreate, workerVars
    <2>2. CASE UNCHANGED <<rows, nextId, rid, copy>>
      <3>1. Held(F)'
        BY <1>3, <2>1, <2>2 DEF Held, Exists
      <3>2. QED
        BY <1>4, <2>2, <3>1
    <2>3. ASSUME NEW x \in Row, nextId \in Bills, Hold(r, nextId, x),
                 rows' = [rows EXCEPT ![nextId] = x], nextId' = nextId + 1
          PROVE  KeysNext(f)
      BY <2>1, <2>3, KeysInsert
    <2>4. ManualCreate(r) => \/ UNCHANGED <<rows, nextId, rid, copy>>
                            \/ /\ nextId \in Bills /\ Hold(r, nextId, NewManual)
                               /\ rows' = [rows EXCEPT ![nextId] = NewManual]
                               /\ nextId' = nextId + 1
      BY BillIds DEF ManualCreate, TypeInv, TypeOK, DbOK
    <2>5. UploadCreate(r) => \/ UNCHANGED <<rows, nextId, rid, copy>>
                            \/ /\ nextId \in Bills /\ Hold(r, nextId, copy[r])
                               /\ rows' = [rows EXCEPT ![nextId] = copy[r]]
                               /\ nextId' = nextId + 1
      BY BillIds DEF UploadCreate, TypeInv, TypeOK, DbOK
    <2>6. copy[r] \in Row
      BY DEF TypeInv, TypeOK, RequestOK
    <2>7. QED
      BY <1>6, <2>2, <2>3, <2>4, <2>5, <2>6, NewRows
  <1>7. ASSUME NEW r \in Requests, ~UploadPut(r), ~UploadCreate(r), ~ManualCreate(r),
               RequestStart(r) \/ HandlerStep(r) \/ RequestFault(r) \/ PutFault(r)
        PROVE  KeysNext(f)
    <2>1. Held(F)'
      BY <1>3, <1>7, HeldRequests
    <2>2. nextId' = nextId
      BY <1>7 DEF RequestStart, HandlerStep, UploadStep, UploadCheck, First,
         ReextractFirst, UpdateFirst, MarkPaidFirst, DeleteFirst,
         UploadRestore, UploadWipe, UploadReload,
         UploadUndo, UploadSave, UploadEnqueue, UploadFull, ReextractReset,
         ReextractEnqueue, ReextractFull, UpdateWrite, UpdateReload, MarkPaidSave,
         DeleteSoft, DeleteHard, DeleteFile, RequestFault, PutFault, dbVars
    <2>3. QED
      BY <1>4, <2>1, <2>2
  <1>8. ASSUME Worker \/ WorkerFault \/ Crash \/ UNCHANGED vars PROVE KeysNext(f)
    <2>1. Held(F)'
      BY <1>3, <1>8, HeldWorker
    <2>2. nextId' = nextId
      BY <1>8 DEF Worker, WorkerTake, WorkerLoad, WorkerExtract, WorkerPersist,
         WorkerInsertAlert, WorkerMarkFailed, WorkerSendAlert, WorkerFinish,
         WorkerFault, Crash, vars, dbVars
    <2>3. QED
      BY <1>4, <2>1, <2>2
  <1>9. QED
    BY <1>5, <1>6, <1>7, <1>8 DEF Next

LEMMA KeysFixedStep == TypeInv /\ KeysFixed /\ [Next]_vars => KeysFixed'
  BY KeysStep DEF KeysFixed, KeysNext

LEMMA FullFailsStep == TypeInv /\ FullFails /\ [Next]_vars => FullFails'
  <1> SUFFICES ASSUME TypeInv, FullFails, [Next]_vars PROVE FullFails'
    OBVIOUS
  <1> USE DEF TypeInv, TypeOK, RequestOK, FullFails
  <1>1. ASSUME NEW r \in Requests, UploadEnqueue(r) PROVE FullFails'
    BY <1>1 DEF UploadEnqueue, At, Goto, Reply, AsFailed, Row
  <1>2. ASSUME NEW r \in Requests, ~UploadEnqueue(r),
               RequestStart(r) \/ HandlerStep(r) \/ RequestFault(r) \/ PutFault(r)
        PROVE  FullFails'
    <2>1. pc'[r] # "u_full"
      BY <1>2 DEF RequestStart, HandlerStep, UploadStep, UploadCheck, First,
         ManualCreate, ReextractFirst, UpdateFirst, MarkPaidFirst, DeleteFirst,
         UploadCreate, UploadRestore, UploadWipe, UploadReload, UploadPut,
         UploadUndo, UploadSave, UploadFull, ReextractReset,
         ReextractEnqueue, ReextractFull, UpdateWrite, UpdateReload, MarkPaidSave,
         DeleteSoft, DeleteHard, DeleteFile, RequestFault, PutFault, Goto, Reply
    <2>2. RequestMoves(r)
      BY <1>2, RequestFrame
    <2>3. QED
      BY <2>1, <2>2 DEF RequestMoves
  <1>3. CASE Crash
    BY <1>3 DEF Crash
  <1>4. CASE Worker \/ WorkerFault \/ UNCHANGED vars
    BY <1>4 DEF Worker, WorkerTake, WorkerLoad, WorkerExtract, WorkerPersist,
         WorkerInsertAlert, WorkerMarkFailed, WorkerSendAlert, WorkerFinish,
         WorkerFault, vars, reqVars
  <1>5. QED
    BY <1>1, <1>2, <1>3, <1>4 DEF Next

(* So the unique index never refuses to save a copy over a row that is     *)
(* still there.                                                            *)
LEMMA SaveAllowed ==
  ASSUME TypeInv, OneRowPerFile, KeysFixed, NEW b \in Bills, Exists(b)
  PROVE  /\ \A r \in Requests : rid[r] = b => KeyFree(b, copy[r].key)
         /\ wjob = b /\ wpc \notin {"idle", "taken"} => KeyFree(b, wcopy.key)
  <1>1. PICK f \in [Bills -> Keys] : Held(Issued(f, nextId))
    BY DEF KeysFixed
  <1>2. rows[b].key = f[b]
    BY <1>1 DEF Held, Issued, Trace
  <1>3. KeyFree(b, f[b])
    BY <1>2 DEF OneRowPerFile, KeyFree
  <1>4. ASSUME NEW x, Trace(b, x) \in Issued(f, nextId) PROVE x.key = f[b]
    BY <1>4 DEF Issued, Trace
  <1>5. QED
    BY <1>1, <1>3, <1>4 DEF Held

-----------------------------------------------------------------------------
(* Who still has to finish the extraction of bill b.                       *)
InQueue(b)  == \E i \in DOMAIN queue : queue[i] = b
InWorker(b) == wjob = b /\ wpc \in {"taken", "loaded", "persist", "fail"}
InRequest(b, r) ==
  /\ rid[r] = b
  /\ pc[r] \in {"u_wipe", "u_reload", "u_put", "u_undo", "u_save",
                "u_enqueue", "u_full", "x_enqueue"}

LEMMA PendingParts ==
  \A b \in Bills :
    /\ Pending(b) <=> InQueue(b) \/ InWorker(b) \/ \E r \in Requests : InRequest(b, r)
    /\ Pending(b)' <=> InQueue(b)' \/ InWorker(b)' \/ \E r \in Requests : InRequest(b, r)'
  BY DEF Pending, InQueue, InWorker, InRequest

(* What a step of request r leaves of a processing bill: r or the queue    *)
(* has it, or the bill was processing already and r had nothing to do with *)
(* it.                                                                     *)
Handed(b, r) == InRequest(b, r)' \/ InQueue(b)' \/ (Processing(b) /\ ~InRequest(b, r))

LEMMA SendHands ==
  ASSUME TypeInv, NEW b \in Bills, TrySend(b)
  PROVE  InQueue(b)'
  <1>1. queue \in Seq(Bills) /\ queue' = Append(queue, b)
    BY DEF TrySend, TypeInv, TypeOK, WorkerOK
  <1>2. Len(queue) + 1 \in DOMAIN queue' /\ queue'[Len(queue) + 1] = b
    BY <1>1
  <1>3. QED
    BY <1>2 DEF InQueue

LEMMA UploadHands ==
  ASSUME TypeInv, OneRowPerFile, KeysFixed, FullFails, NEW r \in Requests, NEW b \in Bills,
         UploadStep(r), Processing(b)'
  PROVE  Handed(b, r)
  <1> USE DEF TypeInv, TypeOK, DbOK, RequestOK, RequestIds, Handed
  <1>1. ASSUME rows' = rows PROVE Processing(b)
    BY <1>1 DEF Processing, Live
  <1>2. CASE UploadCreate(r)
    <2>1. CASE UNCHANGED rows
      BY <1>1, <1>2, <2>1 DEF UploadCreate, At, InRequest
    <2>2. CASE rows' = [rows EXCEPT ![nextId] = copy[r]] /\ Hold(r, nextId, copy[r])
               /\ Goto(r, "u_put")
      <3>1. b = nextId => InRequest(b, r)'
        BY <2>2 DEF Hold, Goto, InRequest
      <3>2. b # nextId => Processing(b) /\ ~InRequest(b, r)
        BY <1>2, <2>2 DEF UploadCreate, At, InRequest, Processing, Live
      <3>3. QED
        BY <3>1, <3>2
    <2>3. QED
      BY <1>2, <2>1, <2>2 DEF UploadCreate
  <1>3. CASE UploadRestore(r)
    <2>1. rid[r] \in Bills /\ rid' = rid /\ pc' = [pc EXCEPT ![r] = "u_wipe"]
          /\ pc[r] = "u_restore"
      BY <1>3 DEF UploadRestore, At, Goto
    <2>2. b # rid[r] => rows'[b] = rows[b]
      BY <1>3 DEF UploadRestore
    <2>3. b # rid[r] => Processing(b)
      BY <2>2 DEF Processing, Live
    <2>4. QED
      BY <2>1, <2>3 DEF InRequest
  <1>4. CASE UploadWipe(r)
    BY <1>1, <1>4 DEF UploadWipe, At, Goto, InRequest
  <1>5. CASE UploadReload(r)
    <2>1. rows' = rows /\ pc[r] = "u_reload"
      BY <1>5 DEF UploadReload, dbVars, At
    <2>2. Live(b)
      BY <1>1, <2>1 DEF Processing
    <2>3. Live(rid[r]) => rid'[r] = rid[r] /\ pc'[r] = "u_put"
      BY <1>5 DEF UploadReload, Goto, Hold
    <2>4. QED
      BY <1>1, <2>1, <2>2, <2>3 DEF InRequest
  <1>6. CASE UploadPut(r)
    BY <1>1, <1>6 DEF UploadPut, At, Goto, InRequest
  <1>7. CASE UploadUndo(r)
    <2>1. rid[r] \in Bills
      BY <1>7 DEF UploadUndo, At
    <2>2. b # rid[r]
      BY <1>7, <2>1 DEF UploadUndo, Processing, Live, AsDeleted, Row
    <2>3. Processing(b)
      BY <1>7, <2>2 DEF UploadUndo, Processing, Live
    <2>4. QED
      BY <2>2, <2>3 DEF InRequest
  <1>8. CASE UploadSave(r)
    <2>1. rid[r] \in Bills /\ rid' = rid
      BY <1>8 DEF UploadSave, At
    <2>2. b # rid[r] => rows'[b] = rows[b]
      BY <1>8 DEF UploadSave, SaveRow
    <2>3. b # rid[r] => Processing(b) /\ ~InRequest(b, r)
      BY <2>2 DEF Processing, Live, InRequest
    <2>4. CASE KeyFree(rid[r], copy[r].key)
      BY <1>8, <2>1, <2>3, <2>4 DEF UploadSave, Goto, InRequest
    <2>5. CASE ~KeyFree(rid[r], copy[r].key)
      <3>1. Processing(b)
        BY <1>1, <1>8, <2>5 DEF UploadSave
      <3>2. b # rid[r]
        BY <2>5, <3>1, SaveAllowed DEF Processing, Live, Exists
      <3>3. QED
        BY <2>3, <3>2
    <2>6. QED
      BY <2>4, <2>5
  <1>9. CASE UploadEnqueue(r)
    <2>1. rid[r] \in Bills /\ rid' = rid /\ rows' = rows /\ pc[r] = "u_enqueue"
      BY <1>9 DEF UploadEnqueue, At, dbVars
    <2>2. TrySend(rid[r]) \/ pc'[r] = "u_full"
      BY <1>9 DEF UploadEnqueue, Goto
    <2>3. QED
      BY <1>1, <2>1, <2>2, SendHands DEF InRequest
  <1>10. CASE UploadFull(r)
    <2>1. rid[r] \in Bills /\ copy[r].status = "failed"
      BY <1>10 DEF UploadFull, At, FullFails
    <2>2. b # rid[r] => rows'[b] = rows[b]
      BY <1>10 DEF UploadFull, SaveRow
    <2>3. b # rid[r] => Processing(b) /\ ~InRequest(b, r)
      BY <2>2 DEF Processing, Live, InRequest
    <2>4. CASE KeyFree(rid[r], copy[r].key)
      <3>1. rows'[rid[r]].status = "failed"
        BY <1>10, <2>1, <2>4 DEF UploadFull, SaveRow, AsLive, Row
      <3>2. QED
        BY <2>3, <3>1 DEF Processing
    <2>5. CASE ~KeyFree(rid[r], copy[r].key)
      <3>1. Processing(b)
        BY <1>1, <1>10, <2>5 DEF UploadFull
      <3>2. b # rid[r]
        BY <2>5, <3>1, SaveAllowed DEF Processing, Live, Exists
      <3>3. QED
        BY <2>3, <3>2
    <2>6. QED
      BY <2>4, <2>5
  <1>11. QED
    BY <1>2, <1>3, <1>4, <1>5, <1>6, <1>7, <1>8, <1>9, <1>10 DEF UploadStep

LEMMA RequestHands ==
  ASSUME TypeInv, OneRowPerFile, KeysFixed, FullFails, NEW r \in Requests, NEW b \in Bills,
         RequestStart(r) \/ HandlerStep(r) \/ PutFault(r),
         ~ReextractFull(r), ~MarkPaidSave(r), Processing(b)'
  PROVE  Handed(b, r)
  <1> USE DEF TypeInv, TypeOK, DbOK, RequestOK, RequestIds, Handed
  <1>1. ASSUME rows' = rows PROVE Processing(b)
    BY <1>1 DEF Processing, Live
  <1>2. ASSUME UploadCheck(r) \/ ReextractFirst(r) \/ UpdateFirst(r) \/ MarkPaidFirst(r)
               \/ DeleteFirst(r)
        PROVE  rows' = rows /\ pc[r] = "new"
    BY <1>2 DEF UploadCheck, ReextractFirst, UpdateFirst, MarkPaidFirst, DeleteFirst,
       First, Arrive, dbVars
  <1>3. CASE ManualCreate(r)
    <2>1. pc[r] = "new"
      BY <1>3 DEF ManualCreate, Arrive
    <2>2. CASE UNCHANGED rows
      BY <1>1, <2>1, <2>2 DEF InRequest
    <2>3. CASE rows' = [rows EXCEPT ![nextId] = NewManual]
      <3>1. NewManual.status = "completed"
        BY DEF NewManual, NoRow
      <3>2. b # nextId
        BY <2>3, <3>1 DEF Processing
      <3>3. rows'[b] = rows[b]
        BY <2>3, <3>2
      <3>4. QED
        BY <2>1, <3>3 DEF InRequest, Processing, Live
    <2>4. QED
      BY <1>3, <2>2, <2>3 DEF ManualCreate
  <1>4. CASE ReextractReset(r)
    <2>1. rid[r] \in Bills /\ rid' = rid /\ pc[r] = "x_check"
      BY <1>4 DEF ReextractReset, At
    <2>2. CASE rows' = rows
      BY <1>1, <2>1, <2>2 DEF InRequest
    <2>3. CASE SaveRow(rid[r], AsProcessing(copy[r])) /\ Goto(r, "x_enqueue")
      <3>1. b # rid[r] => rows'[b] = rows[b]
        BY <2>3 DEF SaveRow
      <3>2. b # rid[r] => Processing(b)
        BY <3>1 DEF Processing, Live
      <3>3. QED
        BY <2>1, <2>3, <3>2 DEF Goto, InRequest
    <2>4. QED
      BY <1>4, <2>2, <2>3 DEF ReextractReset
  <1>5. CASE ReextractEnqueue(r)
    BY <1>1, <1>5, SendHands DEF ReextractEnqueue, At, InRequest, dbVars
  <1>6. CASE UpdateWrite(r)
    <2>1. rid[r] \in Bills /\ pc[r] = "e_write"
      BY <1>6 DEF UpdateWrite, At
    <2>2. rows'[b].st = rows[b].st /\ rows'[b].status = rows[b].status
      <3>1. ASSUME NEW x \in Row
            PROVE  /\ WithEdit(x).st = x.st /\ WithEdit(x).status = x.status
                   /\ WithPayment(x).st = x.st /\ WithPayment(x).status = x.status
        BY DEF WithEdit, WithPayment, Row
      <3>2. \/ rows' = rows
            \/ rows' = [rows EXCEPT ![rid[r]] = WithEdit(rows[rid[r]])]
            \/ rows' = [rows EXCEPT ![rid[r]] = WithPayment(rows[rid[r]])]
        BY <1>6 DEF UpdateWrite
      <3>3. QED
        BY <2>1, <3>1, <3>2
    <2>3. Processing(b)
      BY <2>2 DEF Processing, Live
    <2>4. QED
      BY <2>1, <2>3 DEF InRequest
  <1>7. CASE UpdateReload(r) \/ DeleteFile(r)
    BY <1>1, <1>7 DEF UpdateReload, DeleteFile, At, InRequest, dbVars
  <1>8. CASE DeleteSoft(r)
    <2>1. rid[r] \in Bills /\ pc[r] = "d_soft"
      BY <1>8 DEF DeleteSoft, At
    <2>2. b # rid[r] \/ rows' = rows
      BY <1>8, <2>1 DEF DeleteSoft, Processing, Live, AsDeleted, Row
    <2>3. rows'[b] = rows[b]
      BY <1>8, <2>2 DEF DeleteSoft
    <2>4. QED
      BY <2>1, <2>3 DEF InRequest, Processing, Live
  <1>9. CASE DeleteHard(r)
    <2>1. rid[r] \in Bills /\ pc[r] = "d_tx" /\ rows' = [rows EXCEPT ![rid[r]] = NoRow]
      BY <1>9 DEF DeleteHard, At
    <2>2. b # rid[r]
      BY <2>1, NewRows DEF Processing, Live
    <2>3. rows'[b] = rows[b]
      BY <2>1, <2>2
    <2>4. QED
      BY <2>1, <2>3 DEF InRequest, Processing, Live
  <1>10. CASE PutFault(r)
    BY <1>1, <1>10 DEF PutFault, At, Goto, InRequest, dbVars
  <1>11. QED
    BY <1>1, <1>2, <1>3, <1>4, <1>5, <1>6, <1>7, <1>8, <1>9, <1>10, UploadHands
    DEF RequestStart, HandlerStep, InRequest

(* A step of the worker leaves a processing bill in its own hands, or out  *)
(* of them as before.                                                      *)
LEMMA WorkerHands ==
  ASSUME TypeInv, OneRowPerFile, KeysFixed, NEW b \in Bills, Worker, ~WorkerTake,
         Processing(b)'
  PROVE  InWorker(b)' \/ (Processing(b) /\ ~InWorker(b))
  <1> USE DEF TypeInv, TypeOK, DbOK, WorkerOK, WorkerId
  <1>1. ASSUME rows' = rows PROVE Processing(b)
    BY <1>1 DEF Processing, Live
  <1>2. CASE WorkerLoad
    <2>1. rows' = rows /\ wpc = "taken"
      BY <1>2 DEF WorkerLoad, dbVars
    <2>2. Live(b)
      BY <1>1, <2>1 DEF Processing
    <2>3. QED
      BY <1>1, <1>2, <2>1, <2>2 DEF WorkerLoad, InWorker
  <1>3. CASE WorkerExtract
    BY <1>1, <1>3 DEF WorkerExtract, InWorker, dbVars
  <1>4. CASE WorkerPersist
    <2>1. wjob \in Bills /\ Extracted \in Row /\ wpc = "persist" /\ wjob' = wjob
      BY <1>4, ExtractedIsRow DEF WorkerPersist
    <2>2. Extracted.status # "processing"
      BY <2>1 DEF Extracted, ApplyParsed, WithParse, AsNeedsReview, Row
    <2>3. CASE KeyFree(wjob, wcopy.key)
      <3>1. SaveRow(wjob, Extracted)
        BY <1>4, <2>3 DEF WorkerPersist
      <3>2. rows' = [rows EXCEPT ![wjob] = AsLive(Extracted)]
        BY <3>1 DEF SaveRow
      <3>3. AsLive(Extracted).status = Extracted.status
        BY <2>1 DEF AsLive, Row
      <3>4. b # wjob
        BY <2>1, <2>2, <3>2, <3>3 DEF Processing
      <3>5. rows'[b] = rows[b]
        BY <3>2, <3>4
      <3>6. QED
        BY <3>4, <3>5 DEF InWorker, Processing, Live
    <2>4. CASE ~KeyFree(wjob, wcopy.key)
      BY <1>1, <1>4, <2>1, <2>4 DEF WorkerPersist, InWorker
    <2>5. QED
      BY <2>3, <2>4
  <1>5. CASE WorkerMarkFailed
    <2>1. wjob \in Bills /\ wpc = "fail" /\ AsFailed(wcopy) \in Row
      BY <1>5, RowUpdates DEF WorkerMarkFailed
    <2>2. CASE KeyFree(wjob, wcopy.key)
      <3>1. rows' = [rows EXCEPT ![wjob] = AsLive(AsFailed(wcopy))]
        BY <1>5, <2>2 DEF WorkerMarkFailed, SaveRow
      <3>2. AsLive(AsFailed(wcopy)).status = "failed"
        BY <2>1 DEF AsLive, AsFailed, Row
      <3>3. b # wjob
        BY <2>1, <3>1, <3>2 DEF Processing
      <3>4. rows'[b] = rows[b]
        BY <3>1, <3>3
      <3>5. QED
        BY <3>3, <3>4 DEF InWorker, Processing, Live
    <2>3. CASE ~KeyFree(wjob, wcopy.key)
      <3>1. Processing(b)
        BY <1>1, <1>5, <2>3 DEF WorkerMarkFailed
      <3>2. b # wjob
        BY <2>1, <2>3, <3>1, SaveAllowed DEF Processing, Live, Exists
      <3>3. QED
        BY <3>1, <3>2 DEF InWorker
    <2>4. QED
      BY <2>2, <2>3
  <1>6. CASE WorkerInsertAlert \/ WorkerSendAlert \/ WorkerFinish
    BY <1>1, <1>6 DEF WorkerInsertAlert, WorkerSendAlert, WorkerFinish, InWorker, dbVars
  <1>7. QED
    BY <1>2, <1>3, <1>4, <1>5, <1>6 DEF Worker

(* Taking a job moves it from the queue to the worker.                     *)
LEMMA TakeHands ==
  ASSUME TypeInv, NEW b \in Bills, WorkerTake, InQueue(b)
  PROVE  InQueue(b)' \/ InWorker(b)'
  <1>1. queue \in Seq(Bills) /\ queue # <<>> /\ queue' = Tail(queue)
        /\ wpc' = "taken" /\ wjob' = Head(queue)
    BY DEF WorkerTake, TypeInv, TypeOK, WorkerOK
  <1>2. PICK i \in DOMAIN queue : queue[i] = b
    BY DEF InQueue
  <1>3. CASE i = 1
    BY <1>1, <1>2, <1>3 DEF InWorker
  <1>4. CASE i # 1
    <2>1. i - 1 \in DOMAIN Tail(queue) /\ Tail(queue)[i - 1] = b
      BY <1>1, <1>2, <1>4
    <2>2. QED
      BY <1>1, <2>1 DEF InQueue
  <1>5. QED
    BY <1>3, <1>4

LEMMA QueueGrows ==
  ASSUME TypeInv, NEW r \in Requests, NEW b \in Bills, InQueue(b),
         RequestStart(r) \/ HandlerStep(r) \/ PutFault(r)
  PROVE  InQueue(b)'
  <1>1. queue' = queue \/ \E c \in Bills : queue' = Append(queue, c)
    <2>1. CASE UploadEnqueue(r) \/ ReextractEnqueue(r)
      <3>1. rid[r] \in Bills
        BY <2>1 DEF UploadEnqueue, ReextractEnqueue, At, TypeInv, RequestIds
      <3>2. QED
        BY <2>1, <3>1 DEF UploadEnqueue, ReextractEnqueue, TrySend, QueueFull
    <2>2. CASE ~UploadEnqueue(r) /\ ~ReextractEnqueue(r)
      BY <2>2 DEF RequestStart, HandlerStep, UploadStep, UploadCheck, First,
         ManualCreate, ReextractFirst, UpdateFirst, MarkPaidFirst, DeleteFirst,
         UploadCreate, UploadRestore, UploadWipe, UploadReload, UploadPut,
         UploadUndo, UploadSave, UploadFull, ReextractReset,
         ReextractFull, UpdateWrite, UpdateReload, MarkPaidSave,
         DeleteSoft, DeleteHard, DeleteFile, PutFault, QueueFull
    <2>3. QED
      BY <2>1, <2>2
  <1>2. queue \in Seq(Bills)
    BY DEF TypeInv, TypeOK, WorkerOK
  <1>3. PICK i \in DOMAIN queue : queue[i] = b
    BY DEF InQueue
  <1>4. i \in DOMAIN queue' /\ queue'[i] = b
    BY <1>1, <1>2, <1>3
  <1>5. QED
    BY <1>4 DEF InQueue

(* A step outside StrandingStep never strands a bill.                      *)
LEMMA StrandedStep ==
  ASSUME TypeInv, OneRowPerFile, KeysFixed, FullFails, [Next]_vars, ~StrandingStep,
         NEW b \in Bills, Stranded(b)'
  PROVE  Stranded(b)
  <1>1. Processing(b)' /\ ~InQueue(b)' /\ ~InWorker(b)'
        /\ \A q \in Requests : ~InRequest(b, q)'
    BY PendingParts DEF Stranded
  <1>2. ASSUME NEW r \in Requests, RequestStart(r) \/ HandlerStep(r) \/ PutFault(r)
        PROVE  Stranded(b)
    <2>1. Processing(b) /\ ~InRequest(b, r)
      BY <1>1, <1>2, RequestHands DEF StrandingStep, Handed
    <2>2. ~InQueue(b)
      BY <1>1, <1>2, QueueGrows
    <2>3. ~InWorker(b)
      <3>1. UNCHANGED workerVars
        BY <1>2 DEF RequestStart, HandlerStep, UploadStep, UploadCheck, First,
         ManualCreate, ReextractFirst, UpdateFirst, MarkPaidFirst, DeleteFirst,
         UploadCreate, UploadRestore, UploadWipe, UploadReload, UploadPut,
         UploadUndo, UploadSave, UploadEnqueue, UploadFull, ReextractReset,
         ReextractEnqueue, ReextractFull, UpdateWrite, UpdateReload, MarkPaidSave,
         DeleteSoft, DeleteHard, DeleteFile, PutFault
      <3>2. QED
        BY <1>1, <3>1 DEF InWorker, workerVars
    <2>4. \A q \in Requests \ {r} : ~InRequest(b, q)
      BY <1>1, <1>2, RequestFrame DEF RequestMoves, InRequest
    <2>5. QED
      BY <2>1, <2>2, <2>3, <2>4, PendingParts DEF Stranded
  <1>3. CASE Worker
    <2>1. UNCHANGED reqVars
      BY <1>3 DEF Worker, WorkerTake, WorkerLoad, WorkerExtract, WorkerPersist,
         WorkerInsertAlert, WorkerMarkFailed, WorkerSendAlert, WorkerFinish
    <2>2. \A q \in Requests : ~InRequest(b, q)
      BY <1>1, <2>1 DEF InRequest, reqVars
    <2>3. CASE WorkerTake
      <3>1. rows' = rows /\ wpc = "idle"
        BY <2>3 DEF WorkerTake, dbVars
      <3>2. Processing(b) /\ ~InWorker(b)
        BY <1>1, <3>1 DEF Processing, Live, InWorker
      <3>3. ~InQueue(b)
        BY <1>1, <2>3, TakeHands
      <3>4. QED
        BY <2>2, <3>2, <3>3, PendingParts DEF Stranded
    <2>4. CASE ~WorkerTake
      <3>1. queue' = queue
        BY <1>3, <2>4 DEF Worker, WorkerLoad, WorkerExtract, WorkerPersist,
           WorkerInsertAlert, WorkerMarkFailed, WorkerSendAlert, WorkerFinish
      <3>2. ~InQueue(b)
        BY <1>1, <3>1 DEF InQueue
      <3>3. Processing(b) /\ ~InWorker(b)
        BY <1>1, <1>3, <2>4, WorkerHands
      <3>4. QED
        BY <2>2, <3>2, <3>3, PendingParts DEF Stranded
    <2>5. QED
      BY <2>3, <2>4
  <1>4. CASE UNCHANGED vars
    BY <1>1, <1>4, PendingParts
    DEF vars, dbVars, workerVars, reqVars, InQueue, InWorker, InRequest, Stranded,
        Processing, Live
  <1>5. QED
    BY <1>2, <1>3, <1>4 DEF Next, StrandingStep

(* A bill shown as processing is in somebody's hands - the queue, the      *)
(* worker or the request that will enqueue it - and only a re-extract      *)
(* refused by a full queue, a mark-paid that writes back an old status, a  *)
(* failing call or a restart leaves it in nobody's.                        *)
THEOREM StrandedOnlyByKnownStepsHolds == Spec => StrandedOnlyByKnownSteps
  <1> DEFINE Inv == BillInv /\ KeysFixed /\ FullFails
  <1>1. Init => Inv
    <2>1. Init => FullFails
      BY DEF Init, FullFails
    <2>2. QED
      BY <2>1, InitInv, KeysFixedInit
  <1>2. Inv /\ [Next]_vars => Inv'
    BY NextInv, KeysFixedStep, FullFailsStep DEF BillInv
  <1>3. Inv /\ [Next]_vars
          => [(\E b \in Bills : Stranded(b)' /\ ~Stranded(b)) => StrandingStep]_vars
    BY StrandedStep DEF BillInv
  <1> HIDE DEF Inv
  <1>4. Spec => []Inv
    BY <1>1, <1>2, PTL DEF Spec
  <1>5. QED
    BY <1>3, <1>4, PTL DEF Spec, StrandedOnlyByKnownSteps
-----------------------------------------------------------------------------
(* The pipeline implements the archive of BillArchive.  An id that was     *)
(* given is known from its row or from a request that worked on it, so its *)
(* file is known too.                                                      *)
Unborn == \A r \in Requests : pc[r] \in {"new", "u_create"} => rid[r] = 0

Known == \A b \in Bills : b < nextId => Exists(b) \/ \E r \in Requests : rid[r] = b

ArchiveInv == BillInv /\ KeysFixed /\ Unborn /\ Known

(* A request that has an id keeps it.                                      *)
IdsStay == \A q \in Requests : rid[q] \in Bills => rid'[q] = rid[q]

LEMMA UnbornFirst ==
  ASSUME TypeInv, Unborn, NEW r \in Requests, NEW k, NEW next, First(r, k, next),
         next \notin {"new", "u_create"}
  PROVE  pc'[r] \notin {"new", "u_create"} /\ rid[r] \notin Bills
  <1> USE DEF TypeInv, TypeOK, RequestOK
  <1>1. pc[r] = "new" /\ (Goto(r, next) \/ Reply(r, 404))
    BY DEF First, Arrive
  <1>2. QED
    BY <1>1 DEF Unborn, Goto, Reply, Bills

LEMMA UnbornRequests ==
  ASSUME TypeInv, Unborn, NEW r \in Requests,
         RequestStart(r) \/ HandlerStep(r) \/ RequestFault(r) \/ PutFault(r)
  PROVE  Unborn' /\ IdsStay
  <1> USE DEF TypeInv, TypeOK, RequestOK
  <1>1. ASSUME pc'[r] \in {"new", "u_create"} => rid'[r] = 0,
               rid[r] \in Bills => rid'[r] = rid[r]
        PROVE  Unborn' /\ IdsStay
    BY <1>1, RequestFrame DEF RequestMoves, Unborn, IdsStay
  <1>2. 0 \notin Bills
    BY DEF Bills
  <1>3. CASE UploadCheck(r)
    <2>1. \/ Reply(r, 409)
          \/ Goto(r, "u_restore")
          \/ Goto(r, "u_create") /\ \E f \in Files : Hold(r, 0, NewUpload(f))
      BY <1>3 DEF UploadCheck
    <2>2. rid[r] = 0
      BY <1>3 DEF UploadCheck, Arrive, Unborn
    <2>3. QED
      BY <1>1, <1>2, <2>1, <2>2 DEF Reply, Goto, Hold
  <1>4. CASE UploadCreate(r) \/ ManualCreate(r)
    BY <1>1, <1>2, <1>4 DEF UploadCreate, ManualCreate, At, Arrive, Unborn, Reply, Goto
  <1>5. CASE ReextractFirst(r) \/ UpdateFirst(r) \/ MarkPaidFirst(r) \/ DeleteFirst(r)
    BY <1>1, <1>5, UnbornFirst DEF ReextractFirst, UpdateFirst, MarkPaidFirst, DeleteFirst
  <1>6. CASE UploadReload(r)
    BY <1>1, <1>6 DEF UploadReload, At, Reply, Goto, Hold
  <1>7. CASE \/ UploadRestore(r) \/ UploadWipe(r) \/ UploadPut(r) \/ UploadUndo(r)
             \/ UploadSave(r) \/ UploadEnqueue(r) \/ UploadFull(r)
    BY <1>1, <1>7 DEF UploadRestore, UploadWipe, UploadPut, UploadUndo, UploadSave,
       UploadEnqueue, UploadFull, At, Reply, Goto
  <1>8. CASE \/ ReextractReset(r) \/ ReextractEnqueue(r) \/ ReextractFull(r)
             \/ UpdateWrite(r) \/ UpdateReload(r) \/ MarkPaidSave(r)
    BY <1>1, <1>8 DEF ReextractReset, ReextractEnqueue, ReextractFull, UpdateWrite,
       UpdateReload, MarkPaidSave, At, Reply, Goto
  <1>9. CASE DeleteSoft(r) \/ DeleteHard(r) \/ DeleteFile(r)
    BY <1>1, <1>9 DEF DeleteSoft, DeleteHard, DeleteFile, At, Reply, Goto
  <1>10. CASE RequestFault(r) \/ PutFault(r)
    BY <1>1, <1>10 DEF RequestFault, PutFault, At, Reply, Goto
  <1>11. QED
    BY <1>3, <1>4, <1>5, <1>6, <1>7, <1>8, <1>9, <1>10
    DEF RequestStart, HandlerStep, UploadStep

LEMMA UnbornStep == TypeInv /\ Unborn /\ [Next]_vars => Unborn' /\ IdsStay
  <1> SUFFICES ASSUME TypeInv, Unborn, [Next]_vars PROVE Unborn' /\ IdsStay
    OBVIOUS
  <1>1. CASE Crash
    BY <1>1 DEF Crash, Unborn, IdsStay
  <1>2. CASE Worker \/ WorkerFault \/ UNCHANGED vars
    <2>1. UNCHANGED <<pc, rid>>
      BY <1>2 DEF Worker, WorkerTake, WorkerLoad, WorkerExtract, WorkerPersist,
         WorkerInsertAlert, WorkerMarkFailed, WorkerSendAlert, WorkerFinish,
         WorkerFault, vars, reqVars
    <2>2. QED
      BY <2>1 DEF Unborn, IdsStay
  <1>3. QED
    BY <1>1, <1>2, UnbornRequests DEF Next

(* Either the ids stay, or an insert of a live row takes the next one.     *)
Inserts(x) ==
  /\ nextId \in Bills /\ x.st = "live" /\ nextId' = nextId + 1
  /\ rows' = [rows EXCEPT ![nextId] = x]

LEMMA InsertOrNot ==
  ASSUME TypeInv, [Next]_vars
  PROVE  nextId' = nextId \/ \E x \in Row : Inserts(x)
  <1>1. ASSUME NEW r \in Requests, UploadCreate(r)
        PROVE  nextId' = nextId \/ \E x \in Row : Inserts(x)
    <2>1. copy[r] \in Row /\ copy[r].st = "live"
      BY <1>1 DEF UploadCreate, At, TypeInv, TypeOK, RequestOK, RequestIds
    <2>2. nextId' = nextId \/ Inserts(copy[r])
      BY <1>1, <2>1, BillIds DEF UploadCreate, Inserts, TypeInv, TypeOK, DbOK
    <2>3. QED
      BY <2>1, <2>2
  <1>2. ASSUME NEW r \in Requests, ManualCreate(r)
        PROVE  nextId' = nextId \/ \E x \in Row : Inserts(x)
    <2>1. nextId' = nextId \/ Inserts(NewManual)
      BY <1>2, NewRows, BillIds DEF ManualCreate, Inserts, TypeInv, TypeOK, DbOK
    <2>2. QED
      BY <2>1, NewRows
  <1>3. ASSUME NEW r \in Requests, ~UploadCreate(r), ~ManualCreate(r),
               RequestStart(r) \/ HandlerStep(r) \/ RequestFault(r) \/ PutFault(r)
        PROVE  nextId' = nextId
    BY <1>3 DEF RequestStart, HandlerStep, UploadStep, UploadCheck, First,
       ReextractFirst, UpdateFirst, MarkPaidFirst, DeleteFirst,
       UploadRestore, UploadWipe, UploadReload, UploadPut,
       UploadUndo, UploadSave, UploadEnqueue, UploadFull, ReextractReset,
       ReextractEnqueue, ReextractFull, UpdateWrite, UpdateReload, MarkPaidSave,
       DeleteSoft, DeleteHard, DeleteFile, RequestFault, PutFault, dbVars
  <1>4. ASSUME Worker \/ WorkerFault \/ Crash \/ UNCHANGED vars PROVE nextId' = nextId
    BY <1>4 DEF Worker, WorkerTake, WorkerLoad, WorkerExtract, WorkerPersist,
       WorkerInsertAlert, WorkerMarkFailed, WorkerSendAlert, WorkerFinish,
       WorkerFault, Crash, vars, dbVars
  <1>5. QED
    BY <1>1, <1>2, <1>3, <1>4 DEF Next

LEMMA KnownStep ==
  ASSUME BillInv, Unborn, Known, [Next]_vars
  PROVE  Known'
  <1> USE DEF BillInv
  <1>1. ASSUME NEW b \in Bills, b < nextId
        PROVE  Exists(b)' \/ \E r \in Requests : rid'[r] = b
    <2>1. CASE \E r \in Requests : rid[r] = b
      BY <2>1, UnbornStep DEF IdsStay
    <2>2. CASE Exists(b) /\ ~\E r \in Requests : DeleteHard(r)
      <3>1. RowsKept
        BY <2>2, RequestWrites, WorkerWrites DEF Next
      <3>2. QED
        BY <2>2, <3>1, WritesKeep
    <2>3. ASSUME NEW r \in Requests, DeleteHard(r), Exists(b), rid[r] # b
          PROVE  Exists(b)'
      BY <2>3 DEF DeleteHard, Exists, TypeInv, TypeOK, DbOK
    <2>4. QED
      BY <1>1, <2>1, <2>2, <2>3 DEF Known
  <1>2. ASSUME NEW x \in Row, Inserts(x), NEW b \in Bills, b = nextId PROVE Exists(b)'
    BY <1>2 DEF Inserts, Exists, TypeInv, TypeOK, DbOK
  <1>3. ASSUME NEW x \in Row, Inserts(x) PROVE Known'
    <2>1. nextId \in Bills /\ nextId' = nextId + 1
      BY <1>3 DEF Inserts
    <2>2. \A b \in Bills : b < nextId + 1 => b < nextId \/ b = nextId
      BY <2>1 DEF Bills
    <2>3. QED
      BY <1>1, <1>2, <1>3, <2>1, <2>2 DEF Known
  <1>4. CASE nextId' = nextId
    BY <1>1, <1>4 DEF Known
  <1>5. QED
    BY <1>3, <1>4, InsertOrNot

(* So the file of a bill is the one its key was fixed to.                  *)
FilesFixed ==
  \A f \in [Bills -> Keys] :
    Known /\ Held(Issued(f, nextId))
      => FileOf = [b \in Bills |-> IF b < nextId THEN f[b] ELSE NoHash]

LEMMA FileIs == FilesFixed
  <1> SUFFICES ASSUME NEW f \in [Bills -> Keys], Known, Held(Issued(f, nextId))
               PROVE  FileOf = [b \in Bills |-> IF b < nextId THEN f[b] ELSE NoHash]
    BY DEF FilesFixed
  <1>0. \A b \in Bills : \A x :
          Trace(b, x) \in Issued(f, nextId) => b < nextId /\ x.key = f[b]
    BY DEF Issued, Trace
  <1>1. ASSUME NEW b \in Bills, NEW k \in KeysOf(b) PROVE b < nextId /\ k = f[b]
    <2>1. \/ \E r \in Requests : rid[r] = b /\ k = copy[r].key
          \/ Exists(b) /\ k = rows[b].key
      BY <1>1 DEF KeysOf
    <2>2. QED
      BY <1>0, <2>1 DEF Held
  <1>2. ASSUME NEW b \in Bills, b < nextId PROVE KeysOf(b) # {}
    BY <1>2 DEF Known, KeysOf
  <1>3. \A b \in Bills : (IF KeysOf(b) = {} THEN NoHash ELSE CHOOSE k \in KeysOf(b) : TRUE)
                            = IF b < nextId THEN f[b] ELSE NoHash
    BY <1>1, <1>2
  <1>4. QED
    BY <1>3 DEF FileOf

(* An id that is out stands for its file for ever; an insert fixes that of *)
(* the next one.                                                           *)
FilesKept ==
  /\ nextId' = nextId => FileOf' = FileOf
  /\ \A x \in Row : Inserts(x) => FileOf' = [FileOf EXCEPT ![nextId] = x.key]

LEMMA FileStep ==
  ASSUME ArchiveInv, [Next]_vars
  PROVE  FilesKept
  <1> USE DEF ArchiveInv, BillInv
  <1>1. PICK f \in [Bills -> Keys] : Held(Issued(f, nextId))
    BY DEF KeysFixed
  <1>2. PICK g \in [Bills -> Keys] : /\ Held(Issued(g, nextId))'
                                     /\ \A b \in Bills : b < nextId => g[b] = f[b]
    BY <1>1, KeysStep DEF KeysNext
  <1>3. FileOf = [b \in Bills |-> IF b < nextId THEN f[b] ELSE NoHash]
    BY <1>1, FileIs DEF FilesFixed
  <1>4. FileOf' = [b \in Bills |-> IF b < nextId' THEN g[b] ELSE NoHash]
    <2>1. Known'
      BY KnownStep
    <2>2. FilesFixed'
      BY FileIs, PTL
    <2>3. QED
      BY <1>2, <2>1, <2>2 DEF FilesFixed
  <1>5. nextId' = nextId => FileOf' = FileOf
    BY <1>2, <1>3, <1>4
  <1>6. ASSUME NEW x \in Row, Inserts(x)
        PROVE  FileOf' = [FileOf EXCEPT ![nextId] = x.key]
    <2>1. /\ nextId \in Bills /\ nextId' = nextId + 1 /\ x.st = "live"
          /\ rows' = [rows EXCEPT ![nextId] = x] /\ rows \in [Bills -> Row]
      BY <1>6 DEF Inserts, TypeInv, TypeOK, DbOK
    <2>2. PICK n \in Bills : n = nextId
      BY <2>1
    <2>3. Exists(n)' /\ rows'[n] = x
      BY <2>1, <2>2 DEF Exists
    <2>4. (Trace(n, rows[n]) \in Issued(g, nextId))'
      BY <1>2, <2>3 DEF Held
    <2>5. g[n] = x.key
      BY <2>3, <2>4 DEF Issued, Trace
    <2>6. \A b \in Bills : b < nextId' <=> b < nextId \/ b = n
      BY <2>1, <2>2 DEF Bills
    <2>7. ~(n < nextId)
      BY <2>2 DEF Bills
    <2>8. QED
      BY <1>2, <1>3, <1>4, <2>2, <2>5, <2>6, <2>7
  <1>7. QED
    BY <1>5, <1>6 DEF FilesKept

(* What is written back is always a version of the bill it is written to.  *)
Version(b, x) == b < nextId /\ x.key = FileOf[b]

LEMMA Versions ==
  ASSUME TypeInv, KeysFixed, Known
  PROVE  /\ \A b \in Bills : Exists(b) => Version(b, rows[b])
         /\ \A r \in Requests : rid[r] \in Bills => Version(rid[r], copy[r])
         /\ wjob \in Bills /\ wpc \notin {"idle", "taken"} => Version(wjob, wcopy)
  <1>1. PICK f \in [Bills -> Keys] : Held(Issued(f, nextId))
    BY DEF KeysFixed
  <1>2. FileOf = [b \in Bills |-> IF b < nextId THEN f[b] ELSE NoHash]
    BY <1>1, FileIs DEF FilesFixed
  <1>3. \A b \in Bills : \A x :
          Trace(b, x) \in Issued(f, nextId) => b < nextId /\ x.key = f[b]
    BY DEF Issued, Trace
  <1>4. \A b \in Bills : \A x : Trace(b, x) \in Issued(f, nextId) => Version(b, x)
    BY <1>2, <1>3 DEF Version
  <1>5. QED
    BY <1>1, <1>4 DEF Held

(* What stays as it is in the archive when a step leaves the alerts alone. *)
AlertsSame == UNCHANGED <<ledger, fired>> /\ Sounding' = Sounding

LEMMA ArchiveStutter ==
  ASSUME UNCHANGED <<rows, kids, nextId>>, AlertsSame, FilesKept
  PROVE  UNCHANGED Archive!archiveVars
  BY DEF AlertsSame, FilesKept, Shelf, Archive!archiveVars, Archive!bills, Archive!notices

(* To write row x under id b is to put the bill on shelf x.st.             *)
LEMMA WriteShelves ==
  ASSUME TypeInv, NEW b \in Bills, NEW x \in Row, rows' = [rows EXCEPT ![b] = x]
  PROVE  Shelf' = [Shelf EXCEPT ![b] = x.st]
  BY DEF Shelf, TypeInv, TypeOK, DbOK

LEMMA KeptFree ==
  ASSUME TypeInv, KeysFixed, Known
  PROVE  /\ \A b \in Bills : Archive!Kept(b) <=> Exists(b)
         /\ \A b \in Bills : \A k : KeyFree(b, k) => Archive!Free(b, k)
  <1>1. \A b \in Bills : Archive!Kept(b) <=> Exists(b)
    BY DEF Archive!Kept, Exists, Shelf
  <1>2. \A b \in Bills : Exists(b) => rows[b].key = FileOf[b]
    BY Versions DEF Version
  <1>3. QED
    BY <1>1, <1>2 DEF Archive!Free, KeyFree

(* A live version of a bill that is written is put into the archive.       *)
LEMMA ArchivePut ==
  ASSUME ArchiveInv, FilesKept, NEW b \in Bills, NEW x \in Row, x.st = "live",
         Version(b, x), KeyFree(b, x.key), rows' = [rows EXCEPT ![b] = x],
         kids' \in {kids, kids \cup {b}, kids \ {b}}, nextId' = nextId, AlertsSame
  PROVE  Archive!ArchiveNext
  <1> USE DEF ArchiveInv, BillInv
  <1>1. Shelf' = [Shelf EXCEPT ![b] = "live"]
    BY WriteShelves
  <1>2. b < nextId /\ Archive!Free(b, FileOf[b])
    BY KeptFree DEF Version
  <1>3. UNCHANGED <<FileOf, nextId, ledger, Sounding, fired>>
    BY DEF AlertsSame, FilesKept
  <1>4. Archive!Put(b)
    BY <1>1, <1>2, <1>3 DEF Archive!Put, Archive!notices
  <1>5. QED
    BY <1>4 DEF Archive!ArchiveNext

LEMMA ArchiveSave ==
  ASSUME ArchiveInv, FilesKept, NEW b \in Bills, NEW x \in Row, Version(b, x),
         SaveRow(b, x), kids' \in {kids, kids \cup {b}, kids \ {b}}, nextId' = nextId, AlertsSame
  PROVE  Archive!ArchiveNext
  <1>1. AsLive(x) \in Row /\ AsLive(x).key = x.key /\ AsLive(x).st = "live"
    BY RowUpdates
  <1>2. /\ KeyFree(b, AsLive(x).key) /\ Version(b, AsLive(x))
        /\ rows' = [rows EXCEPT ![b] = AsLive(x)]
    BY <1>1 DEF SaveRow, Version
  <1>3. QED
    BY <1>1, <1>2, ArchivePut

(* A column UPDATE of a bill that is there.                                *)
LEMMA ArchiveUpdate ==
  ASSUME ArchiveInv, FilesKept, NEW b \in Bills, Exists(b), NEW x \in Row,
         x.st = "live", x.key = rows[b].key, rows' = [rows EXCEPT ![b] = x],
         UNCHANGED <<kids, nextId>>, AlertsSame
  PROVE  Archive!ArchiveNext
  <1> USE DEF ArchiveInv, BillInv
  <1>1. KeyFree(b, x.key)
    BY UpdateWrites DEF WriteRow
  <1>2. Version(b, x)
    BY Versions DEF Version
  <1>3. QED
    BY <1>1, <1>2, ArchivePut

LEMMA ArchiveHide ==
  ASSUME ArchiveInv, FilesKept, NEW b \in Bills, Live(b), NEW x \in Row,
         x.st = "deleted", rows' = [rows EXCEPT ![b] = x],
         UNCHANGED <<kids, nextId>>, AlertsSame
  PROVE  Archive!ArchiveNext
  <1> USE DEF ArchiveInv, BillInv
  <1>1. Shelf' = [Shelf EXCEPT ![b] = "deleted"] /\ Shelf[b] = "live"
    BY WriteShelves DEF Shelf, Live
  <1>2. UNCHANGED <<FileOf, nextId, kids, ledger, Sounding, fired>>
    BY DEF AlertsSame, FilesKept
  <1>3. Archive!Hide(b)
    BY <1>1, <1>2 DEF Archive!Hide, Archive!notices
  <1>4. QED
    BY <1>3 DEF Archive!ArchiveNext

(* An insert adds a bill under a name that is free.                        *)
LEMMA ArchiveInsert ==
  ASSUME ArchiveInv, FilesKept, nextId \in Bills, NEW x \in Row, x.st = "live",
         ~\E b \in Bills : Exists(b) /\ rows[b].key = x.key,
         rows' = [rows EXCEPT ![nextId] = x], nextId' = nextId + 1, kids' = kids, AlertsSame
  PROVE  Archive!ArchiveNext
  <1> USE DEF ArchiveInv, BillInv
  <1>1. Shelf' = [Shelf EXCEPT ![nextId] = "live"]
    BY WriteShelves
  <1>2. Archive!Free(nextId, x.key)
    BY KeptFree DEF KeyFree
  <1>3. FileOf' = [FileOf EXCEPT ![nextId] = x.key]
    BY DEF FilesKept, Inserts
  <1>4. Archive!Add(x.key)
    BY <1>1, <1>2, <1>3 DEF Archive!Add, Archive!notices, AlertsSame
  <1>5. x.key \in Keys
    BY DEF Row
  <1>6. QED
    BY <1>4, <1>5 DEF Archive!ArchiveNext

(* The same for a step that soft-deletes a bill unless it is gone.         *)
LEMMA ArchiveHides ==
  ASSUME ArchiveInv, FilesKept, NEW b \in Bills, UNCHANGED <<kids, nextId>>, AlertsSame,
         rows' = IF Live(b) THEN [rows EXCEPT ![b] = AsDeleted(@)] ELSE rows
  PROVE  Archive!ArchiveNext \/ UNCHANGED Archive!archiveVars
  <1> USE DEF ArchiveInv, BillInv
  <1>1. CASE Live(b)
    <2>1. PICK x \in Row : x = AsDeleted(rows[b]) /\ x.st = "deleted"
      BY RowUpdates DEF TypeInv, TypeOK, DbOK
    <2>2. rows' = [rows EXCEPT ![b] = x]
      BY <1>1, <2>1
    <2>3. QED
      BY <1>1, <2>1, <2>2, ArchiveHide
  <1>2. CASE ~Live(b)
    BY <1>2, ArchiveStutter
  <1>3. QED
    BY <1>1, <1>2

(* A save of a version, or none where the unique index refuses it.         *)
LEMMA ArchiveSaves ==
  ASSUME ArchiveInv, FilesKept, NEW b \in Bills, NEW x \in Row, Version(b, x),
         SaveRow(b, x) \/ rows' = rows, UNCHANGED <<kids, nextId>>, AlertsSame
  PROVE  Archive!ArchiveNext \/ UNCHANGED Archive!archiveVars
  BY ArchiveSave, ArchiveStutter

(* The steps of a request one by one; those of other requests and the      *)
(* worker do not enter.                                                    *)
LEMMA RequestAlerts ==
  ASSUME NEW r \in Requests, ~DeleteHard(r),
         RequestStart(r) \/ HandlerStep(r) \/ RequestFault(r) \/ PutFault(r)
  PROVE  AlertsSame
  BY LedgerFrame DEF AlertsSame, Sounding, workerVars, histVars

LEMMA ArchiveUploads ==
  ASSUME ArchiveInv, FilesKept, NEW r \in Requests, UploadStep(r)
  PROVE  Archive!ArchiveNext \/ UNCHANGED Archive!archiveVars
  <1> USE DEF ArchiveInv, BillInv
  <1>1. AlertsSame
    <2>1. ~DeleteHard(r)
      BY DEF UploadStep, UploadCreate, UploadRestore, UploadWipe, UploadReload, UploadPut,
         UploadUndo, UploadSave, UploadEnqueue, UploadFull, DeleteHard, At
    <2>2. QED
      BY <2>1, RequestAlerts DEF HandlerStep
  <1>2. copy[r] \in Row /\ rows \in [Bills -> Row]
    BY DEF TypeInv, TypeOK, DbOK, RequestOK
  <1>3. CASE UploadCreate(r)
    <2>1. copy[r].st = "live"
      BY <1>3 DEF UploadCreate, At, TypeInv, RequestIds
    <2>2. CASE UNCHANGED <<rows, nextId>>
      BY <1>1, <1>3, <2>2, ArchiveStutter DEF UploadCreate
    <2>3. CASE ~UNCHANGED <<rows, nextId>>
      <3>1. /\ ~\E b \in Bills : Exists(b) /\ rows[b].key = copy[r].key
            /\ rows' = [rows EXCEPT ![nextId] = copy[r]]
            /\ nextId <= MaxBills /\ nextId' = nextId + 1 /\ kids' = kids
        BY <1>3, <2>3 DEF UploadCreate
      <3>2. nextId \in Bills
        BY <3>1, BillIds DEF TypeInv, TypeOK, DbOK
      <3>3. QED
        BY <1>1, <1>2, <2>1, <3>1, <3>2, ArchiveInsert
    <2>4. QED
      BY <2>2, <2>3
  <1>4. CASE UploadRestore(r)
    <2>1. rid[r] \in Bills /\ UNCHANGED <<kids, nextId>>
      BY <1>4 DEF UploadRestore, At, TypeInv, RequestIds
    <2>2. CASE Exists(rid[r])
      <3>1. PICK x \in Row : x = AsLive(AsProcessing(rows[rid[r]])) /\ x.st = "live"
                              /\ x.key = rows[rid[r]].key
        BY <1>2, <2>1, RowUpdates
      <3>2. rows' = [rows EXCEPT ![rid[r]] = x]
        BY <1>4, <2>2, <3>1 DEF UploadRestore
      <3>3. QED
        BY <1>1, <2>1, <2>2, <3>1, <3>2, ArchiveUpdate
    <2>3. CASE ~Exists(rid[r])
      BY <1>1, <1>4, <2>1, <2>3, ArchiveStutter DEF UploadRestore
    <2>4. QED
      BY <2>2, <2>3
  <1>5. CASE UploadWipe(r)
    <2>1. rid[r] \in Bills /\ kids' = kids \ {rid[r]} /\ UNCHANGED <<rows, nextId>>
      BY <1>5 DEF UploadWipe, At, TypeInv, RequestIds
    <2>2. Archive!Strip(rid[r])
      BY <1>1, <2>1
      DEF Archive!Strip, Archive!bills, Archive!notices, AlertsSame, FilesKept, Shelf
    <2>3. QED
      BY <2>1, <2>2 DEF Archive!ArchiveNext
  <1>6. CASE UploadUndo(r)
    BY <1>1, <1>6, ArchiveHides DEF UploadUndo, At, TypeInv, RequestIds
  <1>7. CASE UploadSave(r) \/ UploadFull(r)
    <2>1. rid[r] \in Bills /\ UNCHANGED <<kids, nextId>>
      BY <1>7 DEF UploadSave, UploadFull, At, TypeInv, RequestIds
    <2>2. Version(rid[r], copy[r])
      BY <2>1, Versions
    <2>3. SaveRow(rid[r], copy[r]) \/ rows' = rows
      BY <1>7 DEF UploadSave, UploadFull
    <2>4. QED
      BY <1>1, <1>2, <2>1, <2>2, <2>3, ArchiveSaves
  <1>8. CASE UploadReload(r) \/ UploadPut(r) \/ UploadEnqueue(r)
    BY <1>1, <1>8, ArchiveStutter DEF UploadReload, UploadPut, UploadEnqueue, dbVars
  <1>9. QED
    BY <1>3, <1>4, <1>5, <1>6, <1>7, <1>8 DEF UploadStep

LEMMA ArchiveEdits ==
  ASSUME ArchiveInv, FilesKept, NEW r \in Requests, AlertsSame,
         ReextractReset(r) \/ UpdateWrite(r) \/ MarkPaidSave(r) \/ DeleteSoft(r)
  PROVE  Archive!ArchiveNext \/ UNCHANGED Archive!archiveVars
  <1> USE DEF ArchiveInv, BillInv
  <1>1. /\ rid[r] \in Bills /\ UNCHANGED <<kids, nextId>>
        /\ copy[r] \in Row /\ rows \in [Bills -> Row]
    BY DEF ReextractReset, UpdateWrite, MarkPaidSave, DeleteSoft, At, TypeInv, TypeOK,
           DbOK, RequestOK, RequestIds
  <1>2. Version(rid[r], copy[r])
    BY <1>1, Versions
  <1>3. CASE ReextractReset(r)
    <2>1. AsProcessing(copy[r]) \in Row /\ Version(rid[r], AsProcessing(copy[r]))
      BY <1>1, <1>2, RowUpdates DEF Version
    <2>2. SaveRow(rid[r], AsProcessing(copy[r])) \/ rows' = rows
      BY <1>3 DEF ReextractReset
    <2>3. QED
      BY <1>1, <2>1, <2>2, ArchiveSaves
  <1>4. CASE MarkPaidSave(r)
    <2>1. WithPayment(copy[r]) \in Row /\ Version(rid[r], WithPayment(copy[r]))
      BY <1>1, <1>2, RowUpdates DEF Version
    <2>2. SaveRow(rid[r], WithPayment(copy[r])) \/ rows' = rows
      BY <1>4 DEF MarkPaidSave
    <2>3. QED
      BY <1>1, <2>1, <2>2, ArchiveSaves
  <1>5. CASE UpdateWrite(r)
    <2>1. CASE Live(rid[r])
      <3>1. PICK x \in Row : /\ x.st = "live" /\ x.key = rows[rid[r]].key
                              /\ rows' = [rows EXCEPT ![rid[r]] = x]
        <4>1. WithEdit(rows[rid[r]]) \in Row /\ WithPayment(rows[rid[r]]) \in Row
              /\ WithEdit(rows[rid[r]]).key = rows[rid[r]].key
              /\ WithPayment(rows[rid[r]]).key = rows[rid[r]].key
              /\ WithEdit(rows[rid[r]]).st = "live" /\ WithPayment(rows[rid[r]]).st = "live"
          BY <1>1, <2>1, RowUpdates DEF Live
        <4>2. \/ rows' = [rows EXCEPT ![rid[r]] = WithEdit(rows[rid[r]])]
              \/ rows' = [rows EXCEPT ![rid[r]] = WithPayment(rows[rid[r]])]
          BY <1>5, <2>1 DEF UpdateWrite
        <4>3. QED
          BY <4>1, <4>2
      <3>2. Exists(rid[r])
        BY <2>1 DEF Live, Exists
      <3>3. QED
        BY <1>1, <3>1, <3>2, ArchiveUpdate
    <2>2. CASE ~Live(rid[r])
      BY <1>1, <1>5, <2>2, ArchiveStutter DEF UpdateWrite
    <2>3. QED
      BY <2>1, <2>2
  <1>6. CASE DeleteSoft(r)
    BY <1>1, <1>6, ArchiveHides DEF DeleteSoft
  <1>7. QED
    BY <1>3, <1>4, <1>5, <1>6

LEMMA ArchiveManual ==
  ASSUME ArchiveInv, FilesKept, NEW r \in Requests, ManualCreate(r), AlertsSame
  PROVE  Archive!ArchiveNext \/ UNCHANGED Archive!archiveVars
  <1> USE DEF ArchiveInv, BillInv
  <1>1. CASE UNCHANGED <<rows, nextId>>
    BY <1>1, ArchiveStutter DEF ManualCreate
  <1>2. CASE ~UNCHANGED <<rows, nextId>>
    <2>1. /\ ~\E b \in Bills : Exists(b) /\ rows[b].key = NewManual.key
          /\ rows' = [rows EXCEPT ![nextId] = NewManual]
          /\ nextId <= MaxBills /\ nextId' = nextId + 1 /\ kids' = kids
      BY <1>2, NewRows DEF ManualCreate
    <2>2. nextId \in Bills
      BY <2>1, BillIds DEF TypeInv, TypeOK, DbOK
    <2>3. PICK x \in Row : x = NewManual /\ x.st = "live"
      BY NewRows
    <2>4. QED
      BY <2>1, <2>2, <2>3, ArchiveInsert
  <1>3. QED
    BY <1>1, <1>2

(* The transaction of a hard delete discards the bill in one step.         *)
LEMMA ArchiveDiscard ==
  ASSUME ArchiveInv, FilesKept, NEW r \in Requests, DeleteHard(r)
  PROVE  Archive!ArchiveNext
  <1> USE DEF ArchiveInv, BillInv
  <1>1. PICK b \in Bills : b = rid[r]
    BY DEF DeleteHard, At, TypeInv, RequestIds
  <1>2. /\ rows' = [rows EXCEPT ![b] = NoRow]
        /\ kids' = kids \ {b}
        /\ ledger' = [k \in AlertKey |-> IF ledger[k] = b THEN 0 ELSE ledger[k]]
        /\ UNCHANGED <<nextId, workerVars, fired>>
    BY <1>1 DEF DeleteHard
  <1>3. b < nextId
    BY <1>1, Versions DEF Version
  <1>4. Shelf' = [Shelf EXCEPT ![b] = "none"]
    <2>1. PICK x \in Row : x = NoRow /\ x.st = "none"
      BY NewRows
    <2>2. Shelf' = [Shelf EXCEPT ![b] = x.st]
      BY <1>2, <2>1, WriteShelves
    <2>3. QED
      BY <2>1, <2>2
  <1>5. Sounding' = Sounding /\ FileOf' = FileOf
    BY <1>2 DEF Sounding, workerVars, FilesKept
  <1>6. Archive!Discard(b)
    BY <1>2, <1>3, <1>4, <1>5 DEF Archive!Discard
  <1>7. QED
    BY <1>6 DEF Archive!ArchiveNext

LEMMA ArchiveRequests ==
  ASSUME ArchiveInv, FilesKept, NEW r \in Requests,
         RequestStart(r) \/ HandlerStep(r) \/ RequestFault(r) \/ PutFault(r)
  PROVE  Archive!ArchiveNext \/ UNCHANGED Archive!archiveVars
  <1> USE DEF ArchiveInv, BillInv
  <1>1. CASE DeleteHard(r)
    BY <1>1, ArchiveDiscard
  <1>2. CASE UploadStep(r)
    BY <1>2, ArchiveUploads
  <1>3. CASE ~DeleteHard(r) /\ ~UploadStep(r)
    <2>1. AlertsSame
      BY <1>3, RequestAlerts
    <2>2. CASE ManualCreate(r)
      BY <2>1, <2>2, ArchiveManual
    <2>3. CASE ReextractReset(r) \/ UpdateWrite(r) \/ MarkPaidSave(r) \/ DeleteSoft(r)
      BY <2>1, <2>3, ArchiveEdits
    <2>4. ASSUME UploadCheck(r) \/ ReextractFirst(r) \/ UpdateFirst(r) \/ MarkPaidFirst(r)
                   \/ DeleteFirst(r) \/ ReextractEnqueue(r) \/ ReextractFull(r)
                   \/ UpdateReload(r) \/ DeleteFile(r) \/ RequestFault(r) \/ PutFault(r)
          PROVE  UNCHANGED <<rows, kids, nextId>>
      BY <2>4 DEF UploadCheck, First, ReextractFirst, UpdateFirst, MarkPaidFirst,
         DeleteFirst, ReextractEnqueue, ReextractFull, UpdateReload, DeleteFile,
         RequestFault, PutFault, dbVars
    <2>5. QED
      BY <1>3, <2>1, <2>2, <2>3, <2>4, ArchiveStutter DEF RequestStart, HandlerStep
  <1>4. QED
    BY <1>1, <1>2, <1>3

(* The worker writes versions of its bill, and claims and sounds notices.  *)
LEMMA ArchiveWorker ==
  ASSUME ArchiveInv, FilesKept, Worker
  PROVE  Archive!ArchiveNext \/ UNCHANGED Archive!archiveVars
  <1> USE DEF ArchiveInv, BillInv
  <1>0. ASSUME UNCHANGED <<rows, nextId>> PROVE UNCHANGED <<Shelf, FileOf>>
    BY <1>0 DEF Shelf, FilesKept
  <1>1. CASE WorkerPersist
    <2>1. wjob \in Bills /\ Extracted \in Row /\ Extracted.key = wcopy.key
      BY <1>1, ExtractedIsRow DEF WorkerPersist, TypeInv, TypeOK, WorkerId
    <2>2. Version(wjob, Extracted)
      BY <1>1, <2>1, Versions DEF WorkerPersist, Version
    <2>3. AlertsSame /\ nextId' = nextId
      BY <1>1 DEF WorkerPersist, AlertsSame, Sounding, histVars
    <2>4. CASE KeyFree(wjob, wcopy.key)
      <3>1. SaveRow(wjob, Extracted) /\ kids' \in {kids, kids \cup {wjob}, kids \ {wjob}}
        BY <1>1, <2>4 DEF WorkerPersist, ReplaceKids
      <3>2. QED
        BY <2>1, <2>2, <2>3, <3>1, ArchiveSave
    <2>5. CASE ~KeyFree(wjob, wcopy.key)
      BY <1>1, <2>3, <2>5, ArchiveStutter DEF WorkerPersist
    <2>6. QED
      BY <2>4, <2>5
  <1>2. CASE WorkerMarkFailed
    <2>1. wjob \in Bills /\ wcopy \in Row
      BY <1>2 DEF WorkerMarkFailed, TypeInv, TypeOK, WorkerOK, WorkerId
    <2>2. AsFailed(wcopy) \in Row /\ AsFailed(wcopy).key = wcopy.key
      BY <2>1, RowUpdates
    <2>3. Version(wjob, AsFailed(wcopy))
      BY <1>2, <2>1, <2>2, Versions DEF WorkerMarkFailed, Version
    <2>4. AlertsSame /\ UNCHANGED <<kids, nextId>>
      BY <1>2 DEF WorkerMarkFailed, WorkerIdle, AlertsSame, Sounding, histVars
    <2>5. SaveRow(wjob, AsFailed(wcopy)) \/ rows' = rows
      BY <1>2 DEF WorkerMarkFailed
    <2>6. QED
      BY <2>1, <2>2, <2>3, <2>4, <2>5, ArchiveSaves
  <1>3. CASE WorkerInsertAlert
    <2>1. wjob \in Bills /\ Head(wtodo) \in Triggers /\ wpc = "alert"
      BY <1>3 DEF WorkerInsertAlert, TypeInv, TypeOK, WorkerOK, WorkerId
    <2>2. PICK k \in AlertKey : k = PeriodKey(wjob, Head(wtodo))
      BY <2>1, AlertKeys
    <2>3. /\ UNCHANGED <<rows, kids, nextId, wjob, fired>>
          /\ IF ledger[k] = 0
             THEN ledger' = [ledger EXCEPT ![k] = wjob] /\ wpc' = "send" /\ UNCHANGED wtodo
             ELSE wtodo' = Tail(wtodo) /\ UNCHANGED <<ledger, wpc>>
      BY <1>3, <2>2 DEF WorkerInsertAlert, histVars
    <2>4. Sounding = {}
      BY <2>1 DEF Sounding
    <2>5. CASE ledger[k] = 0
      <3>1. wjob < nextId
        BY <2>1, Versions DEF Version
      <3>2. Sounding' = {k}
        BY <2>2, <2>3, <2>5 DEF Sounding
      <3>3. Archive!Claim(wjob, k)
        BY <1>0, <2>3, <2>4, <2>5, <3>1, <3>2 DEF Archive!Claim, Archive!bills
      <3>4. QED
        BY <2>1, <2>2, <3>3 DEF Archive!ArchiveNext
    <2>6. CASE ledger[k] # 0
      <3>1. AlertsSame
        BY <2>1, <2>3, <2>6 DEF AlertsSame, Sounding
      <3>2. QED
        BY <2>3, <3>1, ArchiveStutter
    <2>7. QED
      BY <2>5, <2>6
  <1>4. CASE WorkerSendAlert
    <2>1. wjob \in Bills /\ Head(wtodo) \in Triggers /\ wpc = "send"
      BY <1>4 DEF WorkerSendAlert, TypeInv, TypeOK, WorkerOK, WorkerId
    <2>2. PICK k \in AlertKey : k = PeriodKey(wjob, Head(wtodo))
      BY <2>1, AlertKeys
    <2>3. Sounding = {k} /\ Sounding' = {}
      BY <1>4, <2>1, <2>2 DEF Sounding, WorkerSendAlert
    <2>4. fired' = [fired EXCEPT ![k] = @ + 1] /\ UNCHANGED <<rows, kids, nextId, ledger>>
      BY <1>4, <2>2 DEF WorkerSendAlert, dbVars
    <2>5. Archive!Sound(k)
      BY <1>0, <2>3, <2>4 DEF Archive!Sound, Archive!bills
    <2>6. QED
      BY <2>2, <2>5 DEF Archive!ArchiveNext
  <1>5. CASE WorkerTake \/ WorkerLoad \/ WorkerExtract \/ WorkerFinish
    <2>1. wpc # "send" /\ wpc' # "send" /\ UNCHANGED <<rows, kids, nextId, ledger, fired>>
      BY <1>5 DEF WorkerTake, WorkerLoad, WorkerExtract, WorkerFinish, WorkerIdle, dbVars,
         histVars
    <2>2. QED
      BY <2>1, ArchiveStutter DEF AlertsSame, Sounding
  <1>6. QED
    BY <1>1, <1>2, <1>3, <1>4, <1>5 DEF Worker

LEMMA ArchiveStep ==
  ArchiveInv /\ [Next]_vars => [Archive!ArchiveNext]_(Archive!archiveVars)
  <1> SUFFICES ASSUME ArchiveInv, [Next]_vars
               PROVE  Archive!ArchiveNext \/ UNCHANGED Archive!archiveVars
    OBVIOUS
  <1>0. FilesKept
    BY FileStep
  <1>1. CASE WorkerFault
    <2>1. wpc # "send" /\ wpc' # "send" /\ UNCHANGED <<rows, kids, nextId, ledger, fired>>
      BY <1>1 DEF WorkerFault, WorkerIdle, dbVars, histVars
    <2>2. QED
      BY <1>0, <2>1, ArchiveStutter DEF AlertsSame, Sounding
  <1>2. CASE Crash
    <2>1. Sounding' = {} /\ UNCHANGED <<rows, kids, nextId, ledger, fired>>
      BY <1>2 DEF Crash, WorkerIdle, Sounding, dbVars
    <2>2. Archive!Forget
      BY <1>0, <2>1 DEF Archive!Forget, Archive!bills, Shelf, FilesKept
    <2>3. QED
      BY <2>2 DEF Archive!ArchiveNext
  <1>3. CASE UNCHANGED vars
    <2>1. AlertsSame /\ UNCHANGED <<rows, kids, nextId>>
      BY <1>3 DEF vars, dbVars, histVars, workerVars, AlertsSame, Sounding
    <2>2. QED
      BY <1>0, <2>1, ArchiveStutter
  <1>4. QED
    BY <1>0, <1>1, <1>2, <1>3, ArchiveRequests, ArchiveWorker DEF Next

LEMMA ArchiveStart == Init => ArchiveInv /\ Archive!ArchiveInit
  <1> SUFFICES ASSUME Init PROVE ArchiveInv /\ Archive!ArchiveInit
    OBVIOUS
  <1>1. PICK first \in SettledRows :
          /\ MaxBills = 0 => first = NoRow
          /\ rows = [b \in Bills |-> IF b = 1 THEN first ELSE NoRow]
          /\ nextId = IF first = NoRow THEN 1 ELSE 2
          /\ kids = IF first = NoRow THEN {} ELSE {1}
    BY DEF Init
  <1>2. NoRow.st = "none" /\ (first # NoRow => first.st # "none")
    BY NewRows DEF SettledRows
  <1>3. first # NoRow => 1 \in Bills
    BY <1>1, BillAssumption DEF Bills
  <1>4. \A b \in Bills : Exists(b) <=> b = 1 /\ first # NoRow
    BY <1>1, <1>2 DEF Exists
  <1>5. \A r \in Requests : rid[r] = 0
    BY DEF Init
  <1>6. ArchiveInv
    <2>1. \A b \in Bills : b < nextId => Exists(b)
      BY <1>1, <1>4 DEF Bills
    <2>2. QED
      BY <1>5, <2>1, InitInv, KeysFixedInit DEF ArchiveInv, Unborn, Known
  <1>7. \A b \in Bills : ~Exists(b) => FileOf[b] = NoHash
    <2>1. \A b \in Bills : b # 0
      BY DEF Bills
    <2>2. \A b \in Bills : ~Exists(b) => KeysOf(b) = {}
      BY <1>5, <2>1 DEF KeysOf
    <2>3. QED
      BY <2>2 DEF FileOf
  <1>8. nextId = IF \E b \in Bills : Exists(b) THEN 2 ELSE 1
    BY <1>1, <1>3, <1>4
  <1>9. /\ \A b \in Bills : Exists(b) => b = 1 /\ b \in kids
        /\ \A b \in kids : b \in Bills /\ Exists(b)
    BY <1>1, <1>3, <1>4
  <1>10. /\ ledger = [k \in AlertKey |-> 0] /\ fired = [k \in AlertKey |-> 0]
         /\ Sounding = {}
    BY DEF Init, Sounding
  <1>11. \A b \in Bills : Archive!Kept(b) <=> Exists(b)
    BY <1>6, KeptFree DEF ArchiveInv, BillInv
  <1>12. Archive!ArchiveInit
    BY <1>7, <1>8, <1>9, <1>10, <1>11 DEF Archive!ArchiveInit
  <1>13. QED
    BY <1>6, <1>12

(* Handlers, worker, faults and restarts together are an archive: an id    *)
(* stands for one file for ever, whatever stale copies are saved and even  *)
(* after a hard delete (UploadCreate, SaveRow), a bill is discarded with   *)
(* its papers and claims in one step (DeleteHard), and a notice sounds     *)
(* only for a fresh claim (WorkerInsertAlert).                             *)
THEOREM PipelineKeepsArchive == Spec => ImplementsArchive
  <1>1. Init => ArchiveInv /\ Archive!ArchiveInit
    BY ArchiveStart
  <1>2. ArchiveInv /\ [Next]_vars => ArchiveInv'
    BY NextInv, KeysFixedStep, UnbornStep, KnownStep DEF ArchiveInv, BillInv
  <1>3. ArchiveInv /\ [Next]_vars => [Archive!ArchiveNext]_(Archive!archiveVars)
    BY ArchiveStep
  <1>4. Spec => Archive!ArchiveInit /\ [][Archive!ArchiveNext]_(Archive!archiveVars)
    BY <1>1, <1>2, <1>3, PTL DEF Spec
  <1>5. QED
    BY <1>4 DEF ImplementsArchive, Archive!ArchiveSpec
=============================================================================
