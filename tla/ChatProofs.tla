------------------------------- MODULE ChatProofs -------------------------------
(***************************************************************************)
(* Theorems about Chat for every set of requests and members, and every    *)
(* number of slots.                                                        *)
(***************************************************************************)
EXTENDS Chat, FiniteSetTheorems, TLAPS

(* How the parts of a request go together: which operation a place in a    *)
(* handler belongs to, and when its goroutines run.                        *)
Linked(r) ==
  /\ pc[r] = "idle" => op[r] = "none" /\ prv[r] = "none"
  /\ pc[r] = "saved" => op[r] \in {"send", "ask"}
  /\ pc[r] = "loaded" => op[r] \in {"edit", "delete"}
  /\ pc[r] \in {"edited", "reloaded"} => op[r] = "edit"
  /\ pc[r] = "deleted" => op[r] = "delete"
  /\ pc[r] = "cleared" => op[r] = "clear"
  /\ pc[r] \in {"absent", "found"} => op[r] = "seen"
  /\ pc[r] # "done" => code[r] = 0
  /\ op[r] \notin {"none", "clear"} => target[r] \in Ids
  /\ ai[r] # "none" => op[r] = "ask" /\ pc[r] = "done"
  /\ answer[r] # 0 <=> ai[r] \in {"answered", "excused", "previewed", "done"}

Links == \A r \in Requests : Linked(r)

(* The sequence of the table counts the messages sent and the answers.     *)
Sent     == {r \in Requests : op[r] \in {"send", "ask"}}
Answered == {r \in Requests : answer[r] # 0}
Counted  == nextId = 2 + Cardinality(Sent) + Cardinality(Answered)

TypeInv == TypeOK /\ Links /\ Counted

-----------------------------------------------------------------------------
LEMMA IdFacts ==
  /\ Cardinality(Requests) \in Nat /\ MaxId \in Nat /\ MaxId = 1 + 2 * Cardinality(Requests)
  /\ Ids \subseteq 0..MaxId /\ 1 \in Ids /\ 0 \notin Ids
  /\ \A n \in 1..(MaxId + 1) : n <= MaxId => n \in Ids
  <1>1. Cardinality(Requests) \in Nat
    BY ChatAssumption, FS_CardinalityType
  <1>2. QED
    BY <1>1 DEF MaxId, Ids

LEMMA RowFacts ==
  /\ NoMsg \in Row
  /\ \A r \in Requests : User[r] \in Users /\ Msg(User[r], r) \in Row
  /\ \A u \in Users : Msg(u, First) \in Row
  /\ Msg(Assistant, Reply) \in Row
  BY DEF NoMsg, Row, Msg, Users

LEMMA SubsetCounts ==
  /\ \A S \in SUBSET Requests : IsFiniteSet(S) /\ Cardinality(S) \in Nat
                                /\ Cardinality(S) <= Cardinality(Requests)
  /\ \A S \in SUBSET Requests, r \in Requests :
       r \notin S => /\ Cardinality(S \cup {r}) = Cardinality(S) + 1
                     /\ Cardinality(S) + 1 <= Cardinality(Requests)
  <1>1. ASSUME NEW S \in SUBSET Requests
        PROVE  IsFiniteSet(S) /\ Cardinality(S) \in Nat
               /\ Cardinality(S) <= Cardinality(Requests)
    BY ChatAssumption, FS_Subset, FS_CardinalityType
  <1>2. ASSUME NEW S \in SUBSET Requests, NEW r \in Requests, r \notin S
        PROVE  /\ Cardinality(S \cup {r}) = Cardinality(S) + 1
               /\ Cardinality(S) + 1 <= Cardinality(Requests)
    <2>1. Cardinality(S \cup {r}) = Cardinality(S) + 1
      BY <1>1, <1>2, FS_AddElement
    <2>2. S \cup {r} \in SUBSET Requests
      OBVIOUS
    <2>3. QED
      BY <1>1, <2>1, <2>2
  <1>3. QED
    BY <1>1, <1>2

(* A message that is still to be inserted finds an id.                     *)
LEMMA IdLeft ==
  ASSUME TypeInv, NEW r \in Requests, r \notin Sent \/ r \notin Answered
  PROVE  nextId \in Ids /\ nextId + 1 \in 1..(MaxId + 1)
  <1>1. Sent \in SUBSET Requests /\ Answered \in SUBSET Requests
    BY DEF Sent, Answered
  <1>2. Cardinality(Sent) \in Nat /\ Cardinality(Answered) \in Nat
        /\ Cardinality(Sent) <= Cardinality(Requests)
        /\ Cardinality(Answered) <= Cardinality(Requests)
    BY <1>1, SubsetCounts
  <1>3. r \notin Sent => Cardinality(Sent) + 1 <= Cardinality(Requests)
    BY <1>1, SubsetCounts
  <1>4. r \notin Answered => Cardinality(Answered) + 1 <= Cardinality(Requests)
    BY <1>1, SubsetCounts
  <1>5. nextId <= MaxId
    BY <1>2, <1>3, <1>4, IdFacts DEF TypeInv, Counted
  <1>6. nextId \in 1..(MaxId + 1)
    BY DEF TypeInv, TypeOK
  <1>7. QED
    BY <1>5, <1>6, IdFacts

LEMMA InitType == Init => TypeInv
  <1> SUFFICES ASSUME Init PROVE TypeInv
    OBVIOUS
  <1> USE DEF Init
  <1>1. PICK u \in Users : rows = [i \in Ids |-> IF i = 1 THEN Msg(u, First) ELSE NoMsg]
    OBVIOUS
  <1>2. rows \in [Ids -> Row]
    BY <1>1, RowFacts
  <1>3. Sent = {} /\ Answered = {} /\ Running = {}
    BY DEF Sent, Answered, Running
  <1>4. Cardinality({}) = 0
    BY FS_EmptySet
  <1>5. Cardinality(Running) + elsewhere <= AISlots
    BY <1>3, <1>4, ChatAssumption
  <1>6. nextId \in 1..(MaxId + 1)
    <2>1. Requests # {}
      BY <1>1 DEF Users
    <2>2. Cardinality(Requests) # 0
      BY <2>1, ChatAssumption, FS_EmptySet
    <2>3. QED
      BY <2>2, IdFacts
  <1>7. TypeOK
    BY <1>2, <1>5, <1>6, RowFacts, IdFacts, ChatAssumption DEF TypeOK, Unsure
  <1>8. Links
    BY DEF Links, Linked
  <1>9. Counted
    BY <1>3, <1>4 DEF Counted
  <1>10. QED
    BY <1>7, <1>8, <1>9 DEF TypeInv

-----------------------------------------------------------------------------
(* The type invariant, but for the slots of the semaphore.                 *)
Columns ==
  /\ rows \in [Ids -> Row] /\ view \in [Ids -> Row]
  /\ nextId \in 1..(MaxId + 1)
  /\ preview \in 0..MaxId
  /\ receipts \in [Users -> 0..MaxId]
  /\ op \in [Requests -> Kinds \cup {"none"}]
  /\ pc \in [Requests -> {"idle", "saved", "loaded", "edited", "reloaded", "deleted",
                          "cleared", "absent", "found", "done"}]
  /\ target \in [Requests -> 0..MaxId]
  /\ copy \in [Requests -> Row]
  /\ code \in [Requests -> {0, 200, 201, 403, 404, 500}]
  /\ prv \in [Requests -> {"none", "started", "done"}]
  /\ ai \in [Requests -> {"none", "waiting", "thinking", "responding", "answered",
                          "excused", "previewed", "done"}]
  /\ answer \in [Requests -> 0..MaxId]
  /\ status \in {"none", "thinking", "responding", "idle"}
  /\ raced \subseteq Ids /\ last \in Unsure..MaxId
  /\ before \in [Requests -> SUBSET Requests]

Slots == elsewhere \in 0..AISlots /\ Cardinality(Running) + elsewhere <= AISlots

LEMMA TypeParts == (TypeOK <=> Columns /\ Slots) /\ (TypeOK' <=> Columns' /\ Slots')
  BY DEF TypeOK, Columns, Slots

(* What the statements put into a row is a row.                            *)
LEMMA RowWrites ==
  /\ \A x \in Row, r \in Requests : [x EXCEPT !.text = r] \in Row
  /\ \A x \in Row, b \in BOOLEAN : [x EXCEPT !.processed = b] \in Row
  BY DEF Row

(* A request that is about to insert a message finds an id for it.         *)
LEMMA NewId ==
  ASSUME TypeInv, NEW r \in Requests, pc[r] = "idle" \/ ai[r] = "responding"
  PROVE  /\ nextId \in Ids /\ nextId # 0 /\ nextId \in 0..MaxId
         /\ nextId + 1 \in 1..(MaxId + 1)
  <1>1. r \notin Sent \/ r \notin Answered
    BY DEF TypeInv, Links, Linked, Sent, Answered
  <1>2. QED
    BY <1>1, IdLeft, IdFacts

LEMMA LinksStep ==
  ASSUME TypeInv, [Next]_vars
  PROVE  Links'
  <1> USE DEF TypeInv, TypeOK, Links, Linked, Kinds
  <1>1. ASSUME NEW r \in Requests, NEW k \in Kinds, SendCreate(r, k) PROVE Links'
    <2>1. nextId \in Ids
      BY <1>1, NewId DEF SendCreate, Begin
    <2>2. QED
      BY <1>1, <2>1 DEF SendCreate, Begin, Goto
  <1>2. ASSUME NEW r \in Requests, SendBroadcast(r) PROVE Links'
    BY <1>2 DEF SendBroadcast, Goto, Answer, tables, handler, runs, history
  <1>3. ASSUME NEW r \in Requests, PreviewWrite(r) PROVE Links'
    BY <1>3 DEF PreviewWrite, tables, handler, runs, history
  <1>4. ASSUME NEW r \in Requests, NEW k \in Kinds, NEW i \in Ids, LoadOwn(r, k, i) PROVE Links'
    BY <1>4 DEF LoadOwn, Begin, Goto, Answer, tables, handler, runs, history
  <1>5. ASSUME NEW r \in Requests, EditSave(r) PROVE Links'
    BY <1>5 DEF EditSave, Goto, tables, handler, runs, history
  <1>6. ASSUME NEW r \in Requests, EditReload(r) PROVE Links'
    BY <1>6 DEF EditReload, Goto, tables, handler, runs, history
  <1>7. ASSUME NEW r \in Requests, EditBroadcast(r) PROVE Links'
    BY <1>7 DEF EditBroadcast, Goto, Answer, tables, handler, runs, history
  <1>8. ASSUME NEW r \in Requests, DeleteRow(r) PROVE Links'
    BY <1>8 DEF DeleteRow, Goto, tables, handler, runs, history
  <1>9. ASSUME NEW r \in Requests, DeleteBroadcast(r) PROVE Links'
    BY <1>9 DEF DeleteBroadcast, Goto, Answer, tables, handler, runs, history
  <1>10. ASSUME NEW r \in Requests, ClearCommit(r) PROVE Links'
    BY <1>10 DEF ClearCommit, Begin, Goto, Due, tables, handler, runs, history
  <1>11. ASSUME NEW r \in Requests, ClearBroadcast(r) PROVE Links'
    BY <1>11 DEF ClearBroadcast, Goto, Answer, tables, handler, runs, history
  <1>12. ASSUME NEW r \in Requests, NEW i \in Ids, SeenFind(r, i) PROVE Links'
    BY <1>12 DEF SeenFind, Begin, Goto, tables, handler, runs, history
  <1>13. ASSUME NEW r \in Requests, SeenCreate(r) PROVE Links'
    BY <1>13 DEF SeenCreate, Goto, Answer, tables, handler, runs, history
  <1>14. ASSUME NEW r \in Requests, SeenUpdate(r) PROVE Links'
    BY <1>14 DEF SeenUpdate, Goto, Answer, tables, handler, runs, history
  <1>15. ASSUME NEW r \in Requests, AiAcquire(r) PROVE Links'
    BY <1>15 DEF AiAcquire, AiGoto, tables, handler, runs, history
  <1>16. ASSUME NEW r \in Requests, AiRespond(r) PROVE Links'
    BY <1>16 DEF AiRespond, AiGoto, tables, handler, runs, history
  <1>17. ASSUME NEW r \in Requests, AiSave(r) PROVE Links'
    <2>1. nextId # 0
      BY <1>17, NewId DEF AiSave
    <2>2. QED
      BY <1>17, <2>1 DEF AiSave, AiGoto, handler
  <1>18. ASSUME NEW r \in Requests, AiPreview(r) PROVE Links'
    BY <1>18 DEF AiPreview, AiGoto, tables, handler, runs, history
  <1>19. ASSUME NEW r \in Requests, AiShow(r) PROVE Links'
    BY <1>19 DEF AiShow, AiGoto, tables, handler, runs, history
  <1>20. CASE OtherTakes \/ OtherReleases \/ UNCHANGED vars
    BY <1>20 DEF OtherTakes, OtherReleases, vars, tables, handler, runs, history
  <1> QED
    BY <1>1, <1>2, <1>3, <1>4, <1>5, <1>6, <1>7, <1>8, <1>9, <1>10, <1>11, <1>12, <1>13,
       <1>14, <1>15, <1>16, <1>17, <1>18, <1>19, <1>20 DEF Next, Arrive, HandlerStep,
       AiStep

LEMMA ColumnsStep ==
  ASSUME TypeInv, [Next]_vars
  PROVE  Columns'
  <1> USE DEF TypeInv, TypeOK, Columns, Links, Linked, Kinds
  <1>1. ASSUME NEW r \in Requests, NEW k \in Kinds, SendCreate(r, k) PROVE Columns'
    <2>1. nextId \in Ids /\ nextId \in 0..MaxId /\ nextId + 1 \in 1..(MaxId + 1)
      BY <1>1, NewId DEF SendCreate, Begin
    <2>2. last' \in Unsure..MaxId
      BY <1>1, <2>1, IdFacts DEF SendCreate, Due, Unsure
    <2>3. QED
      BY <1>1, <2>1, <2>2, RowFacts DEF SendCreate, Begin, Goto
  <1>2. ASSUME NEW r \in Requests, SendBroadcast(r) PROVE Columns'
    BY <1>2, RowFacts DEF SendBroadcast, Goto, Answer, tables, history
  <1>3. ASSUME NEW r \in Requests, PreviewWrite(r) PROVE Columns'
    BY <1>3 DEF PreviewWrite, tables, handler, runs, history
  <1>4. ASSUME NEW r \in Requests, NEW k \in Kinds, NEW i \in Ids, LoadOwn(r, k, i) PROVE Columns'
    <2>1. i \in 0..MaxId /\ rows[i] \in Row
      BY IdFacts
    <2>2. copy' \in [Requests -> Row] /\ target' \in [Requests -> 0..MaxId]
      BY <1>4, <2>1 DEF LoadOwn
    <2>3. /\ code' \in [Requests -> {0, 200, 201, 403, 404, 500}]
          /\ pc' \in [Requests -> {"idle", "saved", "loaded", "edited", "reloaded",
                                  "deleted", "cleared", "absent", "found", "done"}]
      BY <1>4 DEF LoadOwn, Goto, Answer
    <2>4. /\ op' \in [Requests -> Kinds \cup {"none"}] /\ raced' \subseteq Ids
          /\ before' \in [Requests -> SUBSET Requests]
      BY <1>4 DEF LoadOwn, Begin
    <2>5. QED
      BY <1>4, <2>2, <2>3, <2>4 DEF LoadOwn, tables, runs
  <1>5. ASSUME NEW r \in Requests, EditSave(r) PROVE Columns'
    <2>1. [copy[r] EXCEPT !.text = r] \in Row
      BY RowWrites
    <2>2. QED
      BY <1>5, <2>1 DEF EditSave, Goto, runs, history
  <1>6. ASSUME NEW r \in Requests, EditReload(r) PROVE Columns'
    <2>1. rows[target[r]] \in Row
      BY <1>6 DEF EditReload
    <2>2. QED
      BY <1>6, <2>1 DEF EditReload, Goto, tables, runs, history
  <1>7. ASSUME NEW r \in Requests, EditBroadcast(r) PROVE Columns'
    BY <1>7, RowFacts DEF EditBroadcast, Goto, Answer, tables, runs, history
  <1>8. ASSUME NEW r \in Requests, DeleteRow(r) PROVE Columns'
    BY <1>8, RowFacts DEF DeleteRow, Goto, runs, history
  <1>9. ASSUME NEW r \in Requests, DeleteBroadcast(r) PROVE Columns'
    BY <1>9, RowFacts DEF DeleteBroadcast, Goto, Answer, tables, runs, history
  <1>10. ASSUME NEW r \in Requests, ClearCommit(r) PROVE Columns'
    <2>1. 0 \in 0..MaxId /\ last' \in Unsure..MaxId
      BY <1>10, IdFacts DEF ClearCommit, Due, Unsure
    <2>2. QED
      BY <1>10, <2>1, RowFacts DEF ClearCommit, Begin, Goto, runs
  <1>11. ASSUME NEW r \in Requests, ClearBroadcast(r) PROVE Columns'
    BY <1>11, RowFacts DEF ClearBroadcast, Goto, Answer, tables, runs, history
  <1>12. ASSUME NEW r \in Requests, NEW i \in Ids, SeenFind(r, i) PROVE Columns'
    <2>1. i \in 0..MaxId
      BY IdFacts
    <2>2. QED
      BY <1>12, <2>1 DEF SeenFind, Begin, Goto, tables, runs
  <1>13. ASSUME NEW r \in Requests, SeenCreate(r) PROVE Columns'
    BY <1>13, RowFacts DEF SeenCreate, Goto, Answer, runs, history
  <1>14. ASSUME NEW r \in Requests, SeenUpdate(r) PROVE Columns'
    <2>1. 0 \in 0..MaxId
      BY IdFacts
    <2>2. QED
      BY <1>14, <2>1, RowFacts DEF SeenUpdate, Goto, Answer, runs, history
  <1>15. ASSUME NEW r \in Requests, AiAcquire(r) PROVE Columns'
    BY <1>15 DEF AiAcquire, AiGoto, tables, handler, runs, history
  <1>16. ASSUME NEW r \in Requests, AiRespond(r) PROVE Columns'
    <2>1. target[r] \in Ids
      BY <1>16 DEF AiRespond, Links, Linked
    <2>2. rows' = [rows EXCEPT ![target[r]] =
                    [rows[target[r]] EXCEPT !.processed = (rows[target[r]] # NoMsg)]]
      BY <1>16 DEF AiRespond
    <2>3. [rows[target[r]] EXCEPT !.processed = (rows[target[r]] # NoMsg)] \in Row
      BY <2>1, RowWrites
    <2>4. rows' \in [Ids -> Row]
      BY <2>1, <2>2, <2>3
    <2>5. QED
      BY <1>16, <2>4 DEF AiRespond, AiGoto, handler, history
  <1>17. ASSUME NEW r \in Requests, AiSave(r) PROVE Columns'
    <2>1. nextId \in Ids /\ nextId \in 0..MaxId /\ nextId + 1 \in 1..(MaxId + 1)
      BY <1>17, NewId DEF AiSave
    <2>2. last' \in Unsure..MaxId
      BY <1>17, <2>1, IdFacts DEF AiSave, Due, Unsure
    <2>3. rows' \in [Ids -> Row] /\ answer' \in [Requests -> 0..MaxId]
      BY <1>17, <2>1, RowFacts DEF AiSave
    <2>4. ai' \in [Requests -> {"none", "waiting", "thinking", "responding", "answered",
                              "excused", "previewed", "done"}]
      BY <1>17 DEF AiSave, AiGoto
    <2>5. raced' \subseteq Ids /\ nextId' = nextId + 1
      BY <1>17, <2>1 DEF AiSave
    <2>6. QED
      BY <1>17, <2>1, <2>2, <2>3, <2>4, <2>5 DEF AiSave, handler
  <1>18. ASSUME NEW r \in Requests, AiPreview(r) PROVE Columns'
    BY <1>18 DEF AiPreview, AiGoto, tables, handler, runs, history
  <1>19. ASSUME NEW r \in Requests, AiShow(r) PROVE Columns'
    BY <1>19, RowFacts DEF AiShow, AiGoto, tables, handler, history
  <1>20. CASE OtherTakes \/ OtherReleases \/ UNCHANGED vars
    BY <1>20 DEF OtherTakes, OtherReleases, vars, tables, handler, runs, history
  <1> QED
    BY <1>1, <1>2, <1>3, <1>4, <1>5, <1>6, <1>7, <1>8, <1>9, <1>10, <1>11, <1>12, <1>13,
       <1>14, <1>15, <1>16, <1>17, <1>18, <1>19, <1>20 DEF Next, Arrive, HandlerStep,
       AiStep

(* The slots of the semaphore are never oversubscribed.                    *)
LEMMA SlotsStep ==
  ASSUME TypeInv, [Next]_vars
  PROVE  Slots'
  <1> USE DEF TypeInv, TypeOK, Slots
  <1>1. Running \in SUBSET Requests /\ Running' \in SUBSET Requests
    BY DEF Running
  <1>2. Cardinality(Running) \in Nat /\ Cardinality(Running') \in Nat
    BY <1>1, SubsetCounts
  <1>3. ASSUME elsewhere' = elsewhere, Running' \subseteq Running PROVE Slots'
    <2>1. Cardinality(Running') <= Cardinality(Running)
      BY <1>1, <1>3, SubsetCounts, FS_Subset
    <2>2. QED
      BY <1>2, <1>3, <2>1, ChatAssumption
  <1>4. ASSUME NEW r \in Requests, AiAcquire(r) PROVE Slots'
    <2>1. Running' = Running \cup {r} /\ r \notin Running
      BY <1>4 DEF AiAcquire, AiGoto, Running
    <2>2. Cardinality(Running') = Cardinality(Running) + 1
      BY <1>1, <2>1, SubsetCounts
    <2>3. elsewhere' = elsewhere /\ Cardinality(Running) + elsewhere < AISlots
      BY <1>4 DEF AiAcquire
    <2>4. QED
      BY <1>2, <2>2, <2>3, ChatAssumption
  <1>5. ASSUME NEW r \in Requests,
               SendBroadcast(r) \/ AiRespond(r) \/ AiSave(r) \/ AiPreview(r) \/ AiShow(r)
        PROVE  elsewhere' = elsewhere /\ Running' \subseteq Running
    BY <1>5 DEF SendBroadcast, AiRespond, AiSave, AiPreview, AiShow, AiGoto, Running
  <1>6. CASE OtherTakes \/ OtherReleases
    <2>1. Running' = Running
      BY <1>6 DEF OtherTakes, OtherReleases, Running
    <2>2. QED
      BY <1>2, <1>6, <2>1, ChatAssumption DEF OtherTakes, OtherReleases
  <1>7. ASSUME NEW r \in Requests,
               Arrive(r) \/ (HandlerStep(r) /\ ~SendBroadcast(r)) \/ PreviewWrite(r)
        PROVE  UNCHANGED <<ai, elsewhere>>
    BY <1>7 DEF Arrive, HandlerStep, SendCreate, LoadOwn, ClearCommit, SeenFind,
       EditSave, EditReload, EditBroadcast, DeleteRow, DeleteBroadcast,
       ClearBroadcast, SeenCreate, SeenUpdate, PreviewWrite, runs
  <1>8. UNCHANGED <<ai, elsewhere>> => Slots'
    BY <1>3 DEF Running
  <1>9. UNCHANGED vars => UNCHANGED <<ai, elsewhere>>
    BY DEF vars, runs
  <1>10. QED
    BY <1>3, <1>4, <1>5, <1>6, <1>7, <1>8, <1>9 DEF Next, AiStep, HandlerStep

LEMMA CountedStep ==
  ASSUME TypeInv, [Next]_vars
  PROVE  Counted'
  <1> USE DEF TypeInv, TypeOK, Counted
  <1>1. Sent \in SUBSET Requests /\ Answered \in SUBSET Requests
    BY DEF Sent, Answered
  <1>2. Cardinality(Sent) \in Nat /\ Cardinality(Answered) \in Nat
    BY <1>1, SubsetCounts
  <1>3. ASSUME NEW r \in Requests, NEW k \in Kinds, SendCreate(r, k) PROVE Counted'
    <2>1. Sent' = Sent \cup {r} /\ r \notin Sent
      BY <1>3 DEF SendCreate, Begin, Sent, Links, Linked
    <2>2. Answered' = Answered /\ nextId' = nextId + 1
      BY <1>3 DEF SendCreate, Answered
    <2>3. Cardinality(Sent') = Cardinality(Sent) + 1
      BY <1>1, <2>1, SubsetCounts
    <2>4. QED
      BY <1>2, <2>2, <2>3
  <1>4. ASSUME NEW r \in Requests, AiSave(r) PROVE Counted'
    <2>1. nextId # 0 /\ answer[r] = 0
      BY <1>4, NewId DEF AiSave, Links, Linked
    <2>0. answer' = [answer EXCEPT ![r] = nextId] /\ answer \in [Requests -> 0..MaxId]
      BY <1>4 DEF AiSave
    <2>2. Answered' = Answered \cup {r} /\ r \notin Answered
      <3> DEFINE n == nextId
      <3>1. n # 0 /\ answer' = [answer EXCEPT ![r] = n]
        BY <2>0, <2>1
      <3> HIDE DEF n
      <3>2. answer'[r] # 0 /\ \A q \in Requests : q # r => answer'[q] = answer[q]
        BY <2>0, <3>1
      <3>3. QED
        BY <2>1, <3>2 DEF Answered
    <2>3. Sent' = Sent /\ nextId' = nextId + 1
      BY <1>4 DEF AiSave, Sent, handler
    <2>4. Cardinality(Answered') = Cardinality(Answered) + 1
      BY <1>1, <2>2, SubsetCounts
    <2>5. QED
      BY <1>2, <2>3, <2>4
  <1>5. ASSUME nextId' = nextId, answer' = answer, Sent' = Sent PROVE Counted'
    BY <1>5 DEF Answered
  <1>6. ASSUME NEW r \in Requests, NEW k, NEW S, Begin(r, k, S), k \notin {"send", "ask"}
        PROVE  Sent' = Sent
    BY <1>6 DEF Begin, Sent, Links, Linked
  <1>7. ASSUME NEW r \in Requests,
               \/ \E k \in Kinds, i \in Ids : LoadOwn(r, k, i)
               \/ ClearCommit(r)
               \/ \E i \in Ids : SeenFind(r, i)
        PROVE  Counted'
    <2>1. UNCHANGED <<nextId, answer>>
      BY <1>7 DEF LoadOwn, ClearCommit, SeenFind, tables, runs
    <2>2. Sent' = Sent
      BY <1>6, <1>7 DEF LoadOwn, ClearCommit, SeenFind
    <2>3. QED
      BY <1>5, <2>1, <2>2
  <1>8. ASSUME NEW r \in Requests,
               HandlerStep(r) \/ PreviewWrite(r) \/ (AiStep(r) /\ ~AiSave(r))
        PROVE  UNCHANGED <<nextId, answer, op>>
    BY <1>8 DEF HandlerStep, SendBroadcast, EditSave, EditReload, EditBroadcast,
       DeleteRow, DeleteBroadcast, ClearBroadcast, SeenCreate, SeenUpdate,
       PreviewWrite, AiStep, AiAcquire, AiRespond, AiPreview, AiShow, tables, handler,
       runs
  <1>9. CASE OtherTakes \/ OtherReleases \/ UNCHANGED vars
    BY <1>5, <1>9 DEF OtherTakes, OtherReleases, vars, tables, handler, runs, Sent
  <1>10. UNCHANGED op => Sent' = Sent
    BY DEF Sent
  <1>11. ASSUME NEW r \in Requests,
                HandlerStep(r) \/ PreviewWrite(r) \/ (AiStep(r) /\ ~AiSave(r))
         PROVE  Counted'
    BY <1>5, <1>8, <1>10, <1>11
  <1>12. QED
    BY <1>3, <1>4, <1>7, <1>9, <1>11 DEF Next, Arrive, AiStep

LEMMA TypeStep == TypeInv /\ [Next]_vars => TypeInv'
  BY LinksStep, ColumnsStep, SlotsStep, CountedStep, TypeParts DEF TypeInv

LEMMA TypeAlways == Spec => []TypeInv
  BY InitType, TypeStep, PTL DEF Spec

-----------------------------------------------------------------------------
(* The last status of the room.                                            *)
LEMMA IdleStep ==
  ASSUME TypeInv, IdleWhenQuiet, [Next]_vars
  PROVE  IdleWhenQuiet'
  <1> USE DEF TypeInv, TypeOK, Links, Linked
  <1>1. UNCHANGED <<ai, status>> => IdleWhenQuiet'
    BY DEF IdleWhenQuiet, Running
  <1>2. ASSUME NEW r \in Requests, SendBroadcast(r) PROVE IdleWhenQuiet'
    <2>1. ai[r] = "none" /\ status' = status
      BY <1>2 DEF SendBroadcast
    <2>2. Running' = Running
      BY <1>2, <2>1 DEF SendBroadcast, Running
    <2>3. QED
      BY <2>1, <2>2 DEF IdleWhenQuiet
  <1>3. ASSUME NEW r \in Requests, AiAcquire(r) \/ AiRespond(r) \/ AiSave(r) \/ AiPreview(r)
        PROVE  IdleWhenQuiet'
    <2>1. ai'[r] \in {"thinking", "responding", "answered", "excused", "previewed"}
      BY <1>3 DEF AiAcquire, AiRespond, AiSave, AiPreview, AiGoto
    <2>2. r \in Running'
      BY <2>1 DEF Running
    <2>3. QED
      BY <2>2 DEF IdleWhenQuiet
  <1>4. ASSUME NEW r \in Requests, AiShow(r) PROVE IdleWhenQuiet'
    BY <1>4 DEF AiShow, IdleWhenQuiet
  <1>5. ASSUME NEW r \in Requests,
               Arrive(r) \/ (HandlerStep(r) /\ ~SendBroadcast(r)) \/ PreviewWrite(r)
        PROVE  UNCHANGED <<ai, status>>
    BY <1>5 DEF Arrive, HandlerStep, SendCreate, LoadOwn, ClearCommit, SeenFind,
       EditSave, EditReload, EditBroadcast, DeleteRow, DeleteBroadcast,
       ClearBroadcast, SeenCreate, SeenUpdate, PreviewWrite, runs
  <1>6. OtherTakes \/ OtherReleases \/ UNCHANGED vars => UNCHANGED <<ai, status>>
    BY DEF OtherTakes, OtherReleases, vars, runs
  <1>7. QED
    BY <1>1, <1>2, <1>3, <1>4, <1>5, <1>6 DEF Next, AiStep, HandlerStep

(* When no answer is under way, the room does not show the assistant as    *)
(* thinking or responding (triggerAIResponse, saveAIError), for any number *)
(* of answers that overlap and fail and any number of slots.               *)
THEOREM IdleWhenQuietHolds == Spec => []IdleWhenQuiet
  <1>1. Init => IdleWhenQuiet
    BY DEF Init, IdleWhenQuiet
  <1>2. TypeInv /\ IdleWhenQuiet /\ [Next]_vars => IdleWhenQuiet'
    BY IdleStep
  <1>3. QED
    BY <1>1, <1>2, TypeAlways, PTL DEF Spec

-----------------------------------------------------------------------------
(* The preview of the room.  As long as no two of its writes overlap, the  *)
(* one write that is to come brings the message it should show, and when   *)
(* none is to come it shows it.                                            *)
PreviewInv ==
  last # Unsure =>
    /\ \A r \in Requests : prv[r] = "started" => target[r] = last
    /\ \A r \in Requests : ai[r] = "answered" => answer[r] = last
    /\ ~Previewing => preview = last

LEMMA PreviewStep ==
  ASSUME TypeInv, PreviewInv, [Next]_vars
  PROVE  PreviewInv'
  <1> USE DEF TypeInv, TypeOK, Links, Linked
  <1>1. UNCHANGED <<prv, target, ai, answer, preview, last>> => PreviewInv'
    BY DEF PreviewInv, Previewing
  <1>2. ASSUME NEW r \in Requests, NEW k \in Kinds, SendCreate(r, k) PROVE PreviewInv'
    <2>1. /\ prv' = [prv EXCEPT ![r] = "started"] /\ target' = [target EXCEPT ![r] = nextId]
          /\ UNCHANGED <<ai, answer>> /\ last' = IF Previewing THEN Unsure ELSE nextId
      BY <1>2 DEF SendCreate, Due
    <2>2. Previewing'
      BY <2>1 DEF Previewing
    <2>3. ~Previewing => \A q \in Requests : prv[q] # "started" /\ ai[q] # "answered"
      BY DEF Previewing
    <2>4. QED
      BY <2>1, <2>2, <2>3 DEF PreviewInv
  <1>3. ASSUME NEW r \in Requests, PreviewWrite(r) PROVE PreviewInv'
    <2>1. /\ preview' = target[r] /\ prv' = [prv EXCEPT ![r] = "done"]
          /\ UNCHANGED <<target, ai, answer, last>> /\ prv[r] = "started"
      BY <1>3 DEF PreviewWrite, handler, history
    <2>2. QED
      BY <2>1 DEF PreviewInv
  <1>4. ASSUME NEW r \in Requests, AiPreview(r) PROVE PreviewInv'
    <2>1. /\ preview' = answer[r] /\ ai' = [ai EXCEPT ![r] = "previewed"]
          /\ UNCHANGED <<target, prv, answer, last>> /\ ai[r] = "answered"
      BY <1>4 DEF AiPreview, AiGoto, handler, history
    <2>2. QED
      BY <2>1 DEF PreviewInv
  <1>5. ASSUME NEW r \in Requests, AiSave(r) PROVE PreviewInv'
    <2>1. answer' = [answer EXCEPT ![r] = nextId] /\ UNCHANGED <<prv, target, preview>>
          /\ ai[r] = "responding"
      BY <1>5 DEF AiSave, handler
    <2>2. CASE AiGoto(r, "answered") /\ Due(nextId)
      <3>1. ai' = [ai EXCEPT ![r] = "answered"]
            /\ last' = IF Previewing THEN Unsure ELSE nextId
        BY <2>2 DEF AiGoto, Due
      <3>2. Previewing'
        BY <3>1 DEF Previewing
      <3>3. ~Previewing => \A q \in Requests : prv[q] # "started" /\ ai[q] # "answered"
        BY DEF Previewing
      <3>4. QED
        BY <2>1, <3>1, <3>2, <3>3 DEF PreviewInv
    <2>3. CASE AiGoto(r, "excused") /\ UNCHANGED last
      <3>1. ai' = [ai EXCEPT ![r] = "excused"] /\ last' = last
        BY <2>3 DEF AiGoto
      <3>2. \A q \in Requests : ai'[q] = "answered" <=> ai[q] = "answered"
        BY <2>1, <3>1
      <3>3. \A q \in Requests : ai[q] = "answered" => answer'[q] = answer[q]
        BY <2>1
      <3>4. Previewing' <=> Previewing
        BY <2>1, <3>2 DEF Previewing
      <3>5. QED
        BY <2>1, <3>1, <3>2, <3>3, <3>4 DEF PreviewInv
    <2>4. QED
      BY <1>5, <2>2, <2>3 DEF AiSave
  <1>6. ASSUME NEW r \in Requests, ClearCommit(r) PROVE PreviewInv'
    <2>1. preview' = 0 /\ UNCHANGED <<prv, target, ai, answer>>
          /\ last' = IF Previewing THEN Unsure ELSE 0
      BY <1>6 DEF ClearCommit, Due, runs
    <2>2. ~Previewing => \A q \in Requests : prv[q] # "started" /\ ai[q] # "answered"
      BY DEF Previewing
    <2>3. QED
      BY <2>1, <2>2 DEF PreviewInv
  <1>7. ASSUME NEW r \in Requests, NEW i \in Ids,
               (\E k \in Kinds : LoadOwn(r, k, i)) \/ SeenFind(r, i)
        PROVE  PreviewInv'
    <2>1. prv[r] = "none" /\ UNCHANGED <<prv, ai, answer, preview, last>>
          /\ target' = [target EXCEPT ![r] = i]
      BY <1>7 DEF LoadOwn, SeenFind, Begin, tables, runs
    <2>2. QED
      BY <2>1 DEF PreviewInv, Previewing
  <1>8. ASSUME NEW r \in Requests, SendBroadcast(r) \/ AiAcquire(r) \/ AiRespond(r) \/ AiShow(r)
        PROVE  PreviewInv'
    <2>1. UNCHANGED <<prv, target, answer, preview, last>>
      BY <1>8 DEF SendBroadcast, AiAcquire, AiRespond, AiShow, tables, handler, history
    <2>2. \A q \in Requests : ai'[q] = "answered" <=> ai[q] = "answered"
      BY <1>8 DEF SendBroadcast, AiAcquire, AiRespond, AiShow, AiGoto
    <2>3. QED
      BY <2>1, <2>2 DEF PreviewInv, Previewing
  <1>9. ASSUME NEW r \in Requests, HandlerStep(r), ~SendBroadcast(r)
        PROVE  UNCHANGED <<prv, target, ai, answer, preview, last>>
    BY <1>9 DEF HandlerStep, EditSave, EditReload, EditBroadcast, DeleteRow,
       DeleteBroadcast, ClearBroadcast, SeenCreate, SeenUpdate, tables, runs, history
  <1>10. OtherTakes \/ OtherReleases \/ UNCHANGED vars
           => UNCHANGED <<prv, target, ai, answer, preview, last>>
    BY DEF OtherTakes, OtherReleases, vars, tables, handler, runs, history
  <1>11. QED
    BY <1>1, <1>2, <1>3, <1>4, <1>5, <1>6, <1>7, <1>8, <1>9, <1>10
    DEF Next, Arrive, AiStep

(* The list of rooms shows the last message that was sent, or none after a *)
(* clearing, once no preview is being written and no two writes overlapped *)
(* (SendMessage, ClearMessages, triggerAIResponse).                        *)
THEOREM PreviewIsLastHolds == Spec => []PreviewIsLast
  <1>1. Init => PreviewInv
    BY DEF Init, PreviewInv
  <1>2. TypeInv /\ PreviewInv /\ [Next]_vars => PreviewInv'
    BY PreviewStep
  <1>3. PreviewInv => PreviewIsLast
    BY DEF PreviewInv, PreviewIsLast
  <1>4. QED
    BY <1>1, <1>2, <1>3, TypeAlways, PTL DEF Spec

-----------------------------------------------------------------------------
(* The receipts.                                                           *)
Seen(u) == {r \in Requests : op[r] = "seen" /\ User[r] = u /\ code[r] = 200}

Uncleared == \A r \in Requests : op[r] # "clear"

(* Request r is the one whose value the receipt of u shows, rightly.       *)
Witness(u, r) ==
  /\ receipts[u] = target[r]
  /\ \A q \in Seen(u) : r \notin before[q] \/ target[q] = target[r]

ReceiptInv ==
  /\ \A r, q \in Requests : r \in before[q] => pc[r] = "done"
  /\ Uncleared => \A r \in Requests : pc[r] = "found" => receipts[User[r]] # 0
  /\ Uncleared => \A u \in Users : Seen(u) # {} => \E r \in Seen(u) : Witness(u, r)

(* A request that is over does not change any more.                        *)
Over(q) ==
  pc[q] = "done" => /\ pc'[q] = "done" /\ op'[q] = op[q] /\ target'[q] = target[q]
                    /\ code'[q] = code[q] /\ before'[q] = before[q]

LEMMA OverStays ==
  ASSUME TypeInv, [Next]_vars, NEW q \in Requests
  PROVE  Over(q)
  <1> USE DEF TypeInv, TypeOK, Links, Linked, Over
  <1>1. UNCHANGED <<op, pc, target, code, before>> => Over(q)
    OBVIOUS
  <1>2. ASSUME NEW r \in Requests, Arrive(r) PROVE Over(q)
    <2>1. pc[r] = "idle" /\ pc'[r] # "idle"
          /\ \A p \in Requests \ {r} :
               /\ pc'[p] = pc[p] /\ op'[p] = op[p] /\ target'[p] = target[p]
               /\ code'[p] = code[p] /\ before'[p] = before[p]
      BY <1>2 DEF Arrive, SendCreate, LoadOwn, ClearCommit, SeenFind, Begin, Goto, Answer
    <2>2. QED
      BY <2>1
  <1>3. ASSUME NEW r \in Requests, HandlerStep(r) PROVE Over(q)
    <2>1. pc[r] # "done" /\ UNCHANGED <<op, target, before>>
          /\ \A p \in Requests \ {r} : pc'[p] = pc[p] /\ code'[p] = code[p]
      BY <1>3 DEF HandlerStep, SendBroadcast, EditSave, EditReload, EditBroadcast,
         DeleteRow, DeleteBroadcast, ClearBroadcast, SeenCreate, SeenUpdate, Goto,
         Answer, history
    <2>2. QED
      BY <2>1
  <1>4. ASSUME NEW r \in Requests, PreviewWrite(r) \/ AiStep(r)
        PROVE  UNCHANGED <<op, pc, target, code, before>>
    BY <1>4 DEF PreviewWrite, AiStep, AiAcquire, AiRespond, AiSave, AiPreview, AiShow,
       handler, history
  <1>5. OtherTakes \/ OtherReleases \/ UNCHANGED vars
          => UNCHANGED <<op, pc, target, code, before>>
    BY DEF OtherTakes, OtherReleases, vars, handler, history
  <1>6. QED
    BY <1>1, <1>2, <1>3, <1>4, <1>5 DEF Next

(* A step that writes no receipt and ends no seen request.                 *)
LEMMA ReceiptKept ==
  ASSUME TypeInv, TypeInv', ReceiptInv, [Next]_vars, Uncleared' => Uncleared,
         Uncleared' => receipts' = receipts,
         \A u \in Users : Seen(u)' = Seen(u),
         \A r \in Requests : pc'[r] = "found" => pc[r] = "found" \/ receipts[User[r]] # 0,
         \A r, q \in Requests : r \in before'[q] => r \in before[q] \/ pc[r] = "done"
  PROVE  ReceiptInv'
  <1>1. \A q \in Requests : Over(q)
    BY OverStays
  <1>2. \A r, q \in Requests : r \in before'[q] => pc'[r] = "done"
    BY <1>1 DEF ReceiptInv, Over
  <1>3. Uncleared' => \A r \in Requests : pc'[r] = "found" => receipts'[User[r]] # 0
    BY DEF ReceiptInv
  <1>4. ASSUME Uncleared', NEW u \in Users, Seen(u)' # {}
        PROVE  \E r \in Seen(u)' : Witness(u, r)'
    <2>1. PICK r \in Seen(u) : Witness(u, r)
      BY <1>4 DEF ReceiptInv
    <2>2. \A q \in Seen(u) : q \in Requests /\ pc[q] = "done"
      BY DEF Seen, TypeInv, TypeOK, Links, Linked
    <2>3. \A q \in Seen(u) : target'[q] = target[q] /\ before'[q] = before[q]
      BY <1>1, <2>2 DEF Over
    <2>4. receipts'[u] = target'[r]
          /\ \A q \in Seen(u)' : r \notin before'[q] \/ target'[q] = target'[r]
      BY <1>4, <2>1, <2>3 DEF Witness
    <2>5. QED
      BY <2>1, <2>4 DEF Witness
  <1>5. QED
    BY <1>2, <1>3, <1>4 DEF ReceiptInv

(* A seen request that writes its value is the witness of it.              *)
LEMMA ReceiptWritten ==
  ASSUME TypeInv, TypeInv', ReceiptInv, [Next]_vars, NEW r \in Requests,
         op[r] = "seen", pc[r] \in {"absent", "found"}, Goto(r, "done"), Answer(r, 200),
         UNCHANGED <<op, target, before>>,
         Uncleared => receipts' = [receipts EXCEPT ![User[r]] = target[r]]
  PROVE  ReceiptInv'
  <1> USE DEF TypeInv, TypeOK, Links, Linked
  <1>1. pc'[r] = "done" /\ code'[r] = 200
        /\ \A q \in Requests \ {r} : pc'[q] = pc[q] /\ code'[q] = code[q]
    BY DEF Goto, Answer
  <1>2. Uncleared' <=> Uncleared
    BY DEF Uncleared
  <1>3. target[r] # 0 /\ target[r] \in Ids /\ User[r] \in Users
    BY IdFacts, RowFacts
  <1>4. \A p, q \in Requests : p \in before'[q] => pc'[p] = "done"
    BY <1>1 DEF ReceiptInv
  <1>5. ASSUME Uncleared, NEW q \in Requests, pc'[q] = "found"
        PROVE  receipts'[User[q]] # 0
    <2>1. pc[q] = "found" /\ User[q] \in Users
      BY <1>1, <1>5, RowFacts
    <2>2. receipts[User[q]] # 0
      BY <1>5, <2>1 DEF ReceiptInv
    <2>3. QED
      BY <1>3, <1>5, <2>1, <2>2
  <1>6. ASSUME Uncleared, NEW u \in Users, Seen(u)' # {}
        PROVE  \E w \in Seen(u)' : Witness(u, w)'
    <2>1. CASE u = User[r]
      <3>1. r \in Seen(u)'
        BY <1>1, <2>1 DEF Seen
      <3>2. receipts'[u] = target'[r]
        BY <1>3, <1>6, <2>1
      <3>3. \A q \in Seen(u)' : r \notin before'[q]
        BY DEF ReceiptInv, Seen
      <3>4. QED
        BY <3>1, <3>2, <3>3 DEF Witness
    <2>2. CASE u # User[r]
      <3>1. Seen(u)' = Seen(u)
        BY <1>1, <2>2 DEF Seen
      <3>2. receipts'[u] = receipts[u]
        BY <1>3, <1>6, <2>2
      <3>3. PICK w \in Seen(u) : Witness(u, w)
        BY <1>6, <3>1 DEF ReceiptInv
      <3>4. QED
        BY <3>1, <3>2, <3>3 DEF Witness
    <2>3. QED
      BY <2>1, <2>2
  <1>7. QED
    BY <1>2, <1>4, <1>5, <1>6 DEF ReceiptInv

LEMMA ReceiptStep ==
  ASSUME TypeInv, TypeInv', ReceiptInv, [Next]_vars
  PROVE  ReceiptInv'
  <1> USE DEF TypeInv, TypeOK, Links, Linked
  <1>1. Uncleared' => Uncleared
    <2>1. \A q \in Requests : op[q] = "clear" => op'[q] = "clear"
      <3>1. ASSUME NEW r \in Requests, Arrive(r), NEW q \in Requests, op[q] = "clear"
            PROVE  op'[q] = "clear"
        BY <3>1 DEF Arrive, SendCreate, LoadOwn, ClearCommit, SeenFind, Begin
      <3>2. ASSUME NEW r \in Requests, HandlerStep(r) \/ PreviewWrite(r) \/ AiStep(r)
            PROVE  op' = op
        BY <3>2 DEF HandlerStep, SendBroadcast, EditSave, EditReload, EditBroadcast,
           DeleteRow, DeleteBroadcast, ClearBroadcast, SeenCreate, SeenUpdate,
           PreviewWrite, AiStep, AiAcquire, AiRespond, AiSave, AiPreview, AiShow, handler
      <3>3. OtherTakes \/ OtherReleases \/ UNCHANGED vars => op' = op
        BY DEF OtherTakes, OtherReleases, vars, handler
      <3>4. QED
        BY <3>1, <3>2, <3>3 DEF Next
    <2>2. QED
      BY <2>1 DEF Uncleared
  <1>2. \A q \in Requests : Over(q)
    BY OverStays
  <1>3. ASSUME UNCHANGED <<op, code, receipts, before>>,
               \A r \in Requests : pc'[r] = "found" => pc[r] = "found"
        PROVE  ReceiptInv'
    <2>1. \A u \in Users : Seen(u)' = Seen(u)
      BY <1>3 DEF Seen
    <2>2. QED
      BY <1>1, <1>3, <2>1, ReceiptKept
  <1>4. ASSUME NEW r \in Requests, Arrive(r) PROVE ReceiptInv'
    <2>1. /\ pc[r] = "idle" /\ code[r] = 0 /\ code'[r] \in {0, 403, 404}
          /\ \A q \in Requests \ {r} : op'[q] = op[q] /\ code'[q] = code[q] /\ pc'[q] = pc[q]
      BY <1>4 DEF Arrive, SendCreate, LoadOwn, ClearCommit, SeenFind, Begin, Goto, Answer
    <2>2. \A u \in Users : Seen(u)' = Seen(u)
      BY <2>1 DEF Seen
    <2>3. \A q, p \in Requests : q \in before'[p] => q \in before[p] \/ pc[q] = "done"
      BY <1>4 DEF Arrive, SendCreate, LoadOwn, ClearCommit, SeenFind, Begin
    <2>4. Uncleared' => receipts' = receipts
      <3>1. ~ClearCommit(r) => receipts' = receipts
        BY <1>4 DEF Arrive, SendCreate, LoadOwn, SeenFind, tables
      <3>2. ClearCommit(r) => op'[r] = "clear"
        BY DEF ClearCommit, Begin
      <3>3. QED
        BY <3>1, <3>2 DEF Uncleared
    <2>5. pc'[r] = "found" => receipts[User[r]] # 0
      BY <1>4 DEF Arrive, SendCreate, LoadOwn, ClearCommit, SeenFind, Goto
    <2>6. QED
      BY <1>1, <2>1, <2>2, <2>3, <2>4, <2>5, ReceiptKept
  <1>5. ASSUME NEW r \in Requests, SeenCreate(r) PROVE ReceiptInv'
    <2>1. op[r] = "seen" /\ pc[r] = "absent" /\ Goto(r, "done") /\ UNCHANGED <<op, target, before>>
      BY <1>5 DEF SeenCreate, history
    <2>2. CASE Answer(r, 200) /\ receipts' = [receipts EXCEPT ![User[r]] = target[r]]
      BY <2>1, <2>2, ReceiptWritten
    <2>3. CASE Answer(r, 500) /\ UNCHANGED receipts
      <3>1. \A u \in Users : Seen(u)' = Seen(u)
        BY <2>1, <2>3 DEF Answer, Seen
      <3>2. \A q \in Requests : pc'[q] = "found" => pc[q] = "found"
        BY <2>1 DEF Goto
      <3>3. QED
        BY <1>1, <2>1, <2>3, <3>1, <3>2, ReceiptKept
    <2>4. QED
      BY <1>5, <2>2, <2>3 DEF SeenCreate
  <1>6. ASSUME NEW r \in Requests, SeenUpdate(r) PROVE ReceiptInv'
    <2>1. op[r] = "seen" /\ pc[r] = "found" /\ Goto(r, "done") /\ Answer(r, 200)
          /\ UNCHANGED <<op, target, before>>
      BY <1>6 DEF SeenUpdate, history
    <2>0. receipts' = [receipts EXCEPT ![User[r]] =
                         IF receipts[User[r]] = 0 THEN 0 ELSE target[r]]
      BY <1>6 DEF SeenUpdate
    <2>2. Uncleared => receipts' = [receipts EXCEPT ![User[r]] = target[r]]
      <3>1. Uncleared => receipts[User[r]] # 0
        BY <2>1 DEF ReceiptInv
      <3>2. QED
        BY <2>0, <3>1
    <2>3. QED
      BY <2>1, <2>2, ReceiptWritten
  <1>7. ASSUME NEW r \in Requests, HandlerStep(r), ~SeenCreate(r), ~SeenUpdate(r)
        PROVE  ReceiptInv'
    <2>1. UNCHANGED <<op, receipts, before>> /\ op[r] # "seen"
          /\ pc'[r] # "found"
          /\ \A q \in Requests \ {r} : code'[q] = code[q] /\ pc'[q] = pc[q]
      BY <1>7 DEF HandlerStep, SendBroadcast, EditSave, EditReload, EditBroadcast,
         DeleteRow, DeleteBroadcast, ClearBroadcast, Goto, Answer, tables, history
    <2>2. \A u \in Users : Seen(u)' = Seen(u)
      BY <2>1 DEF Seen
    <2>3. QED
      BY <1>1, <2>1, <2>2, ReceiptKept
  <1>8. ASSUME NEW r \in Requests, PreviewWrite(r) \/ AiStep(r)
        PROVE  UNCHANGED <<op, pc, code, receipts, before>>
    BY <1>8 DEF PreviewWrite, AiStep, AiAcquire, AiRespond, AiSave, AiPreview, AiShow,
       tables, handler, history
  <1>9. OtherTakes \/ OtherReleases \/ UNCHANGED vars
          => UNCHANGED <<op, pc, code, receipts, before>>
    BY DEF OtherTakes, OtherReleases, vars, tables, handler, history
  <1>10. QED
    BY <1>3, <1>4, <1>5, <1>6, <1>7, <1>8, <1>9 DEF Next

(* The receipt of a user is never left at the value of a request that was  *)
(* over before a later, successful one began, unless the room was cleared  *)
(* (MarkSeen), for any number of requests of any number of users.          *)
THEOREM ReceiptNotStaleHolds == Spec => []ReceiptNotStale
  <1>1. Init => ReceiptInv
    BY DEF Init, ReceiptInv, Seen
  <1>2. TypeInv /\ TypeInv' /\ ReceiptInv /\ [Next]_vars => ReceiptInv'
    BY ReceiptStep
  <1>3. ReceiptInv => ReceiptNotStale
    BY DEF ReceiptInv, ReceiptNotStale, Seen, Uncleared, Witness
  <1>4. QED
    BY <1>1, <1>2, <1>3, TypeAlways, PTL DEF Spec

-----------------------------------------------------------------------------
(* What the connected client shows.  On a message that is not contested at *)
(* most one operation works at a time, and how far it is says how the row, *)
(* the copy it holds and the client compare: alike in sender and text.     *)
Same(a, b) == a.by = b.by /\ a.text = b.text

Alone(i) ==
  /\ \A r, q \in Requests : Touches(r, i) /\ Touches(q, i) => r = q
  /\ \A r, q \in Requests : AiTouches(r, i) /\ AiTouches(q, i) => r = q
  /\ \A r, q \in Requests : ~(Touches(r, i) /\ AiTouches(q, i))

Handled(r, i) ==
  /\ pc[r] = "saved" => Same(rows[i], Msg(User[r], r))
  /\ pc[r] = "loaded" => Same(view[i], rows[i])
  /\ pc[r] = "loaded" /\ op[r] = "edit" => Same(rows[i], copy[r])
  /\ pc[r] \in {"edited", "reloaded"} => Same(rows[i], copy[r])
  /\ pc[r] \in {"deleted", "cleared"} => Same(rows[i], NoMsg)

Follows(i) ==
  /\ ~Contended(i) => Same(view[i], rows[i])
  /\ \A r \in Requests : Touches(r, i) => Handled(r, i)
  /\ \A r \in Requests : AiTouches(r, i) => Same(rows[i], Msg(Assistant, Reply))

Views == \A i \in Ids \ raced : Alone(i) /\ Follows(i)

(* A request leaves the places of the others alone.                        *)
Aside(r) ==
  \A q \in Requests \ {r} :
    op'[q] = op[q] /\ pc'[q] = pc[q] /\ target'[q] = target[q] /\ copy'[q] = copy[q]

LEMMA RequestAside ==
  ASSUME TypeInv, NEW r \in Requests, Arrive(r) \/ HandlerStep(r)
  PROVE  Aside(r) /\ (Arrive(r) => UNCHANGED <<ai, answer, view>>)
         /\ (HandlerStep(r) => UNCHANGED <<op, target, answer>>)
  <1> USE DEF TypeInv, TypeOK, Aside
  <1>1. CASE Arrive(r)
    BY <1>1 DEF Arrive, SendCreate, LoadOwn, ClearCommit, SeenFind, Begin, Goto, runs,
       HandlerStep, SendBroadcast, EditSave, EditReload, EditBroadcast, DeleteRow,
       DeleteBroadcast, ClearBroadcast, SeenCreate, SeenUpdate
  <1>2. CASE HandlerStep(r) /\ ~Arrive(r)
    BY <1>2 DEF HandlerStep, SendBroadcast, EditSave, EditReload, EditBroadcast,
       DeleteRow, DeleteBroadcast, ClearBroadcast, SeenCreate, SeenUpdate, Goto, runs
  <1>3. QED
    BY <1>1, <1>2

(* A step that does not change the message, nor who works on it.           *)
LEMMA ViewKept ==
  ASSUME TypeInv, NEW i \in Ids, Alone(i), Follows(i), Same(rows'[i], rows[i]),
         view'[i] = view[i],
         \A q \in Requests : /\ Touches(q, i)' <=> Touches(q, i)
                             /\ Touches(q, i) => pc'[q] = pc[q] /\ op'[q] = op[q]
                                                 /\ copy'[q] = copy[q]
                             /\ AiTouches(q, i)' <=> AiTouches(q, i)
  PROVE  Alone(i)' /\ Follows(i)'
  <1>1. Alone(i)'
    BY DEF Alone
  <1>2. Contended(i)' <=> Contended(i)
    BY DEF Contended
  <1>3. \A q \in Requests : Touches(q, i)' => Handled(q, i)'
    BY DEF Follows, Handled, Same
  <1>4. QED
    BY <1>1, <1>2, <1>3 DEF Follows, Same

(* A request that begins to work on a message nobody works on.             *)
LEMMA ViewTaken ==
  ASSUME TypeInv, NEW i \in Ids, NEW r \in Requests, ~Contended(i), Aside(r),
         UNCHANGED <<ai, answer>>, Touches(r, i)', Handled(r, i)'
  PROVE  Alone(i)' /\ Follows(i)'
  <1>1. \A q \in Requests : (Touches(q, i)' => q = r) /\ ~AiTouches(q, i)'
    BY DEF Contended, Aside, Touches, AiTouches, Active
  <1>2. Alone(i)'
    BY <1>1 DEF Alone
  <1>3. Contended(i)'
    BY DEF Contended
  <1>4. QED
    BY <1>1, <1>2, <1>3 DEF Follows

(* The request that works on a message takes its next step, or its last.   *)
LEMMA ViewWorked ==
  ASSUME TypeInv, NEW i \in Ids, NEW r \in Requests, Touches(r, i), Alone(i), Aside(r),
         \A q \in Requests : AiTouches(q, i)' <=> AiTouches(q, i),
         Touches(r, i)' => Handled(r, i)',
         ~Touches(r, i)' => Same(view'[i], rows'[i])
  PROVE  Alone(i)' /\ Follows(i)'
  <1>1. \A q \in Requests : (Touches(q, i) => q = r) /\ ~AiTouches(q, i)
    BY DEF Alone
  <1>2. \A q \in Requests : (Touches(q, i)' => q = r) /\ ~AiTouches(q, i)'
    BY <1>1 DEF Aside, Touches, Active
  <1>3. Alone(i)'
    BY <1>2 DEF Alone
  <1>4. ~Contended(i)' => ~Touches(r, i)'
    BY DEF Contended
  <1>5. ~Contended(i)' => Same(view[i], rows[i])'
    BY <1>4 DEF Same
  <1>6. QED
    BY <1>2, <1>3, <1>5 DEF Follows

LEMMA ViewArrive ==
  ASSUME TypeInv, NEW i \in Ids, i \notin raced', Alone(i), Follows(i),
         NEW r \in Requests, Arrive(r)
  PROVE  Alone(i)' /\ Follows(i)'
  <1> USE DEF TypeInv, TypeOK
  <1>1. Aside(r) /\ UNCHANGED <<ai, answer, view>> /\ pc[r] = "idle"
    BY RequestAside DEF Arrive, SendCreate, LoadOwn, ClearCommit, SeenFind, Begin
  <1>2. ~Touches(r, i)
    BY <1>1 DEF Touches, Active
  <1>3. \A q \in Requests : AiTouches(q, i)' <=> AiTouches(q, i)
    BY <1>1 DEF AiTouches
  <1>4. \A q \in Requests \ {r} : Touches(q, i)' <=> Touches(q, i)
    BY <1>1 DEF Aside, Touches, Active
  <1>5. ASSUME ~Touches(r, i)', rows'[i] = rows[i] PROVE Alone(i)' /\ Follows(i)'
    <2>1. \A q \in Requests : Touches(q, i) => q # r
      BY <1>2
    <2>2. Same(rows'[i], rows[i]) /\ view'[i] = view[i]
      BY <1>1, <1>5 DEF Same
    <2>3. QED
      BY <1>1, <1>2, <1>3, <1>4, <1>5, <2>1, <2>2, ViewKept DEF Aside
  <1>6. ASSUME NEW k \in Kinds, SendCreate(r, k) PROVE Alone(i)' /\ Follows(i)'
    <2>1. /\ rows' = [rows EXCEPT ![nextId] = Msg(User[r], r)] /\ nextId \in Ids
          /\ target'[r] = nextId /\ pc'[r] = "saved" /\ op'[r] = k
          /\ raced' = raced \cup {j \in {nextId} : Contended(j)} /\ k \in {"send", "ask"}
      BY <1>6, NewId DEF SendCreate, Begin, Goto
    <2>2. CASE i = nextId
      <3>1. ~Contended(i) /\ Touches(r, i)' /\ rows'[i] = Msg(User[r], r)
        BY <2>1, <2>2 DEF Touches, Active
      <3>2. Handled(r, i)'
        BY <2>1, <3>1 DEF Handled, Same
      <3>3. QED
        BY <1>1, <3>1, <3>2, ViewTaken
    <2>3. CASE i # nextId
      <3>1. ~Touches(r, i)' /\ rows'[i] = rows[i]
        BY <2>1, <2>3 DEF Touches
      <3>2. QED
        BY <1>5, <3>1
    <2>4. QED
      BY <2>2, <2>3
  <1>7. ASSUME NEW k \in Kinds, NEW j \in Ids, LoadOwn(r, k, j) PROVE Alone(i)' /\ Follows(i)'
    <2>1. /\ rows' = rows /\ target'[r] = j /\ pc'[r] \in {"loaded", "done"}
          /\ op'[r] = k /\ raced' = raced \cup {l \in {j} : Contended(l)}
          /\ k = "edit" => copy'[r] = rows[j]
          /\ k \in {"edit", "delete"}
      BY <1>7 DEF LoadOwn, Begin, Goto, tables
    <2>2. CASE i = j /\ pc'[r] = "loaded"
      <3>1. ~Contended(i) /\ Touches(r, i)'
        BY <2>1, <2>2 DEF Touches, Active
      <3>2. Same(view[i], rows[i])
        BY <3>1 DEF Follows
      <3>3. Handled(r, i)'
        BY <1>1, <2>1, <2>2, <3>2 DEF Handled, Same
      <3>4. QED
        BY <1>1, <3>1, <3>3, ViewTaken
    <2>3. CASE i # j \/ pc'[r] = "done"
      <3>1. ~Touches(r, i)'
        BY <2>1, <2>3 DEF Touches, Active
      <3>2. QED
        BY <1>5, <2>1, <3>1
    <2>4. QED
      BY <2>1, <2>2, <2>3
  <1>8. CASE ClearCommit(r)
    <2>1. /\ rows'[i] = NoMsg /\ pc'[r] = "cleared" /\ op'[r] = "clear"
          /\ raced' = raced \cup {l \in Ids : Contended(l)}
      BY <1>8 DEF ClearCommit, Begin, Goto
    <2>2. ~Contended(i) /\ Touches(r, i)'
      BY <2>1 DEF Touches, Active
    <2>3. Handled(r, i)'
      BY <2>1 DEF Handled, Same
    <2>4. QED
      BY <1>1, <2>2, <2>3, ViewTaken
  <1>9. ASSUME NEW j \in Ids, SeenFind(r, j) PROVE Alone(i)' /\ Follows(i)'
    <2>1. rows' = rows /\ op'[r] = "seen"
      BY <1>9 DEF SeenFind, Begin, tables
    <2>2. ~Touches(r, i)'
      BY <2>1 DEF Touches
    <2>3. QED
      BY <1>5, <2>1, <2>2
  <1>10. QED
    BY <1>6, <1>7, <1>8, <1>9 DEF Arrive

LEMMA ViewHandler ==
  ASSUME TypeInv, NEW i \in Ids, Alone(i), Follows(i), NEW r \in Requests, HandlerStep(r)
  PROVE  Alone(i)' /\ Follows(i)'
  <1> USE DEF TypeInv, TypeOK, Links, Linked
  <1>1. Aside(r) /\ UNCHANGED <<op, target, answer>>
    BY RequestAside
  <1>2. \A q \in Requests : AiTouches(q, i)' <=> AiTouches(q, i)
    <2>1. ai' = ai \/ (SendBroadcast(r) /\ ai[r] = "none" /\ answer[r] = 0)
      BY DEF HandlerStep, SendBroadcast, EditSave, EditReload, EditBroadcast, DeleteRow,
         DeleteBroadcast, ClearBroadcast, SeenCreate, SeenUpdate, runs
    <2>2. \A q \in Requests \ {r} : ai'[q] = ai[q]
      BY <2>1 DEF SendBroadcast
    <2>3. i # 0
      BY IdFacts
    <2>4. QED
      BY <1>1, <2>1, <2>2, <2>3 DEF AiTouches
  <1>3. ASSUME ~Touches(r, i), rows'[i] = rows[i], view'[i] = view[i], pc[r] # "idle"
        PROVE  Alone(i)' /\ Follows(i)'
    <2>1. ~Touches(r, i)'
      BY <1>1, <1>3 DEF Touches, Active, HandlerStep, SendBroadcast, EditSave, EditReload,
         EditBroadcast, DeleteRow, DeleteBroadcast, ClearBroadcast, SeenCreate, SeenUpdate
    <2>2. \A q \in Requests \ {r} : Touches(q, i)' <=> Touches(q, i)
      BY <1>1 DEF Aside, Touches, Active
    <2>3. Same(rows'[i], rows[i])
      BY <1>3 DEF Same
    <2>4. QED
      BY <1>1, <1>2, <1>3, <2>1, <2>2, <2>3, ViewKept DEF Aside
  <1>4. ASSUME Touches(r, i), Touches(r, i)' => Handled(r, i)',
               ~Touches(r, i)' => Same(view'[i], rows'[i])
        PROVE  Alone(i)' /\ Follows(i)'
    BY <1>1, <1>2, <1>4, ViewWorked
  <1>5. Touches(r, i) => Handled(r, i)
    BY DEF Follows
  <1>6. CASE SendBroadcast(r)
    <2>1. pc[r] = "saved" /\ pc'[r] = "done" /\ rows' = rows /\ target[r] \in Ids
          /\ view' = [view EXCEPT ![target[r]] = Msg(User[r], r)]
          /\ op[r] \in {"send", "ask"}
      BY <1>6 DEF SendBroadcast, Goto, tables
    <2>2. CASE target[r] = i
      <3>1. Touches(r, i) /\ ~Touches(r, i)' /\ view'[i] = Msg(User[r], r)
        BY <1>1, <2>1, <2>2 DEF Touches, Active
      <3>2. Same(view'[i], rows'[i])
        BY <1>5, <2>1, <3>1 DEF Handled, Same
      <3>3. QED
        BY <1>4, <3>1, <3>2
    <2>3. CASE target[r] # i
      BY <1>3, <2>1, <2>3 DEF Touches
    <2>4. QED
      BY <2>2, <2>3
  <1>7. CASE EditSave(r)
    <2>1. pc[r] = "loaded" /\ op[r] = "edit" /\ target[r] \in Ids /\ pc'[r] = "edited"
          /\ copy'[r] = [copy[r] EXCEPT !.text = r] /\ view' = view
          /\ rows' = [rows EXCEPT ![target[r]] = [copy[r] EXCEPT !.text = r]]
      BY <1>7 DEF EditSave, Goto
    <2>2. CASE target[r] = i
      <3>1. rows'[i] = copy'[r]
        BY <2>1, <2>2
      <3>2. Touches(r, i) /\ Touches(r, i)'
        BY <1>1, <2>1, <2>2 DEF Touches, Active
      <3>3. Handled(r, i)'
        BY <2>1, <3>1 DEF Handled, Same
      <3>4. QED
        BY <1>4, <3>2, <3>3
    <2>3. CASE target[r] # i
      BY <1>3, <2>1, <2>3 DEF Touches
    <2>4. QED
      BY <2>2, <2>3
  <1>8. CASE EditReload(r)
    <2>1. pc[r] = "edited" /\ op[r] = "edit" /\ pc'[r] = "reloaded"
          /\ copy'[r] = (IF rows[target[r]] = NoMsg THEN copy[r] ELSE rows[target[r]])
          /\ view' = view /\ rows' = rows
      BY <1>8 DEF EditReload, Goto, tables
    <2>2. CASE target[r] = i
      <3>1. Touches(r, i) /\ Touches(r, i)'
        BY <1>1, <2>1, <2>2 DEF Touches, Active
      <3>2. Same(rows[i], copy[r])
        BY <1>5, <2>1, <3>1 DEF Handled
      <3>3. Handled(r, i)'
        BY <2>1, <2>2, <3>2 DEF Handled, Same
      <3>4. QED
        BY <1>4, <3>1, <3>3
    <2>3. CASE target[r] # i
      BY <1>3, <2>1, <2>3 DEF Touches
    <2>4. QED
      BY <2>2, <2>3
  <1>9. CASE EditBroadcast(r)
    <2>1. pc[r] = "reloaded" /\ op[r] = "edit" /\ pc'[r] = "done" /\ target[r] \in Ids
          /\ rows' = rows /\ view' = [view EXCEPT ![target[r]] = copy[r]]
      BY <1>9 DEF EditBroadcast, Goto, tables
    <2>2. CASE target[r] = i
      <3>1. Touches(r, i) /\ ~Touches(r, i)' /\ view'[i] = copy[r]
        BY <1>1, <2>1, <2>2 DEF Touches, Active
      <3>2. Same(view'[i], rows'[i])
        BY <1>5, <2>1, <3>1 DEF Handled, Same
      <3>3. QED
        BY <1>4, <3>1, <3>2
    <2>3. CASE target[r] # i
      BY <1>3, <2>1, <2>3 DEF Touches
    <2>4. QED
      BY <2>2, <2>3
  <1>10. CASE DeleteRow(r)
    <2>1. pc[r] = "loaded" /\ op[r] = "delete" /\ target[r] \in Ids /\ pc'[r] = "deleted"
          /\ view' = view /\ rows' = [rows EXCEPT ![target[r]] = NoMsg]
      BY <1>10 DEF DeleteRow, Goto
    <2>2. CASE target[r] = i
      <3>1. Touches(r, i) /\ Touches(r, i)' /\ rows'[i] = NoMsg
        BY <1>1, <2>1, <2>2 DEF Touches, Active
      <3>2. Handled(r, i)'
        BY <2>1, <3>1 DEF Handled, Same
      <3>3. QED
        BY <1>4, <3>1, <3>2
    <2>3. CASE target[r] # i
      BY <1>3, <2>1, <2>3 DEF Touches
    <2>4. QED
      BY <2>2, <2>3
  <1>11. CASE DeleteBroadcast(r)
    <2>1. pc[r] = "deleted" /\ op[r] = "delete" /\ pc'[r] = "done" /\ target[r] \in Ids
          /\ rows' = rows /\ view' = [view EXCEPT ![target[r]] = NoMsg]
      BY <1>11 DEF DeleteBroadcast, Goto, tables
    <2>2. CASE target[r] = i
      <3>1. Touches(r, i) /\ ~Touches(r, i)' /\ view'[i] = NoMsg
        BY <1>1, <2>1, <2>2 DEF Touches, Active
      <3>2. Same(view'[i], rows'[i])
        BY <1>5, <2>1, <3>1 DEF Handled, Same
      <3>3. QED
        BY <1>4, <3>1, <3>2
    <2>3. CASE target[r] # i
      BY <1>3, <2>1, <2>3 DEF Touches
    <2>4. QED
      BY <2>2, <2>3
  <1>12. CASE ClearBroadcast(r)
    <2>1. pc[r] = "cleared" /\ op[r] = "clear" /\ pc'[r] = "done" /\ rows' = rows
          /\ view'[i] = NoMsg
      BY <1>12 DEF ClearBroadcast, Goto, tables
    <2>2. Touches(r, i) /\ ~Touches(r, i)'
      BY <2>1 DEF Touches, Active
    <2>3. Same(view'[i], rows'[i])
      BY <1>5, <2>1, <2>2 DEF Handled, Same
    <2>4. QED
      BY <1>4, <2>2, <2>3
  <1>13. CASE SeenCreate(r) \/ SeenUpdate(r)
    <2>1. op[r] = "seen" /\ pc[r] # "idle" /\ rows' = rows /\ view' = view
      BY <1>13 DEF SeenCreate, SeenUpdate
    <2>2. QED
      BY <1>3, <2>1 DEF Touches
  <1>14. QED
    BY <1>6, <1>7, <1>8, <1>9, <1>10, <1>11, <1>12, <1>13 DEF HandlerStep

LEMMA ViewAi ==
  ASSUME TypeInv, NEW i \in Ids, i \notin raced', Alone(i), Follows(i),
         NEW r \in Requests, AiStep(r)
  PROVE  Alone(i)' /\ Follows(i)'
  <1> USE DEF TypeInv, TypeOK, Links, Linked
  <1>1. UNCHANGED handler
    BY DEF AiStep, AiAcquire, AiRespond, AiSave, AiPreview, AiShow
  <1>2. \A q \in Requests : Touches(q, i)' <=> Touches(q, i)
    BY <1>1 DEF handler, Touches, Active
  <1>3. \A q \in Requests \ {r} : AiTouches(q, i)' <=> AiTouches(q, i)
    <2>1. \A q \in Requests \ {r} : ai'[q] = ai[q] /\ answer'[q] = answer[q]
      BY DEF AiStep, AiAcquire, AiRespond, AiSave, AiPreview, AiShow, AiGoto
    <2>2. QED
      BY <2>1 DEF AiTouches
  <1>4. ASSUME Same(rows'[i], rows[i]), view'[i] = view[i],
               AiTouches(r, i)' <=> AiTouches(r, i)
        PROVE  Alone(i)' /\ Follows(i)'
    <2>1. \A q \in Requests : AiTouches(q, i)' <=> AiTouches(q, i)
      BY <1>3, <1>4
    <2>2. \A q \in Requests : pc'[q] = pc[q] /\ op'[q] = op[q] /\ copy'[q] = copy[q]
      BY <1>1 DEF handler
    <2>3. QED
      BY <1>2, <1>4, <2>1, <2>2, ViewKept
  <1>5. i # 0
    BY IdFacts
  <1>6. CASE AiAcquire(r) \/ AiPreview(r)
    <2>1. UNCHANGED <<rows, view, answer>> /\ ai[r] # "done" /\ ai'[r] # "done"
      BY <1>6 DEF AiAcquire, AiPreview, AiGoto, tables
    <2>2. QED
      BY <1>4, <2>1 DEF AiTouches, Same
  <1>7. CASE AiRespond(r)
    <2>1. target[r] \in Ids /\ UNCHANGED <<view, answer>> /\ answer[r] = 0
      BY <1>7 DEF AiRespond
    <2>2. rows' = [rows EXCEPT ![target[r]] =
                    [rows[target[r]] EXCEPT !.processed = (rows[target[r]] # NoMsg)]]
      BY <1>7 DEF AiRespond
    <2>3. \A x \in Row, b \in BOOLEAN : Same([x EXCEPT !.processed = b], x)
      BY DEF Same, Row
    <2>4. rows[i] \in Row /\ rows[target[r]] \in Row
      BY <2>1
    <2>5. Same(rows'[i], rows[i])
      BY <2>1, <2>2, <2>3, <2>4 DEF Same
    <2>6. QED
      BY <1>4, <1>5, <2>1, <2>5 DEF AiTouches
  <1>8. CASE AiSave(r)
    <2>1. /\ rows' = [rows EXCEPT ![nextId] = Msg(Assistant, Reply)] /\ nextId \in Ids
          /\ answer'[r] = nextId /\ answer[r] = 0 /\ view' = view
          /\ raced' = raced \cup {j \in {nextId} : Contended(j)}
      BY <1>8, NewId DEF AiSave
    <2>2. CASE i = nextId
      <3>1. ~Contended(i) /\ rows'[i] = Msg(Assistant, Reply)
        BY <2>1, <2>2
      <3>2. \A q \in Requests : ~Touches(q, i)' /\ (AiTouches(q, i)' => q = r)
        BY <1>2, <1>3, <3>1 DEF Contended
      <3>3. Contended(i)'
        <4>1. ai'[r] # "done"
          BY <1>8 DEF AiSave, AiGoto
        <4>2. QED
          BY <2>1, <2>2, <4>1 DEF Contended, AiTouches
      <3>4. Alone(i)'
        BY <3>2 DEF Alone
      <3>5. QED
        BY <3>1, <3>2, <3>3, <3>4 DEF Follows, Same
    <2>3. CASE i # nextId
      <3>1. rows'[i] = rows[i] /\ ~AiTouches(r, i) /\ ~AiTouches(r, i)'
        BY <1>5, <2>1, <2>3 DEF AiTouches
      <3>2. QED
        BY <1>4, <2>1, <3>1 DEF Same
    <2>4. QED
      BY <2>2, <2>3
  <1>9. CASE AiShow(r)
    <2>1. /\ view' = [view EXCEPT ![answer[r]] = Msg(Assistant, Reply)] /\ rows' = rows
          /\ ai[r] # "done" /\ ai'[r] = "done" /\ answer' = answer
      BY <1>9 DEF AiShow, AiGoto, tables
    <2>2. CASE answer[r] = i
      <3>1. AiTouches(r, i) /\ ~AiTouches(r, i)'
        BY <2>1, <2>2 DEF AiTouches
      <3>2. \A q \in Requests : ~Touches(q, i)' /\ ~AiTouches(q, i)'
        BY <1>2, <1>3, <3>1 DEF Alone
      <3>3. Same(rows[i], Msg(Assistant, Reply))
        BY <3>1 DEF Follows
      <3>4. view'[i] = Msg(Assistant, Reply)
        BY <2>1, <2>2
      <3>5. Same(view[i], rows[i])'
        BY <2>1, <3>3, <3>4 DEF Same
      <3>6. QED
        BY <3>2, <3>5 DEF Alone, Follows
    <2>3. CASE answer[r] # i
      <3>1. view'[i] = view[i] /\ ~AiTouches(r, i) /\ ~AiTouches(r, i)'
        BY <2>1, <2>3 DEF AiTouches
      <3>2. QED
        BY <1>4, <2>1, <3>1 DEF Same
    <2>4. QED
      BY <2>2, <2>3
  <1>10. QED
    BY <1>6, <1>7, <1>8, <1>9 DEF AiStep

LEMMA ViewsStep ==
  ASSUME TypeInv, Views, [Next]_vars
  PROVE  Views'
  <1>1. raced \subseteq raced'
    <2>1. ASSUME NEW r \in Requests, Arrive(r) \/ AiSave(r) PROVE raced \subseteq raced'
      BY <2>1 DEF Arrive, SendCreate, LoadOwn, ClearCommit, SeenFind, Begin, AiSave
    <2>2. ASSUME NEW r \in Requests,
                 HandlerStep(r) \/ PreviewWrite(r) \/ (AiStep(r) /\ ~AiSave(r))
          PROVE  raced' = raced
      BY <2>2 DEF HandlerStep, SendBroadcast, EditSave, EditReload, EditBroadcast,
         DeleteRow, DeleteBroadcast, ClearBroadcast, SeenCreate, SeenUpdate,
         PreviewWrite, AiStep, AiAcquire, AiRespond, AiPreview, AiShow, history
    <2>3. OtherTakes \/ OtherReleases \/ UNCHANGED vars => raced' = raced
      BY DEF OtherTakes, OtherReleases, vars, history
    <2>4. QED
      BY <2>1, <2>2, <2>3 DEF Next
  <1> SUFFICES ASSUME NEW i \in Ids, i \notin raced' PROVE Alone(i)' /\ Follows(i)'
    BY DEF Views
  <1>2. Alone(i) /\ Follows(i)
    BY <1>1 DEF Views
  <1>3. ASSUME UNCHANGED <<rows, view, handler, ai, answer>>
        PROVE  Alone(i)' /\ Follows(i)'
    <2>1. UNCHANGED <<op, pc, target, copy, ai, answer, rows, view>>
      BY <1>3 DEF handler
    <2>2. \A q \in Requests : Touches(q, i)' <=> Touches(q, i)
      BY <2>1 DEF Touches, Active
    <2>3. \A q \in Requests : AiTouches(q, i)' <=> AiTouches(q, i)
      BY <2>1 DEF AiTouches
    <2>4. \A q \in Requests : pc'[q] = pc[q] /\ op'[q] = op[q] /\ copy'[q] = copy[q]
      BY <2>1
    <2>5. Same(rows'[i], rows[i]) /\ view'[i] = view[i]
      BY <2>1 DEF Same
    <2>6. QED
      BY <1>2, <2>2, <2>3, <2>4, <2>5, ViewKept
  <1>4. ASSUME NEW r \in Requests, PreviewWrite(r)
        PROVE  UNCHANGED <<rows, view, handler, ai, answer>>
    BY <1>4 DEF PreviewWrite
  <1>5. OtherTakes \/ OtherReleases \/ UNCHANGED vars
          => UNCHANGED <<rows, view, handler, ai, answer>>
    BY DEF OtherTakes, OtherReleases, vars, tables, runs
  <1>6. QED
    BY <1>2, <1>3, <1>4, <1>5, ViewArrive, ViewHandler, ViewAi DEF Next

LEMMA ViewsInit == Init => Views
  <1> SUFFICES ASSUME Init, NEW i \in Ids PROVE Alone(i) /\ Follows(i)
    BY DEF Views
  <1>1. \A q \in Requests : ~Touches(q, i) /\ ~AiTouches(q, i)
    BY IdFacts DEF Init, Touches, AiTouches, Active
  <1>2. view = rows
    BY DEF Init
  <1>3. QED
    BY <1>1, <1>2 DEF Alone, Follows, Same

(* A client that hears every broadcast shows each message as the table has *)
(* it once nobody works on it, unless two operations on that message       *)
(* overlapped (SendMessage, EditMessage, DeleteMessage, ClearMessages,     *)
(* triggerAIResponse); and every variable keeps its type.                  *)
THEOREM ViewConvergesHolds == Spec => []ViewConverges
  <1>1. TypeInv /\ Views /\ [Next]_vars => Views'
    BY ViewsStep
  <1>2. TypeInv /\ Views => ViewConverges
    BY DEF TypeInv, Views, Follows, Same, ViewConverges
  <1>3. QED
    BY <1>1, <1>2, ViewsInit, TypeAlways, PTL DEF Spec
================================================================================
