----------------------------- MODULE ReminderProofs -----------------------------
(***************************************************************************)
(* Theorems about Reminder for every set of notes, users and endpoints,    *)
(* all plans, and any number of crashes and failing updates.               *)
(***************************************************************************)
EXTENDS Reminder, TLAPS

Delivering == {"marked", "announced", "pushing", "gone"}

NoteRow == [state : {"none", "live", "deleted"}, due : Times, expires : Times,
            fired : BOOLEAN]

(* What TypeOK rests on: a subscription has a primary key, an INSERT that  *)
(* is under way has one left, and misses are mishaps.                      *)
SubsOK ==
  \A e \in Endpoints :
    /\ subs[e].owner # Nobody => subs[e].row >= 1
    /\ asking[e].user # Nobody /\ ~asking[e].found => subs[e].row < MaxRows
MissesCounted == \A n \in Notes : misses[n] <= mishaps
WorkerHasNote == at[Worker] \in Delivering => cur \in Notes

TypeInv == TypeOK /\ SubsOK /\ MissesCounted /\ WorkerHasNote

LEMMA InitTypes == Init => TypeInv
  BY ReminderAssumption
     DEF Init, TypeInv, TypeOK, SubsOK, MissesCounted, WorkerHasNote, Delivering, Absent,
         Senders, Times

LEMMA CurrentIsNote ==
  ASSUME TypeInv, NEW s \in Senders, at[s] \in Delivering
  PROVE  Current(s) \in Notes
  BY DEF TypeInv, WorkerHasNote, Senders, Current

LEMMA DeletedRow ==
  ASSUME NEW row \in NoteRow
  PROVE  [row EXCEPT !.state = "deleted"] \in NoteRow
  BY DEF NoteRow

LEMMA RequestTypes ==
  ASSUME TypeInv, NEW n \in Notes, Create(n) \/ Delete(n) \/ (\E u \in Users : ClearAll(u))
  PROVE  TypeInv'
  <1> USE DEF TypeInv, SubsOK, MissesCounted, WorkerHasNote, Senders
  <1>1. CASE Create(n)
    <2>1. notes' \in [Notes -> NoteRow]
      <3>1. PICK plan \in Plans[n] : notes' = [notes EXCEPT ![n] = Note(plan[1], plan[2])]
        BY <1>1 DEF Create
      <3>2. plan[1] \in Times /\ plan[2] \in Times
        BY ReminderAssumption
      <3>3. QED
        BY <3>1, <3>2 DEF TypeOK, Note, NoteRow
    <2>2. n # Worker
      BY ReminderAssumption
    <2>3. QED
      BY <1>1, <2>1, <2>2 DEF Create, NoteRow, TypeOK, Goto, worker, history, delivery
  <1>2. CASE Delete(n)
    BY <1>2 DEF Delete, TypeOK, worker, history, delivery
  <1>3. CASE \E u \in Users : ClearAll(u)
    <2>1. notes' \in [Notes -> NoteRow]
      <3>1. \A m \in Notes : notes[m] \in NoteRow
        BY DEF TypeOK, NoteRow
      <3>2. QED
        BY <1>3, <3>1, DeletedRow DEF ClearAll
    <2>2. QED
      BY <1>3, <2>1 DEF ClearAll, NoteRow, TypeOK, worker, history, delivery
  <1>4. QED
    BY <1>1, <1>2, <1>3

LEMMA DeliveryTypes ==
  ASSUME TypeInv, NEW s \in Senders, DeliveryStep(s)
  PROVE  TypeInv'
  <1> USE DEF TypeInv, SubsOK, MissesCounted, WorkerHasNote, Delivering
  <1>1. CASE Announce(s)
    <2>1. rings' \in [Notes -> Nat]
      <3>1. Current(s) \in Notes
        BY <1>1, CurrentIsNote DEF Announce
      <3>2. rings[Current(s)] + 1 \in Nat
        BY <3>1 DEF TypeOK
      <3>3. QED
        BY <1>1, <3>1, <3>2 DEF Announce, TypeOK
    <2>2. held' \in [Senders -> SUBSET Endpoints] /\ tried' \in [Senders -> SUBSET Endpoints]
      BY <1>1 DEF Announce, TypeOK
    <2>3. TypeOK'
      BY <1>1, <2>1, <2>2 DEF Announce, TypeOK, Goto, worker
    <2>4. SubsOK' /\ MissesCounted'
      BY <1>1 DEF Announce
    <2>5. WorkerHasNote'
      BY <1>1 DEF Announce, TypeOK, Goto, worker
    <2>6. QED
      BY <2>3, <2>4, <2>5
  <1>2. CASE LoadSubscriptions(s)
    <2>1. Current(s) \in Notes
      BY <1>2, CurrentIsNote DEF LoadSubscriptions
    <2>2. Owner[Current(s)] # Nobody
      BY <2>1, ReminderAssumption
    <2>3. \A e \in Endpoints : subs[e].owner = Owner[Current(s)] => subs[e].row \in 1..MaxRows
      BY <2>2, ReminderAssumption DEF TypeOK
    <2>4. todo' \in [Senders -> SUBSET (Endpoints \X (1..MaxRows))]
      BY <1>2, <2>3 DEF LoadSubscriptions, TypeOK
    <2>5. QED
      BY <1>2, <2>4 DEF LoadSubscriptions, TypeOK, Goto, worker, history, delivery
  <1>3. CASE Delivered(s)
    <2>1. held' \in [Senders -> SUBSET Endpoints] /\ tried' \in [Senders -> SUBSET Endpoints]
      BY <1>3 DEF Delivered, TypeOK
    <2>2. CASE s = Worker
      BY <1>3, <2>1, <2>2 DEF Delivered, TypeOK, Goto, history
    <2>3. CASE s # Worker
      <3>1. TypeOK'
        <4>1. at' = [at EXCEPT ![s] = "done"] /\ cur' = cur
          BY <1>3, <2>3 DEF Delivered, Goto
        <4>2. QED
          BY <1>3, <2>1, <4>1 DEF Delivered, TypeOK, history
      <3>2. SubsOK' /\ MissesCounted'
        <4>1. UNCHANGED <<subs, asking, misses, mishaps>>
          BY <1>3 DEF Delivered, history
        <4>2. QED
          BY <4>1
      <3>3. at'[Worker] = at[Worker] /\ cur' = cur
        <4>1. at' = [at EXCEPT ![s] = "done"] /\ cur' = cur
          BY <1>3, <2>3 DEF Delivered, Goto
        <4>2. Worker \in DOMAIN at
          BY DEF TypeOK, Senders
        <4>3. QED
          BY <2>3, <4>1, <4>2
      <3>4. WorkerHasNote'
        BY <3>3
      <3>5. QED
        BY <3>1, <3>2, <3>4
    <2>4. QED
      BY <2>2, <2>3
  <1>4. ASSUME NEW p \in todo[s], Push(s, p) PROVE TypeInv'
    <2>1. p[1] \in Endpoints
      BY DEF TypeOK
    <2>2. QED
      BY <1>4, <2>1 DEF Push, TypeOK, worker, history
  <1>5. ASSUME NEW p \in todo[s], PushGone(s, p) PROVE TypeInv'
    <2>1. p[1] \in Endpoints
      BY DEF TypeOK
    <2>2. QED
      BY <1>5, <2>1 DEF PushGone, TypeOK, Goto, worker, history
  <1>6. ASSUME NEW p \in todo[s], Prune(s, p) PROVE TypeInv'
    <2>1. p[1] \in Endpoints
      BY DEF TypeOK
    <2>2. \/ subs' = [subs EXCEPT ![p[1]].owner = Nobody] /\ Released(p[1])
          \/ UNCHANGED <<subs, held>>
      BY <1>6 DEF Prune
    <2>3. held' \in [Senders -> SUBSET Endpoints]
      BY <2>2 DEF Released, TypeOK
    <2>4. todo' \in [Senders -> SUBSET (Endpoints \X (1..MaxRows))]
      BY <1>6 DEF Prune, TypeOK
    <2>5. subs' \in [Endpoints -> [owner : Users \cup {Nobody}, row : 0..MaxRows]]
      BY <2>1, <2>2 DEF TypeOK
    <2>6. SubsOK'
      <3>1. asking' = asking
        BY <1>6 DEF Prune
      <3>2. \A e \in Endpoints : subs'[e].row = subs[e].row
                               /\ subs'[e].owner \in {subs[e].owner, Nobody}
        BY <2>1, <2>2 DEF TypeOK
      <3>3. QED
        BY <3>1, <3>2
    <2>7. WorkerHasNote' /\ MissesCounted'
      BY <1>6 DEF Prune, TypeOK, Goto, worker, history
    <2>8. tried' = tried /\ at' \in [Senders -> {"rest", "none", "firing", "marked",
                                                "announced", "pushing", "gone", "done"}]
      BY <1>6 DEF Prune, TypeOK, Goto
    <2>9. TypeOK'
      BY <1>6, <2>3, <2>4, <2>5, <2>8 DEF Prune, TypeOK, worker, history
    <2>10. QED
      BY <2>7, <2>9, <2>6
  <1>7. QED
    BY <1>1, <1>2, <1>3, <1>4, <1>5, <1>6 DEF DeliveryStep

LEMMA WorkerTypes ==
  ASSUME TypeInv, Poll \/ Purge \/ Crash \/ Tick
                  \/ \E n \in Notes : MarkFired(n) \/ MarkFails(n)
  PROVE  TypeInv'
  <1> USE DEF TypeInv, SubsOK, MissesCounted, WorkerHasNote, Delivering, Senders
  <1>1. CASE Poll
    BY <1>1 DEF Poll, TypeOK, Goto, delivery
  <1>2. CASE Purge
    <2>1. notes' \in [Notes -> NoteRow]
      <3>1. \A m \in Notes : notes[m] \in NoteRow
        BY DEF TypeOK, NoteRow
      <3>2. QED
        BY <1>2, <3>1, DeletedRow DEF Purge
    <2>2. QED
      BY <1>2, <2>1 DEF Purge, NoteRow, TypeOK, Goto, worker, delivery
  <1>3. CASE Crash
    <2>1. interrupted' \subseteq Notes
      <3>1. \A s \in Senders : InDelivery(s) => Current(s) \in Notes
        BY CurrentIsNote DEF InDelivery
      <3>2. QED
        BY <1>3, <3>1 DEF Crash, TypeOK
    <2>2. at' \in [Senders -> {"rest", "none", "firing", "marked", "announced", "pushing",
                               "gone", "done"}] /\ at'[Worker] = "rest"
      BY <1>3 DEF Crash, TypeOK
    <2>3. QED
      BY <1>3, <2>1, <2>2, ReminderAssumption DEF Crash, TypeOK
  <1>4. CASE Tick
    BY <1>4, ReminderAssumption DEF Tick, TypeOK, worker, history, delivery
  <1>5. ASSUME NEW n \in Notes, MarkFired(n) PROVE TypeInv'
    <2>1. notes' \in [Notes -> NoteRow]
      <3>1. (notes[n].fired \/ Live(n)) \in BOOLEAN /\ notes[n] \in NoteRow
        BY DEF Live, TypeOK, NoteRow
      <3>2. [notes[n] EXCEPT !.fired = notes[n].fired \/ Live(n)] \in NoteRow
        BY <3>1 DEF NoteRow
      <3>3. QED
        BY <1>5, <3>2 DEF MarkFired, TypeOK, NoteRow
    <2>2. QED
      BY <1>5, <2>1 DEF MarkFired, NoteRow, TypeOK, Goto, history, delivery
  <1>6. ASSUME NEW n \in Notes, MarkFails(n) PROVE TypeInv'
    <2>1. mishaps + 1 \in 0..MaxMishaps /\ misses[n] + 1 \in 0..MaxMishaps
      BY <1>6, ReminderAssumption DEF MarkFails, TypeOK
    <2>2. QED
      BY <1>6, <2>1 DEF MarkFails, TypeOK, Goto, delivery
  <1>7. QED
    BY <1>1, <1>2, <1>3, <1>4, <1>5, <1>6

LEMMA SubscriptionTypes ==
  ASSUME TypeInv, NEW e \in Endpoints,
         SubscribeWrite(e) \/ \E u \in Users : SubscribeFind(u, e) \/ Unsubscribe(u, e)
  PROVE  TypeInv'
  <1> USE DEF TypeInv, SubsOK, MissesCounted, WorkerHasNote
  <1>1. CASE SubscribeWrite(e)
    <2>1. held' \in [Senders -> SUBSET Endpoints]
      BY <1>1 DEF SubscribeWrite, Released, TypeOK
    <2>2. CASE ~asking[e].found
      <3>1. subs' = [subs EXCEPT ![e] = [owner |-> asking[e].user, row |-> @.row + 1]]
        BY <1>1, <2>2 DEF SubscribeWrite
      <3>2. subs[e].row + 1 \in 1..MaxRows
        BY <1>1, <2>2, ReminderAssumption DEF SubscribeWrite, TypeOK
      <3>3. QED
        BY <1>1, <2>1, <3>1, <3>2 DEF SubscribeWrite, TypeOK, worker, history
    <2>3. CASE asking[e].found
      <3>1. subs' = [subs EXCEPT ![e].owner = IF @ = Nobody THEN @ ELSE asking[e].user]
        BY <1>1, <2>3 DEF SubscribeWrite
      <3>2. QED
        BY <1>1, <2>1, <3>1 DEF SubscribeWrite, TypeOK, worker, history
    <2>4. QED
      BY <2>2, <2>3 DEF TypeOK
  <1>2. ASSUME NEW u \in Users, SubscribeFind(u, e) PROVE TypeInv'
    BY <1>2 DEF SubscribeFind, TypeOK, worker, history, delivery
  <1>3. ASSUME NEW u \in Users, Unsubscribe(u, e) PROVE TypeInv'
    BY <1>3 DEF Unsubscribe, Released, TypeOK, worker, history
  <1>4. QED
    BY <1>1, <1>2, <1>3

LEMMA NextTypes == TypeInv /\ [Next]_vars => TypeInv'
  <1> SUFFICES ASSUME TypeInv, [Next]_vars PROVE TypeInv'
    OBVIOUS
  <1>1. CASE UNCHANGED vars
    BY <1>1 DEF vars, worker, history, delivery, TypeInv, TypeOK, SubsOK, MissesCounted,
                WorkerHasNote
  <1>2. CASE Next
    BY <1>2, RequestTypes, DeliveryTypes, WorkerTypes, SubscriptionTypes, ReminderAssumption
       DEF Next, WorkerStep, Senders
  <1>3. QED
    BY <1>1, <1>2

(* The variables keep their types, whatever is due, deleted or interrupted.*)
THEOREM ReminderTypeCorrect == Spec => []TypeOK
  <1>1. TypeInv => TypeOK
    BY DEF TypeInv
  <1>2. QED
    BY InitTypes, NextTypes, <1>1, PTL DEF Spec
-----------------------------------------------------------------------------
(* How often a note rings. A note is settled when no later poll finds it,  *)
(* and pending between its mark and its announcement: each announcement    *)
(* uses up a miss, or the one time that settles the note.                  *)
Settled(n) == notes[n].due = Never \/ notes[n].fired \/ notes[n].state = "deleted"
ByWorker(n) == at[Worker] = "marked" /\ cur = n
Pending(n) == at[n] = "marked" \/ ByWorker(n)

Fresh == \A n \in Notes :
  /\ at[n] = "none" => notes[n] = Absent /\ rings[n] = 0 /\ n \notin batch
  /\ notes[n].state = "none" => at[n] = "none"
OneSender == \A n \in Notes :
  /\ at[n] = "marked" => notes[n].due = Never
  /\ ByWorker(n) => notes[n].due # Never /\ at[n] # "none"
InBatch == \A n \in batch :
  notes[n].due # Never /\ rings[n] <= misses[n] /\ ~ByWorker(n)
Books == \A n \in Notes :
  /\ rings[n] <= misses[n] + 1
  /\ Pending(n) \/ ~Settled(n) => rings[n] <= misses[n]
  /\ Pending(n) /\ ~Settled(n) => rings[n] + 1 <= misses[n]

(* What the round may not send any more: notes deleted before its poll.    *)
ClearedOut == \A n \in cleared : n \notin batch /\ ~ByWorker(n)

RingInv == TypeInv /\ Fresh /\ OneSender /\ InBatch /\ Books /\ ClearedOut
             /\ LostOnlyInCrash

LEMMA InitRings == Init => RingInv
  <1> SUFFICES ASSUME Init PROVE RingInv
    OBVIOUS
  <1>1. TypeInv
    BY InitTypes
  <1>2. \A n \in Notes : at[n] = "none" /\ notes[n] = Absent /\ rings[n] = 0 /\ misses[n] = 0
    BY ReminderAssumption DEF Init, Senders
  <1>3. at[Worker] = "rest" /\ batch = {} /\ cleared = {}
    BY DEF Init, Senders
  <1>4. \A n \in Notes : notes[n].due = Never /\ notes[n].fired = FALSE /\ ~ByWorker(n)
    BY <1>2, <1>3 DEF Absent, ByWorker
  <1>5. \A n \in Notes : Settled(n) /\ ~Pending(n)
    BY <1>2, <1>4 DEF Settled, Pending
  <1>6. Fresh /\ OneSender /\ InBatch /\ ClearedOut
    BY <1>2, <1>3, <1>4 DEF Fresh, OneSender, InBatch, ClearedOut
  <1>7. Books /\ LostOnlyInCrash
    BY <1>2, <1>4, <1>5 DEF Books, LostOnlyInCrash
  <1>8. QED
    BY <1>1, <1>6, <1>7 DEF RingInv

(* Steps that change nothing these invariants look at.                     *)
QuietStep ==
  \/ Tick
  \/ \E u \in Users, e \in Endpoints : SubscribeFind(u, e) \/ Unsubscribe(u, e)
  \/ \E e \in Endpoints : SubscribeWrite(e)
  \/ \E s \in Senders :
       \/ LoadSubscriptions(s)
       \/ \E p \in todo[s] : Push(s, p) \/ PushGone(s, p) \/ Prune(s, p)
  \/ UNCHANGED vars

SameStage(s) ==
  /\ (at'[s] = "marked") = (at[s] = "marked")
  /\ (at'[s] = "none") = (at[s] = "none")
Quiet ==
  /\ UNCHANGED <<notes, cur, batch, rings, misses, interrupted, cleared>>
  /\ \A s \in Senders : SameStage(s)

LEMMA QuietSteps == ASSUME TypeInv, QuietStep PROVE Quiet
  <1> at \in [Senders -> {"rest", "none", "firing", "marked", "announced", "pushing", "gone",
                          "done"}]
    BY DEF TypeInv, TypeOK
  <1>1. CASE Tick
    BY <1>1 DEF Quiet, SameStage, Tick, worker, history
  <1>2. ASSUME NEW e \in Endpoints,
               SubscribeWrite(e) \/ \E u \in Users : SubscribeFind(u, e) \/ Unsubscribe(u, e)
        PROVE  Quiet
    BY <1>2 DEF Quiet, SameStage, SubscribeWrite, SubscribeFind, Unsubscribe, worker, history
  <1>3. ASSUME NEW s \in Senders, LoadSubscriptions(s) PROVE Quiet
    BY <1>3 DEF Quiet, SameStage, LoadSubscriptions, Goto, worker, history
  <1>4. ASSUME NEW s \in Senders, NEW p \in todo[s], Push(s, p) PROVE Quiet
    BY <1>4 DEF Quiet, SameStage, Push, worker, history
  <1>5. ASSUME NEW s \in Senders, NEW p \in todo[s], PushGone(s, p) PROVE Quiet
    BY <1>5 DEF Quiet, SameStage, PushGone, Goto, worker, history
  <1>6. ASSUME NEW s \in Senders, NEW p \in todo[s], Prune(s, p) PROVE Quiet
    BY <1>6 DEF Quiet, SameStage, Prune, Goto, worker, history
  <1>7. CASE UNCHANGED vars
    BY <1>7 DEF Quiet, SameStage, vars, worker, history
  <1>8. QED
    BY <1>1, <1>2, <1>3, <1>4, <1>5, <1>6, <1>7 DEF QuietStep

LEMMA QuietKeepsRings == ASSUME RingInv, TypeInv', Quiet PROVE RingInv'
  <1>1. \A n \in Notes : SameStage(n)
    BY DEF Quiet, Senders
  <1>2. SameStage(Worker)
    BY DEF Quiet, Senders
  <1>3. ASSUME NEW n \in Notes
        PROVE  /\ ByWorker(n)' = ByWorker(n)
               /\ Pending(n)' = Pending(n)
               /\ Settled(n)' = Settled(n)
    BY <1>1, <1>2 DEF Quiet, SameStage, ByWorker, Pending, Settled
  <1>4. batch \subseteq Notes /\ cleared \subseteq Notes
    BY DEF RingInv, TypeInv, TypeOK
  <1>5. Fresh' /\ OneSender'
    BY <1>1, <1>3 DEF RingInv, Quiet, SameStage, Fresh, OneSender
  <1>6. InBatch' /\ Books' /\ ClearedOut'
    BY <1>3, <1>4 DEF RingInv, Quiet, InBatch, Books, ClearedOut
  <1>7. LostOnlyInCrash'
    BY <1>2 DEF RingInv, Quiet, SameStage, LostOnlyInCrash
  <1>8. QED
    BY <1>5, <1>6, <1>7 DEF RingInv
(* A step that leaves the stages alone and may only delete rows.           *)
LEMMA DeletionKeepsRings ==
  ASSUME RingInv, TypeInv', UNCHANGED <<cur, rings, misses, interrupted>>,
         \A s \in Senders : SameStage(s), batch' = batch, cleared' \in {cleared, {}},
         \A n \in Notes : \/ notes'[n] = notes[n]
                          \/ Live(n) /\ notes'[n] = [notes[n] EXCEPT !.state = "deleted"]
  PROVE  RingInv'
  <1> notes \in [Notes -> NoteRow] /\ batch \subseteq Notes /\ cleared \subseteq Notes
    BY DEF RingInv, TypeInv, TypeOK, NoteRow
  <1>0. SameStage(Worker) /\ \A n \in Notes : SameStage(n)
    BY DEF Senders
  <1>1. ASSUME NEW n \in Notes
        PROVE  /\ notes'[n].due = notes[n].due
               /\ notes'[n].fired = notes[n].fired
               /\ notes'[n].state # notes[n].state =>
                    notes[n].state = "live" /\ notes'[n].state = "deleted"
    BY DEF NoteRow, Live
  <1>2. ASSUME NEW n \in Notes
        PROVE  /\ ByWorker(n)' = ByWorker(n)
               /\ Pending(n)' = Pending(n)
               /\ Settled(n) => Settled(n)'
    BY <1>0, <1>1 DEF SameStage, ByWorker, Pending, Settled
  <1>3. Fresh'
    <2> SUFFICES ASSUME NEW n \in Notes
                 PROVE  /\ at[n] = "none" => notes'[n] = Absent /\ rings[n] = 0 /\ n \notin batch
                        /\ notes'[n].state = "none" => at[n] = "none"
      BY <1>0 DEF Fresh, SameStage
    <2>1. at[n] = "none" => notes[n] = Absent /\ rings[n] = 0 /\ n \notin batch
      BY DEF RingInv, Fresh
    <2>2. notes[n].state = "none" => at[n] = "none"
      BY DEF RingInv, Fresh
    <2>3. at[n] = "none" => notes'[n] = notes[n]
      <3>1. at[n] = "none" => ~Live(n)
        BY <2>1 DEF Live, Absent
      <3>2. QED
        BY <3>1
    <2>4. QED
      BY <1>1, <2>1, <2>2, <2>3
  <1>4. OneSender' /\ InBatch' /\ ClearedOut'
    BY <1>0, <1>1, <1>2 DEF SameStage, RingInv, OneSender, InBatch, ClearedOut
  <1>5. Books'
    BY <1>2 DEF RingInv, Books
  <1>6. LostOnlyInCrash'
    BY <1>0, <1>1 DEF SameStage, RingInv, LostOnlyInCrash
  <1>7. QED
    BY <1>3, <1>4, <1>5, <1>6 DEF RingInv

LEMMA CreateRings ==
  ASSUME RingInv, TypeInv', NEW n \in Notes, Create(n)
  PROVE  RingInv'
  <1>1. PICK plan \in Plans[n] :
          /\ notes' = [notes EXCEPT ![n] = Note(plan[1], plan[2])]
          /\ at' = [at EXCEPT ![n] = IF plan[1] = Never THEN "marked" ELSE "done"]
    BY DEF Create, Goto
  <1>2. UNCHANGED <<cur, batch, rings, misses, interrupted, cleared>>
    BY DEF Create, worker, history
  <1>3. /\ notes \in [Notes -> NoteRow] /\ batch \subseteq Notes /\ cleared \subseteq Notes
        /\ DOMAIN at = Senders
        /\ rings \in [Notes -> Nat] /\ misses \in [Notes -> Nat]
    BY DEF RingInv, TypeInv, TypeOK, NoteRow
  <1>4. n # Worker /\ Worker \in Senders /\ Notes \subseteq Senders
    BY ReminderAssumption DEF Senders
  <1>5. at[n] = "none" /\ rings[n] = 0 /\ n \notin batch /\ ~ByWorker(n)
    BY DEF Create, RingInv, Fresh, OneSender
  <1>6. \A m \in Notes \ {n} : at'[m] = at[m] /\ notes'[m] = notes[m]
    BY <1>1, <1>3, <1>4
  <1>7. at'[Worker] = at[Worker]
    BY <1>1, <1>3, <1>4
  <1>8. /\ notes'[n].due = plan[1] /\ notes'[n].state = "live" /\ notes'[n].fired = FALSE
        /\ at'[n] = IF plan[1] = Never THEN "marked" ELSE "done"
    BY <1>1, <1>3, <1>4 DEF Note
  <1>9. ASSUME NEW m \in Notes PROVE ByWorker(m)' = ByWorker(m)
    BY <1>2, <1>7 DEF ByWorker
  <1>10. ASSUME NEW m \in Notes \ {n}
         PROVE  Pending(m)' = Pending(m) /\ Settled(m)' = Settled(m)
    BY <1>6, <1>9 DEF Pending, Settled
  <1>11. ~ByWorker(n)' /\ (Pending(n)' => Settled(n)')
    BY <1>5, <1>8, <1>9 DEF Pending, Settled
  <1>12. Fresh' /\ OneSender'
    BY <1>2, <1>5, <1>6, <1>8, <1>9 DEF RingInv, Fresh, OneSender
  <1>13. InBatch' /\ ClearedOut'
    BY <1>2, <1>3, <1>5, <1>6, <1>9 DEF RingInv, InBatch, ClearedOut
  <1>14. Books'
    BY <1>2, <1>3, <1>5, <1>10, <1>11 DEF RingInv, Books
  <1>15. LostOnlyInCrash'
    BY <1>2, <1>6, <1>7, <1>8 DEF RingInv, LostOnlyInCrash
  <1>16. QED
    BY <1>12, <1>13, <1>14, <1>15 DEF RingInv

LEMMA AnnounceRings ==
  ASSUME RingInv, TypeInv', NEW s \in Senders, Announce(s)
  PROVE  RingInv'
  <1>0. Current(s) \in Notes
    BY CurrentIsNote DEF Announce, RingInv, Delivering
  <1>1. PICK n \in Notes : n = Current(s) /\ at[s] = "marked"
    BY <1>0 DEF Announce
  <1>2. /\ rings' = [rings EXCEPT ![n] = @ + 1]
        /\ at' = [at EXCEPT ![s] = "announced"]
        /\ UNCHANGED <<notes, cur, batch, misses, interrupted, cleared>>
    BY <1>1 DEF Announce, Goto, worker
  <1>3. /\ rings \in [Notes -> Nat] /\ misses \in [Notes -> Nat] /\ DOMAIN at = Senders
        /\ batch \subseteq Notes /\ cleared \subseteq Notes
    BY DEF RingInv, TypeInv, TypeOK
  <1>4. Pending(n)
    BY <1>1 DEF Pending, ByWorker, Current
  <1>5. n \notin batch
    <2>1. CASE s = Worker
      BY <1>1, <2>1 DEF RingInv, InBatch, ByWorker, Current
    <2>2. CASE s # Worker
      BY <1>1, <2>2 DEF RingInv, InBatch, OneSender, Current
    <2>3. QED
      BY <2>1, <2>2
  <1>6. ~Pending(n)'
    <2>1. CASE s = Worker
      BY <1>1, <1>2, <1>3, <2>1, ReminderAssumption
         DEF RingInv, OneSender, ByWorker, Pending, Current, Senders
    <2>2. CASE s # Worker
      BY <1>1, <1>2, <1>3, <2>2, ReminderAssumption
         DEF RingInv, OneSender, ByWorker, Pending, Current, Senders
    <2>3. QED
      BY <2>1, <2>2
  <1>7. ASSUME NEW m \in Notes
        PROVE  /\ at'[m] = "marked" => at[m] = "marked"
               /\ at'[m] = "none" <=> at[m] = "none"
               /\ ByWorker(m)' => ByWorker(m)
               /\ Settled(m)' = Settled(m)
    BY <1>1, <1>2, <1>3 DEF ByWorker, Settled, Senders
  <1>8. ASSUME NEW m \in Notes PROVE Pending(m)' => Pending(m)
    BY <1>7 DEF Pending
  <1>9. rings'[n] = rings[n] + 1 /\ \A m \in Notes \ {n} : rings'[m] = rings[m]
    BY <1>1, <1>2, <1>3
  <1>10. Fresh' /\ OneSender' /\ ClearedOut'
    <2>1. at[n] # "none"
      BY <1>1 DEF RingInv, OneSender, ByWorker, Current
    <2>2. QED
      BY <1>2, <1>3, <1>7, <1>9, <2>1 DEF RingInv, Fresh, OneSender, ClearedOut
  <1>11. InBatch'
    BY <1>2, <1>3, <1>5, <1>7, <1>9 DEF RingInv, InBatch
  <1>12. Books'
    <2>1. ASSUME NEW m \in Notes \ {n}
          PROVE  /\ rings'[m] <= misses'[m] + 1
                 /\ Pending(m)' \/ ~Settled(m)' => rings'[m] <= misses'[m]
                 /\ Pending(m)' /\ ~Settled(m)' => rings'[m] + 1 <= misses'[m]
      BY <1>2, <1>7, <1>8, <1>9 DEF RingInv, Books
    <2>2. /\ rings'[n] <= misses'[n] + 1
          /\ ~Settled(n)' => rings'[n] <= misses'[n]
      BY <1>1, <1>2, <1>3, <1>4, <1>7, <1>9 DEF RingInv, Books
    <2>3. QED
      BY <1>6, <2>1, <2>2 DEF Books
  <1>13. LostOnlyInCrash'
    <2>1. ASSUME NEW m \in Notes, notes'[m].fired, rings'[m] = 0
          PROVE  m \in interrupted \/ (at'[Worker] = "marked" /\ cur = m)
      <3>1. m # n /\ notes[m].fired /\ rings[m] = 0
        BY <1>2, <1>3, <1>9, <2>1
      <3>2. m \in interrupted \/ (at[Worker] = "marked" /\ cur = m)
        BY <3>1 DEF RingInv, LostOnlyInCrash
      <3>3. at[Worker] = "marked" /\ cur = m => s # Worker
        BY <1>1, <3>1 DEF Current
      <3>4. s # Worker => at'[Worker] = at[Worker]
        BY <1>2, <1>3 DEF Senders
      <3>5. QED
        BY <3>2, <3>3, <3>4
    <2>2. QED
      BY <1>2, <2>1 DEF LostOnlyInCrash
  <1>14. QED
    BY <1>10, <1>11, <1>12, <1>13 DEF RingInv
LEMMA PollRings ==
  ASSUME RingInv, TypeInv', Poll
  PROVE  RingInv'
  <1>1. /\ at[Worker] = "rest" /\ at' = [at EXCEPT ![Worker] = "firing"]
        /\ batch' = {n \in Notes : Due(n)}
        /\ cleared' = {n \in Notes : notes[n].state = "deleted"}
        /\ UNCHANGED <<notes, cur, rings, misses, interrupted>>
    BY DEF Poll, Goto
  <1>2. DOMAIN at = Senders /\ Worker \notin Notes /\ Worker \in Senders
    BY ReminderAssumption DEF RingInv, TypeInv, TypeOK, Senders
  <1>3. ASSUME NEW n \in Notes
        PROVE  /\ at'[n] = at[n] /\ ~ByWorker(n)'
               /\ Pending(n)' = Pending(n) /\ Settled(n)' = Settled(n)
    BY <1>1, <1>2 DEF ByWorker, Pending, Settled, Senders
  <1>4. \A n \in batch' : n \in Notes /\ ~Settled(n) /\ notes[n].state = "live"
    BY <1>1 DEF Due, Live, Settled
  <1>5. Fresh' /\ OneSender'
    <2>1. \A n \in Notes : at[n] = "none" => n \notin batch'
      BY <1>4 DEF RingInv, Fresh, Absent
    <2>2. Fresh'
      BY <1>1, <1>3, <2>1 DEF RingInv, Fresh
    <2>3. OneSender'
      BY <1>1, <1>3 DEF RingInv, OneSender
    <2>4. QED
      BY <2>2, <2>3
  <1>6. InBatch' /\ ClearedOut'
    BY <1>1, <1>3, <1>4 DEF RingInv, InBatch, ClearedOut, Books, Settled
  <1>7. Books'
    BY <1>1, <1>3 DEF RingInv, Books
  <1>8. LostOnlyInCrash'
    BY <1>1 DEF RingInv, LostOnlyInCrash
  <1>9. QED
    BY <1>5, <1>6, <1>7, <1>8 DEF RingInv

LEMMA MarkRings ==
  ASSUME RingInv, TypeInv', NEW n \in Notes, MarkFired(n) \/ MarkFails(n)
  PROVE  RingInv'
  <1>1. /\ at[Worker] = "firing" /\ at' = [at EXCEPT ![Worker] = "marked"]
        /\ n \in batch /\ cur' = n /\ batch' = batch \ {n}
        /\ UNCHANGED <<rings, cleared, interrupted>>
    BY DEF MarkFired, MarkFails, Goto, history
  <1>2. /\ DOMAIN at = Senders /\ Worker \notin Notes /\ Worker \in Senders
        /\ notes \in [Notes -> NoteRow] /\ batch \subseteq Notes /\ cleared \subseteq Notes
        /\ rings \in [Notes -> Nat] /\ misses \in [Notes -> Nat]
    BY ReminderAssumption DEF RingInv, TypeInv, TypeOK, Senders, NoteRow
  <1>3. /\ at'[Worker] = "marked"
        /\ \A m \in Notes : at'[m] = at[m] /\ ~ByWorker(m)
    BY <1>1, <1>2 DEF ByWorker, Senders
  <1>4. /\ notes[n].due # Never /\ rings[n] <= misses[n]
        /\ at[n] # "none" /\ at[n] # "marked" /\ n \notin cleared
    BY <1>1 DEF RingInv, InBatch, Fresh, OneSender, ClearedOut
  <1>5. \A m \in Notes : ByWorker(m)' = (m = n)
    BY <1>1, <1>3 DEF ByWorker
  <1>6. \A m \in Notes \ {n} : notes'[m] = notes[m] /\ misses'[m] = misses[m]
    BY <1>2 DEF MarkFired, MarkFails, history
  <1>7. notes'[n].due = notes[n].due /\ notes'[n].state = notes[n].state
    BY <1>2 DEF MarkFired, MarkFails, NoteRow
  <1>8. \/ misses'[n] = misses[n] /\ Settled(n)'
        \/ misses'[n] = misses[n] + 1 /\ (notes'[n].fired => notes[n].fired)
    <2>1. CASE MarkFired(n)
      <3>1. notes'[n].fired = (notes[n].fired \/ Live(n)) /\ misses' = misses
        BY <1>2, <2>1 DEF MarkFired, NoteRow, history
      <3>2. notes[n].state \in {"live", "deleted"}
        BY <1>2, <1>4 DEF RingInv, Fresh, NoteRow
      <3>3. QED
        BY <1>7, <3>1, <3>2 DEF Settled, Live
    <2>2. CASE MarkFails(n)
      BY <1>2, <2>2 DEF MarkFails
    <2>3. QED
      BY <2>1, <2>2
  <1>9. \A m \in Notes \ {n} : Pending(m)' = Pending(m) /\ Settled(m)' = Settled(m)
    BY <1>3, <1>5, <1>6 DEF Pending, Settled
  <1>10. Fresh' /\ OneSender'
    <2>1. ASSUME NEW m \in Notes
          PROVE  /\ at[m] = "none" => notes'[m] = notes[m] /\ m # n
                 /\ notes'[m].state = notes[m].state /\ notes'[m].due = notes[m].due
      BY <1>4, <1>6, <1>7
    <2>2. Fresh'
      BY <1>1, <1>3, <2>1 DEF RingInv, Fresh
    <2>3. OneSender'
      BY <1>3, <1>4, <1>5, <2>1 DEF RingInv, OneSender
    <2>4. QED
      BY <2>2, <2>3
  <1>11. InBatch' /\ ClearedOut'
    BY <1>1, <1>2, <1>4, <1>5, <1>6 DEF RingInv, InBatch, ClearedOut
  <1>12. Books'
    <2>1. \/ misses'[n] = misses[n] /\ Settled(n)'
          \/ misses'[n] = misses[n] + 1
      BY <1>8
    <2>2. /\ rings'[n] <= misses'[n] + 1 /\ rings'[n] <= misses'[n]
          /\ ~Settled(n)' => rings'[n] + 1 <= misses'[n]
      BY <1>1, <1>2, <1>4, <2>1
    <2>3. ASSUME NEW m \in Notes \ {n}
          PROVE  /\ rings'[m] <= misses'[m] + 1
                 /\ Pending(m)' \/ ~Settled(m)' => rings'[m] <= misses'[m]
                 /\ Pending(m)' /\ ~Settled(m)' => rings'[m] + 1 <= misses'[m]
      BY <1>1, <1>6, <1>9 DEF RingInv, Books
    <2>4. QED
      BY <2>2, <2>3 DEF Books
  <1>13. LostOnlyInCrash'
    BY <1>1, <1>3, <1>5, <1>6 DEF RingInv, LostOnlyInCrash, ByWorker
  <1>14. QED
    BY <1>10, <1>11, <1>12, <1>13 DEF RingInv

(* The end of a delivery, and a crash: nothing is pending afterwards that  *)
(* was not before.                                                         *)
LEMMA EndRings ==
  ASSUME RingInv, TypeInv', Crash \/ \E s \in Senders : Delivered(s)
  PROVE  RingInv'
  <1>1. /\ UNCHANGED <<notes, rings, misses>>
        /\ batch' \subseteq batch /\ cleared' \subseteq cleared
        /\ interrupted \subseteq interrupted'
    BY DEF Crash, Delivered, history
  <1>2. /\ DOMAIN at = Senders /\ Worker \notin Notes
        /\ batch \subseteq Notes /\ cleared \subseteq Notes
    BY ReminderAssumption DEF RingInv, TypeInv, TypeOK
  <1>3. ASSUME NEW n \in Notes
        PROVE  /\ at'[n] = "marked" => at[n] = "marked"
               /\ (at'[n] = "none") = (at[n] = "none")
               /\ ByWorker(n)' => ByWorker(n)
    <2>1. CASE Crash
      BY <1>2, <2>1 DEF Crash, InDelivery, ByWorker, Senders
    <2>2. ASSUME NEW s \in Senders, Delivered(s)
          PROVE  /\ at'[n] = "marked" => at[n] = "marked"
                 /\ (at'[n] = "none") = (at[n] = "none")
                 /\ ByWorker(n)' => ByWorker(n)
      <3>1. at[s] \in {"pushing", "announced"}
        BY <2>2 DEF Delivered
      <3>2. CASE s = Worker
        BY <1>2, <2>2, <3>1, <3>2 DEF Delivered, Goto, ByWorker, Senders
      <3>3. CASE s # Worker
        <4>1. at' = [at EXCEPT ![s] = "done"] /\ cur' = cur
          BY <2>2, <3>3 DEF Delivered, Goto
        <4>2. QED
          BY <1>2, <3>1, <3>3, <4>1 DEF ByWorker, Senders
      <3>4. QED
        BY <3>2, <3>3
    <2>3. QED
      BY <2>1, <2>2
  <1>4. \A n \in Notes : (Pending(n)' => Pending(n)) /\ Settled(n)' = Settled(n)
    BY <1>1, <1>3 DEF Pending, Settled
  <1>5. Fresh' /\ OneSender'
    BY <1>1, <1>3 DEF RingInv, Fresh, OneSender
  <1>6. InBatch' /\ ClearedOut' /\ Books'
    BY <1>1, <1>2, <1>3, <1>4 DEF RingInv, InBatch, ClearedOut, Books
  <1>7. ASSUME NEW n \in Notes, notes'[n].fired, rings'[n] = 0
        PROVE  n \in interrupted' \/ (at'[Worker] = "marked" /\ cur' = n)
    <2>1. n \in interrupted \/ (at[Worker] = "marked" /\ cur = n)
      BY <1>1, <1>7 DEF RingInv, LostOnlyInCrash
    <2>2. CASE Crash
      BY <1>1, <2>1, <2>2 DEF Crash, InDelivery, Current, Senders
    <2>3. ASSUME NEW s \in Senders, Delivered(s)
          PROVE  n \in interrupted' \/ (at'[Worker] = "marked" /\ cur' = n)
      <3>1. CASE s = Worker
        BY <1>1, <2>1, <2>3, <3>1 DEF Delivered
      <3>2. CASE s # Worker
        <4>1. at' = [at EXCEPT ![s] = "done"] /\ cur' = cur
          BY <2>3, <3>2 DEF Delivered, Goto
        <4>2. QED
          BY <1>1, <1>2, <2>1, <3>2, <4>1 DEF Senders
      <3>3. QED
        BY <3>1, <3>2
    <2>4. QED
      BY <2>2, <2>3
  <1>8. LostOnlyInCrash'
    BY <1>7 DEF LostOnlyInCrash
  <1>9. QED
    BY <1>5, <1>6, <1>8 DEF RingInv

LEMMA DeleteRings ==
  ASSUME RingInv, TypeInv',
         Purge \/ (\E n \in Notes : Delete(n)) \/ (\E u \in Users : ClearAll(u))
  PROVE  RingInv'
  <1> DEFINE MayDelete == \A n \in Notes :
               \/ notes'[n] = notes[n]
               \/ Live(n) /\ notes'[n] = [notes[n] EXCEPT !.state = "deleted"]
  <1>1. ASSUME NEW n \in Notes, Delete(n) PROVE RingInv'
    <2>1. /\ UNCHANGED <<at, cur, rings, misses, interrupted>>
          /\ batch' = batch /\ cleared' = cleared
          /\ \A s \in Senders : SameStage(s)
      BY <1>1 DEF Delete, SameStage, worker, history
    <2>2. MayDelete
      BY <1>1 DEF Delete, RingInv, TypeInv, TypeOK
    <2>3. QED
      BY <2>1, <2>2, DeletionKeepsRings
  <1>2. ASSUME NEW u \in Users, ClearAll(u) PROVE RingInv'
    <2>1. /\ UNCHANGED <<at, cur, rings, misses, interrupted>>
          /\ batch' = batch /\ cleared' = cleared
          /\ \A s \in Senders : SameStage(s)
      BY <1>2 DEF ClearAll, SameStage, worker, history
    <2>2. MayDelete
      BY <1>2 DEF ClearAll
    <2>3. QED
      BY <2>1, <2>2, DeletionKeepsRings
  <1>3. CASE Purge
    <2>1. /\ UNCHANGED <<cur, rings, misses, interrupted>>
          /\ batch' = batch /\ cleared' = {}
      BY <1>3 DEF Purge, worker
    <2>2. \A s \in Senders : SameStage(s)
      BY <1>3 DEF Purge, Goto, SameStage, RingInv, TypeInv, TypeOK
    <2>3. MayDelete
      BY <1>3 DEF Purge
    <2>4. QED
      BY <2>1, <2>2, <2>3, DeletionKeepsRings
  <1>4. QED
    BY <1>1, <1>2, <1>3
LEMMA NextRings == RingInv /\ [Next]_vars => RingInv'
  <1> SUFFICES ASSUME RingInv, [Next]_vars PROVE RingInv'
    OBVIOUS
  <1>1. TypeInv'
    BY NextTypes DEF RingInv
  <1>2. CASE QuietStep
    BY <1>1, <1>2, QuietSteps, QuietKeepsRings DEF RingInv
  <1>3. ASSUME NEW n \in Notes, Create(n) PROVE RingInv'
    BY <1>1, <1>3, CreateRings
  <1>4. ASSUME NEW s \in Senders, Announce(s) PROVE RingInv'
    BY <1>1, <1>4, AnnounceRings
  <1>5. CASE Poll
    BY <1>1, <1>5, PollRings
  <1>6. ASSUME NEW n \in Notes, MarkFired(n) \/ MarkFails(n) PROVE RingInv'
    BY <1>1, <1>6, MarkRings
  <1>7. CASE Crash \/ \E s \in Senders : Delivered(s)
    BY <1>1, <1>7, EndRings
  <1>8. CASE Purge \/ (\E n \in Notes : Delete(n)) \/ (\E u \in Users : ClearAll(u))
    BY <1>1, <1>8, DeleteRings
  <1>9. QED
    BY <1>2, <1>3, <1>4, <1>5, <1>6, <1>7, <1>8
       DEF Next, WorkerStep, DeliveryStep, QuietStep, Senders

LEMMA AlwaysRingInv == Spec => []RingInv
  BY InitRings, NextRings, PTL DEF Spec

(* A reminder rings once, and once more for each update of its flag that   *)
(* failed, across any number of polls, deletions and restarts.             *)
THEOREM RingsOnceHolds == Spec => []RingsOnce
  <1>1. RingInv => RingsOnce
    BY DEF RingInv, TypeInv, TypeOK, Books, RingsOnce
  <1>2. QED
    BY AlwaysRingInv, <1>1, PTL

(* Only a crash loses a reminder that was marked as fired.                 *)
THEOREM LostOnlyInCrashHolds == Spec => []LostOnlyInCrash
  <1>1. RingInv => LostOnlyInCrash
    BY DEF RingInv
  <1>2. QED
    BY AlwaysRingInv, <1>1, PTL

(* What was deleted before a poll is not announced in its round.           *)
THEOREM ClearedStaysSilentHolds == Spec => ClearedStaysSilent
  <1> DEFINE Silent == \A n \in cleared : notes[n].due # Never => rings'[n] = rings[n]
  <1>1. RingInv /\ [Next]_vars => [Silent]_vars
    <2> SUFFICES ASSUME RingInv, Next, NEW n \in cleared, notes[n].due # Never
                 PROVE  rings'[n] = rings[n]
      BY DEF vars
    <2>1. n \in Notes /\ rings \in [Notes -> Nat]
      BY DEF RingInv, TypeInv, TypeOK
    <2>2. at[n] # "marked" /\ ~ByWorker(n)
      BY <2>1 DEF RingInv, OneSender, ClearedOut
    <2>3. ASSUME NEW s \in Senders, Announce(s) PROVE rings'[n] = rings[n]
      <3>1. Current(s) # n
        BY <2>2, <2>3 DEF Announce, Current, ByWorker
      <3>2. QED
        BY <2>1, <2>3, <3>1 DEF Announce
    <2>4. CASE QuietStep
      BY <2>4, QuietSteps DEF RingInv, Quiet
    <2>5. CASE Poll \/ Purge \/ Crash
      BY <2>5 DEF Poll, Purge, Crash
    <2>6. ASSUME NEW m \in Notes, Create(m) \/ Delete(m) \/ MarkFired(m) \/ MarkFails(m)
          PROVE  rings'[n] = rings[n]
      BY <2>6 DEF Create, Delete, MarkFired, MarkFails, history
    <2>7. ASSUME NEW u \in Users, ClearAll(u) PROVE rings'[n] = rings[n]
      BY <2>7 DEF ClearAll, history
    <2>8. ASSUME NEW s \in Senders, Delivered(s) PROVE rings'[n] = rings[n]
      BY <2>8 DEF Delivered, history
    <2>9. QED
      BY <2>3, <2>4, <2>5, <2>6, <2>7, <2>8
         DEF Next, WorkerStep, DeliveryStep, QuietStep, Senders
  <1>2. QED
    BY AlwaysRingInv, <1>1, PTL DEF Spec, ClearedStaysSilent
-----------------------------------------------------------------------------
(* What a delivery still owes to the endpoints its user has held all the   *)
(* time: before the query they are still his, after it each has been       *)
(* called or is on the list.                                               *)
Covers(s) ==
  /\ at[s] = "announced" => \A e \in held[s] : subs[e].owner = Owner[Current(s)]
  /\ at[s] \in {"pushing", "gone"} =>
       \A e \in held[s] : e \in tried[s] \/ \E p \in todo[s] : p[1] = e

HeldCovered == \A s \in Senders : Covers(s)

DeviceInv == TypeInv /\ HeldCovered

LEMMA InitDevices == Init => DeviceInv
  <1> SUFFICES ASSUME Init PROVE DeviceInv
    OBVIOUS
  <1>1. \A s \in Senders : at[s] \in {"rest", "none"}
    BY DEF Init
  <1>2. QED
    BY <1>1, InitTypes DEF DeviceInv, HeldCovered, Covers

(* A sender that no step of the delivery touches.                          *)
LEMMA OthersCovered ==
  ASSUME DeviceInv, NEW s \in Senders,
         at'[s] = at[s], Current(s)' = Current(s), tried'[s] = tried[s], todo'[s] = todo[s],
         held'[s] \subseteq held[s],
         \A e \in held'[s] : subs'[e].owner = subs[e].owner
  PROVE  Covers(s)'
  BY DEF DeviceInv, HeldCovered, Covers

LEMMA SubscriptionsCovered ==
  ASSUME DeviceInv, NEW e \in Endpoints,
         SubscribeWrite(e) \/ \E u \in Users : SubscribeFind(u, e) \/ Unsubscribe(u, e)
  PROVE  HeldCovered'
  <1> SUFFICES ASSUME NEW s \in Senders PROVE Covers(s)'
    BY DEF HeldCovered
  <1>1. UNCHANGED <<at, cur, tried, todo>>
    BY DEF SubscribeWrite, SubscribeFind, Unsubscribe, worker, delivery
  <1>2. Current(s)' = Current(s)
    BY <1>1 DEF Current
  <1>3. /\ subs \in [Endpoints -> [owner : Users \cup {Nobody}, row : 0..MaxRows]]
        /\ held \in [Senders -> SUBSET Endpoints]
    BY DEF DeviceInv, TypeInv, TypeOK
  <1>4. \A d \in Endpoints \ {e} : subs'[d].owner = subs[d].owner
    BY <1>3 DEF SubscribeWrite, SubscribeFind, Unsubscribe
  <1>5. (held'[s] = held[s] /\ subs'[e].owner = subs[e].owner) \/ held'[s] = held[s] \ {e}
    BY <1>3 DEF SubscribeWrite, SubscribeFind, Unsubscribe, Released, delivery
  <1>6. held'[s] \subseteq held[s] /\ \A d \in held'[s] : subs'[d].owner = subs[d].owner
    BY <1>3, <1>4, <1>5
  <1>7. QED
    BY <1>1, <1>2, <1>6, OthersCovered

LEMMA DeliveryCovered ==
  ASSUME DeviceInv, NEW s \in Senders, DeliveryStep(s)
  PROVE  HeldCovered'
  <1>1. /\ subs \in [Endpoints -> [owner : Users \cup {Nobody}, row : 0..MaxRows]]
        /\ held \in [Senders -> SUBSET Endpoints] /\ tried \in [Senders -> SUBSET Endpoints]
        /\ todo \in [Senders -> SUBSET (Endpoints \X (1..MaxRows))] /\ DOMAIN at = Senders
    BY DEF DeviceInv, TypeInv, TypeOK
  <1>2. \A x \in Senders \ {s} :
          Current(x)' = Current(x) /\ at'[x] = at[x] /\ tried'[x] = tried[x] /\ todo'[x] = todo[x]
    <2> SUFFICES ASSUME NEW x \in Senders \ {s}
                 PROVE  /\ Current(x)' = Current(x) /\ at'[x] = at[x]
                        /\ tried'[x] = tried[x] /\ todo'[x] = todo[x]
      OBVIOUS
    <2>1. CASE Announce(s)
      BY <1>1, <2>1 DEF Announce, Goto, Current, worker
    <2>2. CASE LoadSubscriptions(s)
      BY <1>1, <2>2 DEF LoadSubscriptions, Goto, Current, worker, delivery
    <2>3. CASE Delivered(s)
      BY <1>1, <2>3 DEF Delivered, Goto, Current
    <2>4. ASSUME NEW p \in todo[s], Push(s, p) \/ PushGone(s, p) \/ Prune(s, p)
          PROVE  /\ Current(x)' = Current(x) /\ at'[x] = at[x]
                 /\ tried'[x] = tried[x] /\ todo'[x] = todo[x]
      BY <1>1, <2>4 DEF Push, PushGone, Prune, Goto, Current, worker
    <2>5. QED
      BY <2>1, <2>2, <2>3, <2>4 DEF DeliveryStep
  <1>3. \A x \in Senders \ {s} :
          held'[x] \subseteq held[x] /\ \A e \in held'[x] : subs'[e].owner = subs[e].owner
    <2>1. CASE Announce(s) \/ LoadSubscriptions(s) \/ Delivered(s)
      BY <1>1, <2>1 DEF Announce, LoadSubscriptions, Delivered, delivery
    <2>2. ASSUME NEW p \in todo[s], Push(s, p) \/ PushGone(s, p)
          PROVE  subs' = subs /\ held' = held
      BY <2>2 DEF Push, PushGone
    <2>3. ASSUME NEW p \in todo[s], Prune(s, p), NEW x \in Senders \ {s}
          PROVE  held'[x] \subseteq held[x]
                 /\ \A e \in held'[x] : subs'[e].owner = subs[e].owner
      <3>1. \/ subs' = [subs EXCEPT ![p[1]].owner = Nobody] /\ held'[x] = held[x] \ {p[1]}
            \/ subs' = subs /\ held' = held
        BY <2>3 DEF Prune, Released
      <3>2. QED
        BY <1>1, <3>1
    <2>4. QED
      BY <2>1, <2>2, <2>3 DEF DeliveryStep
  <1>4. \A x \in Senders \ {s} : Covers(x)'
    BY <1>2, <1>3, OthersCovered
  <1>5. Covers(s)'
    <2>1. CASE Announce(s)
      <3>1. at'[s] = "announced" /\ Current(s)' = Current(s) /\ subs' = subs
        BY <1>1, <2>1 DEF Announce, Goto, Current, worker
      <3>2. held'[s] = {e \in Endpoints : subs[e].owner = Owner[Current(s)]}
        BY <1>1, <2>1 DEF Announce
      <3>3. QED
        BY <3>1, <3>2 DEF Covers
    <2>2. CASE LoadSubscriptions(s)
      <3>1. at[s] = "announced" /\ at'[s] = "pushing" /\ held' = held
        BY <1>1, <2>2 DEF LoadSubscriptions, Goto, delivery
      <3>2. \A e \in held[s] : e \in Endpoints /\ subs[e].owner = Owner[Current(s)]
        BY <1>1, <3>1 DEF DeviceInv, HeldCovered, Covers
      <3>3. \A e \in held[s] : <<e, subs[e].row>> \in todo'[s]
        BY <1>1, <2>2, <3>2 DEF LoadSubscriptions
      <3>4. QED
        BY <3>1, <3>3 DEF Covers
    <2>3. CASE Delivered(s)
      BY <1>1, <2>3 DEF Delivered, Covers
    <2>4. ASSUME NEW p \in todo[s], Push(s, p) \/ PushGone(s, p) \/ Prune(s, p) PROVE Covers(s)'
      <3>1. at[s] \in {"pushing", "gone"} /\ at'[s] \in {"pushing", "gone"}
        BY <1>1, <2>4 DEF Push, PushGone, Prune, Goto
      <3>2. held'[s] \subseteq held[s] /\ p[1] \in tried'[s] /\ tried[s] \subseteq tried'[s]
        BY <1>1, <2>4 DEF Push, PushGone, Prune, Released
      <3>3. \A q \in todo[s] \ {p} : q \in todo'[s]
        BY <1>1, <2>4 DEF Push, PushGone, Prune
      <3>4. \A e \in held[s] : e \in tried[s] \/ \E q \in todo[s] : q[1] = e
        BY <3>1 DEF DeviceInv, HeldCovered, Covers
      <3>5. QED
        BY <3>1, <3>2, <3>3, <3>4 DEF Covers
    <2>5. QED
      BY <2>1, <2>2, <2>3, <2>4 DEF DeliveryStep
  <1>6. QED
    BY <1>4, <1>5 DEF HeldCovered

LEMMA OtherStepsCovered ==
  ASSUME DeviceInv,
         \/ \E n \in Notes : Create(n) \/ Delete(n) \/ MarkFired(n) \/ MarkFails(n)
         \/ \E u \in Users : ClearAll(u)
         \/ Poll \/ Purge \/ Tick \/ Crash \/ UNCHANGED vars
  PROVE  HeldCovered'
  <1> SUFFICES ASSUME NEW s \in Senders PROVE Covers(s)'
    BY DEF HeldCovered
  <1>1. DOMAIN at = Senders
    BY DEF DeviceInv, TypeInv, TypeOK
  <1>2. CASE Crash
    BY <1>2 DEF Crash, Covers
  <1>3. ASSUME NEW n \in Notes, Create(n) PROVE Covers(s)'
    <2>1. UNCHANGED <<subs, cur, todo, held, tried>>
      BY <1>3 DEF Create, worker, delivery
    <2>2. at'[s] = at[s] \/ at'[s] \in {"marked", "done"}
      BY <1>1, <1>3 DEF Create, Goto
    <2>3. Current(s)' = Current(s)
      BY <2>1 DEF Current
    <2>4. QED
      BY <2>1, <2>2, <2>3 DEF DeviceInv, HeldCovered, Covers
  <1>4. ASSUME NEW n \in Notes, MarkFired(n) \/ MarkFails(n) PROVE Covers(s)'
    <2>1. UNCHANGED <<subs, todo, held, tried>>
      BY <1>4 DEF MarkFired, MarkFails, delivery
    <2>2. CASE s = Worker
      BY <1>1, <1>4, <2>2 DEF MarkFired, MarkFails, Goto, Covers
    <2>3. CASE s # Worker
      <3>1. at'[s] = at[s] /\ Current(s)' = Current(s)
        BY <1>1, <1>4, <2>3 DEF MarkFired, MarkFails, Goto, Current
      <3>2. QED
        BY <2>1, <3>1 DEF DeviceInv, HeldCovered, Covers
    <2>4. QED
      BY <2>2, <2>3
  <1>5. CASE Poll \/ Purge
    <2>1. UNCHANGED <<subs, cur, todo, held, tried>>
      BY <1>5 DEF Poll, Purge, worker, delivery
    <2>2. at'[s] = at[s] \/ at'[s] \in {"firing", "rest"}
      BY <1>1, <1>5 DEF Poll, Purge, Goto
    <2>3. Current(s)' = Current(s)
      BY <2>1 DEF Current
    <2>4. QED
      BY <2>1, <2>2, <2>3 DEF DeviceInv, HeldCovered, Covers
  <1>6. CASE Tick \/ UNCHANGED vars \/ (\E u \in Users : ClearAll(u)) \/ \E n \in Notes : Delete(n)
    <2>1. UNCHANGED <<subs, at, cur, todo, held, tried>>
      BY <1>6 DEF Tick, vars, ClearAll, Delete, worker, delivery
    <2>2. Current(s)' = Current(s)
      BY <2>1 DEF Current
    <2>3. QED
      BY <2>1, <2>2 DEF DeviceInv, HeldCovered, Covers
  <1>7. QED
    BY <1>2, <1>3, <1>4, <1>5, <1>6

LEMMA NextDevices == DeviceInv /\ [Next]_vars => DeviceInv'
  <1> SUFFICES ASSUME DeviceInv, [Next]_vars PROVE DeviceInv'
    OBVIOUS
  <1>1. TypeInv'
    BY NextTypes DEF DeviceInv
  <1>2. HeldCovered'
    BY DeliveryCovered, SubscriptionsCovered, OtherStepsCovered DEF Next, WorkerStep, Senders
  <1>3. QED
    BY <1>1, <1>2 DEF DeviceInv

(* Whoever subscribes, leaves or fails meanwhile, the loop of a delivery   *)
(* does not end before each endpoint its user held all the time has been   *)
(* called. A delivery that cannot list the subscriptions has no loop.      *)
THEOREM EveryDeviceTriedHolds == Spec => []EveryDeviceTried
  <1>1. DeviceInv => EveryDeviceTried
    BY DEF DeviceInv, HeldCovered, Covers, EveryDeviceTried
  <1>2. QED
    BY InitDevices, NextDevices, <1>1, PTL DEF Spec
-----------------------------------------------------------------------------
(* The refinement of AlarmClock. A round that is over has left nothing.    *)
RestEmpty == at[Worker] = "rest" => batch = {}
ClockInv == RingInv /\ RestEmpty

Dues == [n \in Notes |-> notes[n].due]

LEMMA InitClockInv == Init => ClockInv
  BY InitRings DEF Init, ClockInv, RestEmpty

LEMMA NextClockInv == ClockInv /\ [Next]_vars => ClockInv'
  <1> SUFFICES ASSUME ClockInv, [Next]_vars PROVE RestEmpty'
    BY NextRings DEF ClockInv
  <1>1. DOMAIN at = Senders /\ Worker \in Senders /\ Worker \notin Notes
    BY ReminderAssumption DEF ClockInv, RingInv, TypeInv, TypeOK, Senders
  <1>2. ASSUME NEW s \in Senders, DeliveryStep(s) PROVE RestEmpty'
    <2>1. batch' = batch
      BY <1>2 DEF DeliveryStep, Announce, LoadSubscriptions, Delivered, Push, PushGone, Prune,
                  worker
    <2>2. at'[Worker] = "rest" => at[Worker] = "rest"
      <3>1. CASE Delivered(s)
        <4>1. at' = [at EXCEPT ![s] = "firing"] \/ at' = [at EXCEPT ![s] = "done"]
          BY <3>1 DEF Delivered, Goto
        <4>2. QED
          BY <1>1, <4>1
      <3>2. CASE Announce(s) \/ LoadSubscriptions(s)
        BY <1>1, <3>2 DEF Announce, LoadSubscriptions, Goto
      <3>3. ASSUME NEW p \in todo[s], Push(s, p) \/ PushGone(s, p) \/ Prune(s, p)
            PROVE  at'[Worker] = "rest" => at[Worker] = "rest"
        BY <1>1, <3>3 DEF Push, PushGone, Prune, Goto
      <3>4. QED
        BY <1>2, <3>1, <3>2, <3>3 DEF DeliveryStep
    <2>3. QED
      BY <2>1, <2>2 DEF ClockInv, RestEmpty
  <1>3. ASSUME NEW n \in Notes, Create(n) \/ Delete(n) PROVE RestEmpty'
    <2>1. batch' = batch /\ at'[Worker] = at[Worker]
      BY <1>1, <1>3 DEF Create, Delete, Goto, worker
    <2>2. QED
      BY <2>1 DEF ClockInv, RestEmpty
  <1>4. ASSUME NEW n \in Notes, MarkFired(n) \/ MarkFails(n) PROVE RestEmpty'
    BY <1>1, <1>4 DEF MarkFired, MarkFails, Goto, RestEmpty
  <1>5. CASE Poll \/ Purge \/ Crash
    BY <1>1, <1>5 DEF Poll, Purge, Crash, Goto, RestEmpty, worker
  <1>6. CASE \/ Tick \/ (\E u \in Users : ClearAll(u)) \/ UNCHANGED vars
             \/ \E u \in Users, e \in Endpoints : SubscribeFind(u, e) \/ Unsubscribe(u, e)
             \/ \E e \in Endpoints : SubscribeWrite(e)
    <2>1. batch' = batch /\ at' = at
      BY <1>6 DEF Tick, ClearAll, vars, SubscribeFind, Unsubscribe, SubscribeWrite, worker
    <2>2. QED
      BY <2>1 DEF ClockInv, RestEmpty
  <1>7. QED
    BY <1>2, <1>3, <1>4, <1>5, <1>6 DEF Next, WorkerStep, Senders

StageNames == {"unset", "quiet", "called", "ringing"}

StageIs(n, s) ==
  \/ s = "unset" /\ at[n] = "none"
  \/ s = "ringing" /\ at[n] # "none" /\ Pending(n)
  \/ s = "called" /\ at[n] # "none" /\ ~Pending(n) /\ n \in batch
  \/ s = "quiet" /\ at[n] # "none" /\ ~Pending(n) /\ n \notin batch

LEMMA StageNow ==
  /\ Stage \in [Notes -> StageNames]
  /\ \A n \in Notes : StageIs(n, Stage[n])
  BY DEF Stage, StageNames, StageIs, Ringing, Pending, ByWorker

LEMMA StageThen ==
  /\ Stage' \in [Notes -> StageNames]
  /\ \A n \in Notes : StageIs(n, Stage[n])'
  BY DEF Stage, StageNames, StageIs, Ringing, Pending, ByWorker

(* A note whose situation stays the same keeps its stage.                  *)
LEMMA StageKept ==
  ASSUME NEW n \in Notes, (at'[n] = "none") = (at[n] = "none"),
         Pending(n)' = Pending(n), (n \in batch') = (n \in batch)
  PROVE  Stage'[n] = Stage[n]
  BY StageNow, StageThen DEF StageIs

LEMMA StagesKept ==
  ASSUME \A n \in Notes : Stage'[n] = Stage[n]
  PROVE  Stage' = Stage
  BY StageNow, StageThen

LEMMA StageMoves ==
  ASSUME NEW n \in Notes, \A m \in Notes \ {n} : Stage'[m] = Stage[m]
  PROVE  Stage' = [Stage EXCEPT ![n] = Stage'[n]]
  BY StageNow, StageThen

LEMMA OverNow ==
  \A n \in Notes : n \in Over <=> at[n] # "none" /\ Settled(n)
  BY DEF Over, Settled

LEMMA OverThen ==
  \A n \in Notes : n \in Over' <=> at'[n] # "none" /\ Settled(n)'
  BY DEF Over, Settled

LEMMA OverKept ==
  ASSUME \A n \in Notes : /\ (at'[n] = "none") = (at[n] = "none")
                          /\ Settled(n)' = Settled(n)
  PROVE  Over' = Over
  BY OverNow, OverThen DEF Over

LEMMA InitClock == Init => Clock!AlarmInit
  <1> SUFFICES ASSUME Init PROVE Clock!AlarmInit
    OBVIOUS
  <1>1. \A n \in Notes : at[n] = "none" /\ notes[n] = Absent
    BY ReminderAssumption DEF Init, Senders
  <1>2. Dues = [n \in Notes |-> Never]
    BY <1>1 DEF Dues, Absent
  <1>3. \A n \in Notes : Stage[n] = "unset"
    BY <1>1, StageNow DEF StageIs
  <1>4. Stage = [n \in Notes |-> "unset"]
    BY <1>3, StageNow
  <1>5. Over = {}
    BY <1>1 DEF Over
  <1>6. now = 0 /\ rings = [n \in Notes |-> 0] /\ mishaps = 0
    BY DEF Init
  <1>7. QED
    BY <1>2, <1>4, <1>5, <1>6 DEF Clock!AlarmInit, Dues

(* Browsers, calls of the push service and the clock.                      *)
LEMMA QuietClock ==
  ASSUME ClockInv, QuietStep
  PROVE  Clock!Tick \/ UNCHANGED Clock!alarmVars
  <1>1. Quiet
    BY QuietSteps DEF ClockInv, RingInv
  <1>2. SameStage(Worker) /\ \A n \in Notes : SameStage(n)
    BY <1>1 DEF Quiet, Senders
  <1>3. \A n \in Notes : Pending(n)' = Pending(n) /\ Settled(n)' = Settled(n)
    BY <1>1, <1>2 DEF Quiet, SameStage, Pending, ByWorker, Settled
  <1>4. Stage' = Stage /\ Over' = Over
    BY <1>1, <1>2, <1>3, StageKept, StagesKept, OverKept DEF Quiet, SameStage
  <1>5. notes' = notes /\ rings' = rings
    BY <1>1 DEF Quiet
  <1>6. CASE Tick
    BY <1>4, <1>5, <1>6 DEF Tick, Clock!Tick, history
  <1>7. CASE ~Tick
    <2>1. UNCHANGED <<now, mishaps>>
      BY <1>7 DEF QuietStep, SubscribeFind, Unsubscribe, SubscribeWrite, LoadSubscriptions,
                  Push, PushGone, Prune, vars, history
    <2>2. QED
      BY <1>4, <1>5, <2>1 DEF Clock!alarmVars
  <1>8. QED
    BY <1>6, <1>7

LEMMA CreateClock ==
  ASSUME ClockInv, NEW n \in Notes, Create(n)
  PROVE  Clock!SetForLater(n) \/ Clock!RingAtOnce(n)
  <1>1. PICK plan \in Plans[n] :
          /\ notes' = [notes EXCEPT ![n] = Note(plan[1], plan[2])]
          /\ at' = [at EXCEPT ![n] = IF plan[1] = Never THEN "marked" ELSE "done"]
    BY DEF Create, Goto
  <1>2. /\ at[n] = "none"
        /\ UNCHANGED <<now, cur, batch, rings, mishaps>>
    BY DEF Create, worker, history
  <1>3. /\ notes \in [Notes -> NoteRow] /\ DOMAIN at = Senders
        /\ n # Worker /\ Worker \in Senders /\ Notes \subseteq Senders
    BY ReminderAssumption DEF ClockInv, RingInv, TypeInv, TypeOK, NoteRow, Senders
  <1>4. /\ n \notin batch /\ ~ByWorker(n) /\ notes[n].due = Never
    BY <1>2 DEF ClockInv, RingInv, Fresh, OneSender, Absent
  <1>5. \A m \in Notes \ {n} : at'[m] = at[m] /\ notes'[m] = notes[m]
    BY <1>1, <1>3
  <1>6. /\ notes'[n].due = plan[1] /\ notes'[n].state = "live" /\ notes'[n].fired = FALSE
        /\ at'[n] = IF plan[1] = Never THEN "marked" ELSE "done"
        /\ at'[Worker] = at[Worker]
    BY <1>1, <1>3 DEF Note
  <1>7. \A m \in Notes : ByWorker(m)' = ByWorker(m)
    BY <1>2, <1>6 DEF ByWorker
  <1>8. \A m \in Notes \ {n} : Pending(m)' = Pending(m) /\ Settled(m)' = Settled(m)
    BY <1>5, <1>7 DEF Pending, Settled
  <1>9. \A m \in Notes \ {n} : Stage'[m] = Stage[m]
    BY <1>2, <1>5, <1>8, StageKept
  <1>10. Stage' = [Stage EXCEPT ![n] = Stage'[n]]
    BY <1>9, StageMoves
  <1>11. Stage[n] = "unset"
    BY <1>2, StageNow DEF StageIs
  <1>12. \A m \in Notes \ {n} : m \in Over' <=> m \in Over
    BY <1>5, <1>8, OverNow, OverThen
  <1>13. n \notin Over
    BY <1>2, OverNow
  <1>14. Dues' = [Dues EXCEPT ![n] = Dues'[n]] /\ Dues'[n] = plan[1] /\ Dues[n] = Never
    BY <1>3, <1>4, <1>5, <1>6 DEF Dues
  <1>15. CASE plan[1] = Never
    <2>1. Pending(n)' /\ Settled(n)' /\ at'[n] # "none"
      BY <1>6, <1>15 DEF Pending, Settled
    <2>2. Stage'[n] = "ringing"
      BY <2>1, StageThen DEF StageIs
    <2>3. Over' = Over \cup {n}
      BY <1>12, <2>1, OverThen DEF Over
    <2>4. Dues' = Dues
      BY <1>14, <1>15 DEF Dues
    <2>5. QED
      BY <1>2, <1>10, <1>11, <2>2, <2>3, <2>4 DEF Clock!RingAtOnce, Clock!Becomes, Dues
  <1>16. CASE plan[1] # Never
    <2>1. ~Pending(n)' /\ ~Settled(n)' /\ at'[n] # "none"
      BY <1>4, <1>6, <1>7, <1>16 DEF Pending, Settled
    <2>2. Stage'[n] = "quiet"
      BY <1>2, <1>4, <2>1, StageThen DEF StageIs
    <2>3. Over' = Over
      BY <1>12, <1>13, <2>1, OverThen DEF Over
    <2>4. plan[1] \in Nat
      BY <1>16, ReminderAssumption DEF Times
    <2>5. QED
      BY <1>2, <1>10, <1>11, <1>14, <2>2, <2>3, <2>4
         DEF Clock!SetForLater, Clock!Becomes, Dues
  <1>17. QED
    BY <1>15, <1>16

LEMMA AnnounceClock ==
  ASSUME ClockInv, NEW s \in Senders, Announce(s)
  PROVE  \E n \in Notes : Clock!Ring(n)
  <1>0. Current(s) \in Notes
    BY CurrentIsNote DEF Announce, ClockInv, RingInv, Delivering
  <1>1. PICK n \in Notes : n = Current(s) /\ at[s] = "marked"
    BY <1>0 DEF Announce
  <1>2. /\ rings' = [rings EXCEPT ![n] = @ + 1]
        /\ at' = [at EXCEPT ![s] = "announced"]
        /\ UNCHANGED <<now, notes, cur, batch, mishaps>>
    BY <1>1 DEF Announce, Goto, worker
  <1>3. DOMAIN at = Senders /\ Worker \in Senders /\ Worker \notin Notes /\ Notes \subseteq Senders
    BY ReminderAssumption DEF ClockInv, RingInv, TypeInv, TypeOK, Senders
  <1>4. Pending(n) /\ at[n] # "none"
    BY <1>1 DEF ClockInv, RingInv, OneSender, Pending, ByWorker, Current
  <1>5. n \notin batch /\ ~Pending(n)'
    <2>1. CASE s = Worker
      <3>1. ByWorker(n) /\ at[n] # "marked"
        BY <1>1, <2>1 DEF ClockInv, RingInv, OneSender, ByWorker, Current
      <3>2. QED
        BY <1>2, <1>3, <2>1, <3>1 DEF ClockInv, RingInv, InBatch, ByWorker, Pending
    <2>2. CASE s # Worker
      <3>1. s = n /\ at[n] = "marked" /\ notes[n].due = Never
        BY <1>1, <2>2 DEF ClockInv, RingInv, OneSender, Current
      <3>2. n \notin batch /\ ~ByWorker(n)
        BY <3>1 DEF ClockInv, RingInv, InBatch, OneSender
      <3>3. QED
        BY <1>2, <1>3, <2>2, <3>1, <3>2 DEF ByWorker, Pending
    <2>3. QED
      BY <2>1, <2>2
  <1>6. \A m \in Notes : (at'[m] = "none") = (at[m] = "none")
    BY <1>1, <1>2, <1>3
  <1>7. \A m \in Notes \ {n} : Pending(m)' = Pending(m)
    <2>1. CASE s = Worker
      BY <1>1, <1>2, <1>3, <2>1 DEF Pending, ByWorker, Current
    <2>2. CASE s # Worker
      BY <1>1, <1>2, <1>3, <2>2 DEF Pending, ByWorker, Current
    <2>3. QED
      BY <2>1, <2>2
  <1>8. \A m \in Notes \ {n} : Stage'[m] = Stage[m]
    BY <1>2, <1>6, <1>7, StageKept
  <1>9. Stage[n] = "ringing" /\ Stage'[n] = "quiet"
    BY <1>2, <1>4, <1>5, <1>6, StageNow, StageThen DEF StageIs
  <1>10. Stage' = [Stage EXCEPT ![n] = "quiet"]
    BY <1>8, <1>9, StageMoves
  <1>11. Over' = Over
    BY <1>2, <1>6, OverKept DEF Settled
  <1>12. Clock!Ring(n)
    BY <1>2, <1>9, <1>10, <1>11 DEF Clock!Ring, Clock!Becomes
  <1>13. QED
    BY <1>12

LEMMA PollClock ==
  ASSUME ClockInv, Poll
  PROVE  Clock!CallAllDue
  <1>1. /\ at[Worker] = "rest" /\ at' = [at EXCEPT ![Worker] = "firing"]
        /\ batch' = {n \in Notes : Due(n)} /\ batch = {}
        /\ UNCHANGED <<now, notes, cur, rings, mishaps>>
    BY DEF Poll, Goto, ClockInv, RestEmpty
  <1>2. DOMAIN at = Senders /\ Worker \notin Notes /\ Worker \in Senders /\ Notes \subseteq Senders
    BY ReminderAssumption DEF ClockInv, RingInv, TypeInv, TypeOK, Senders
  <1>3. ASSUME NEW n \in Notes
        PROVE  /\ at'[n] = at[n] /\ ~ByWorker(n) /\ ~ByWorker(n)'
               /\ Pending(n)' = Pending(n) /\ Settled(n)' = Settled(n)
               /\ Pending(n) => at[n] = "marked"
    BY <1>1, <1>2 DEF ByWorker, Pending, Settled
  <1>4. ASSUME NEW n \in Notes
        PROVE  /\ Stage[n] # "called"
               /\ Stage[n] = "ringing" => Dues[n] = Never
    <2>1. Stage[n] # "called"
      BY <1>1, StageNow DEF StageIs
    <2>2. Stage[n] = "ringing" => at[n] = "marked"
      BY <1>3, StageNow DEF StageIs
    <2>3. QED
      BY <2>1, <2>2 DEF ClockInv, RingInv, OneSender, Dues
  <1>5. ASSUME NEW n \in Notes
        PROVE  Stage'[n] = IF Stage[n] = "quiet" /\ n \notin Over /\ Dues[n] # Never
                              /\ Dues[n] <= now THEN "called" ELSE Stage[n]
    <2>1. notes[n].state \in {"none", "live", "deleted"}
      BY DEF ClockInv, RingInv, TypeInv, TypeOK
    <2>2. at[n] = "none" <=> notes[n].state = "none"
      BY DEF ClockInv, RingInv, Fresh, Absent
    <2>3. Due(n) <=> at[n] # "none" /\ ~Settled(n) /\ notes[n].due # Never /\ notes[n].due <= now
      BY <2>1, <2>2 DEF Due, Live, Settled
    <2>4. Due(n) => ~Pending(n)
      BY <1>3, <2>3 DEF ClockInv, RingInv, OneSender
    <2>5. n \in Over <=> at[n] # "none" /\ Settled(n)
      BY OverNow
    <2>6. CASE Due(n)
      <3>1. Stage[n] = "quiet"
        BY <1>1, <2>3, <2>4, <2>6, StageNow DEF StageIs
      <3>2. Stage'[n] = "called"
        BY <1>1, <1>3, <2>3, <2>4, <2>6, StageThen DEF StageIs
      <3>3. QED
        BY <2>3, <2>5, <2>6, <3>1, <3>2 DEF Dues
    <2>7. CASE ~Due(n)
      <3>1. Stage'[n] = Stage[n]
        BY <1>1, <1>3, <2>7, StageKept
      <3>2. Stage[n] = "quiet" => at[n] # "none"
        BY StageNow DEF StageIs
      <3>3. QED
        BY <2>3, <2>5, <2>7, <3>1, <3>2 DEF Dues
    <2>8. QED
      BY <2>6, <2>7
  <1>6. Stage' = [n \in Notes |-> IF Stage[n] = "quiet" /\ n \notin Over /\ Dues[n] # Never
                                     /\ Dues[n] <= now THEN "called" ELSE Stage[n]]
    BY <1>5, StageThen
  <1>7. Over' = Over
    BY <1>3, OverKept
  <1>8. QED
    BY <1>1, <1>4, <1>6, <1>7 DEF Clock!CallAllDue, Clock!ToCall, Dues

LEMMA MarkClock ==
  ASSUME ClockInv, NEW n \in Notes, MarkFired(n) \/ MarkFails(n)
  PROVE  Clock!TickOff(n) \/ Clock!TickFails(n)
  <1>1. /\ at[Worker] = "firing" /\ at' = [at EXCEPT ![Worker] = "marked"]
        /\ n \in batch /\ cur' = n /\ batch' = batch \ {n}
        /\ UNCHANGED <<now, rings>>
    BY DEF MarkFired, MarkFails, Goto, history
  <1>2. /\ DOMAIN at = Senders /\ Worker \notin Notes /\ Worker \in Senders
        /\ Notes \subseteq Senders /\ notes \in [Notes -> NoteRow]
    BY ReminderAssumption DEF ClockInv, RingInv, TypeInv, TypeOK, Senders, NoteRow
  <1>3. /\ at'[Worker] = "marked"
        /\ \A m \in Notes : at'[m] = at[m] /\ ~ByWorker(m) /\ (ByWorker(m)' <=> m = n)
    BY <1>1, <1>2 DEF ByWorker
  <1>4. at[n] # "none" /\ at[n] # "marked"
    BY <1>1 DEF ClockInv, RingInv, InBatch, Fresh, OneSender
  <1>5. \A m \in Notes \ {n} : Stage'[m] = Stage[m]
    <2>1. \A m \in Notes \ {n} : Pending(m)' = Pending(m)
      BY <1>3 DEF Pending
    <2>2. QED
      BY <1>1, <1>3, <2>1, StageKept
  <1>6. Stage[n] = "called"
    BY <1>1, <1>3, <1>4, StageNow DEF StageIs, Pending
  <1>7. Stage'[n] = "ringing"
    BY <1>3, <1>4, StageThen DEF StageIs, Pending
  <1>8. Stage' = [Stage EXCEPT ![n] = "ringing"]
    BY <1>5, <1>7, StageMoves
  <1>9. CASE MarkFired(n)
    <2>1. /\ notes' = [notes EXCEPT ![n].fired = notes[n].fired \/ Live(n)]
          /\ mishaps' = mishaps
      BY <1>9 DEF MarkFired, history
    <2>2. \A m \in Notes \ {n} : notes'[m] = notes[m]
      BY <1>2, <2>1
    <2>3. /\ notes'[n].fired = (notes[n].fired \/ Live(n))
          /\ notes'[n].due = notes[n].due /\ notes'[n].state = notes[n].state
      BY <1>2, <2>1 DEF NoteRow
    <2>4. notes[n].state \in {"live", "deleted"}
      BY <1>2, <1>4 DEF ClockInv, RingInv, Fresh, NoteRow
    <2>5. Settled(n)'
      BY <2>3, <2>4 DEF Settled, Live
    <2>6. \A m \in Notes \ {n} : Settled(m)' = Settled(m)
      BY <2>2 DEF Settled
    <2>7. Over' = Over \cup {n}
      BY <1>3, <1>4, <2>5, <2>6, OverNow, OverThen DEF Over
    <2>8. Dues' = Dues
      BY <2>2, <2>3 DEF Dues
    <2>9. QED
      BY <1>1, <1>6, <1>8, <2>1, <2>7, <2>8 DEF Clock!TickOff, Clock!Becomes, Dues
  <1>10. CASE MarkFails(n)
    <2>1. notes' = notes /\ mishaps' = mishaps + 1
      BY <1>10 DEF MarkFails
    <2>2. Over' = Over
      BY <1>3, <2>1, OverKept DEF Settled
    <2>3. QED
      BY <1>1, <1>6, <1>8, <2>1, <2>2 DEF Clock!TickFails, Clock!Becomes
  <1>11. QED
    BY <1>9, <1>10

LEMMA CrashClock ==
  ASSUME ClockInv, Crash
  PROVE  Clock!Outage
  <1>1. /\ at' = [s \in Senders |-> IF s = Worker THEN "rest"
                                    ELSE IF InDelivery(s) THEN "done" ELSE at[s]]
        /\ batch' = {} /\ mishaps' = mishaps + 1
        /\ UNCHANGED <<now, notes, rings>>
    BY DEF Crash
  <1>2. Worker \notin Notes /\ Worker \in Senders /\ Notes \subseteq Senders
    BY ReminderAssumption DEF Senders
  <1>3. ASSUME NEW n \in Notes
        PROVE  (at'[n] = "none") = (at[n] = "none") /\ ~Pending(n)'
    BY <1>1, <1>2 DEF InDelivery, Pending, ByWorker
  <1>4. ASSUME NEW n \in Notes
        PROVE  Stage'[n] = IF Stage[n] = "unset" THEN "unset" ELSE "quiet"
    BY <1>1, <1>3, StageNow, StageThen DEF StageIs
  <1>5. Stage' = [n \in Notes |-> IF Stage[n] = "unset" THEN "unset" ELSE "quiet"]
    BY <1>4, StageThen
  <1>6. Over' = Over
    BY <1>1, <1>3, OverKept DEF Settled
  <1>7. QED
    BY <1>1, <1>5, <1>6 DEF Clock!Outage

LEMMA DeliveredClock ==
  ASSUME ClockInv, NEW s \in Senders, Delivered(s)
  PROVE  UNCHANGED Clock!alarmVars
  <1>1. at[s] \in {"pushing", "announced"} /\ UNCHANGED <<now, notes, batch, rings, mishaps>>
    BY DEF Delivered, history
  <1>2. DOMAIN at = Senders /\ Worker \notin Notes /\ Worker \in Senders /\ Notes \subseteq Senders
    BY ReminderAssumption DEF ClockInv, RingInv, TypeInv, TypeOK, Senders
  <1>3. ASSUME NEW n \in Notes
        PROVE  (at'[n] = "none") = (at[n] = "none") /\ Pending(n)' = Pending(n)
    <2>1. CASE s = Worker
      BY <1>1, <1>2, <2>1 DEF Delivered, Goto, Pending, ByWorker
    <2>2. CASE s # Worker
      <3>1. at' = [at EXCEPT ![s] = "done"] /\ cur' = cur
        BY <2>2 DEF Delivered, Goto
      <3>2. QED
        BY <1>1, <1>2, <2>2, <3>1 DEF Pending, ByWorker
    <2>3. QED
      BY <2>1, <2>2
  <1>4. Stage' = Stage /\ Over' = Over
    BY <1>1, <1>3, StageKept, StagesKept, OverKept DEF Settled
  <1>5. QED
    BY <1>1, <1>4 DEF Clock!alarmVars

(* Deletions by hand and the purge.                                        *)
LEMMA DeletionClock ==
  ASSUME ClockInv,
         \/ Purge
         \/ \E n \in Notes : Delete(n)
         \/ \E u \in Users : ClearAll(u)
  PROVE  Clock!Cancel
  <1>1. notes \in [Notes -> NoteRow] /\ DOMAIN at = Senders /\ Notes \subseteq Senders
        /\ Worker \in Senders /\ Worker \notin Notes
    BY ReminderAssumption DEF ClockInv, RingInv, TypeInv, TypeOK, NoteRow, Senders
  <1>2. UNCHANGED <<now, cur, batch, rings, mishaps>>
    BY DEF Purge, Delete, ClearAll, worker, history
  <1>3. /\ \A n \in Notes : at'[n] = at[n]
        /\ (at'[Worker] = "marked") = (at[Worker] = "marked")
    BY <1>1 DEF Purge, Delete, ClearAll, Goto
  <1>4. \A n \in Notes : \/ notes'[n] = notes[n]
                         \/ notes'[n] = [notes[n] EXCEPT !.state = "deleted"]
    BY <1>1 DEF Purge, Delete, ClearAll
  <1>5. \A n \in Notes : /\ notes'[n].due = notes[n].due
                         /\ Settled(n) => Settled(n)'
    BY <1>1, <1>4 DEF NoteRow, Settled
  <1>6. \A n \in Notes : Pending(n)' = Pending(n)
    BY <1>2, <1>3 DEF Pending, ByWorker
  <1>7. Stage' = Stage
    BY <1>2, <1>3, <1>6, StageKept, StagesKept
  <1>8. Dues' = Dues
    BY <1>5 DEF Dues
  <1>9. Over \subseteq Over'
    BY <1>3, <1>5, OverNow, OverThen DEF Over
  <1>10. \A n \in Over' : n \in Notes /\ Stage[n] # "unset"
    <2>1. ASSUME NEW n \in Over' PROVE n \in Notes /\ Stage[n] # "unset"
      <3>1. n \in Notes /\ at[n] # "none"
        BY <1>3 DEF Over
      <3>2. QED
        BY <3>1, StageNow DEF StageIs
    <2>2. QED
      BY <2>1
  <1>11. QED
    BY <1>2, <1>7, <1>8, <1>9, <1>10 DEF Clock!Cancel, Dues

LEMMA StepClock ==
  ASSUME ClockInv, [Next]_vars
  PROVE  [Clock!AlarmNext]_(Clock!alarmVars)
  <1>1. CASE QuietStep
    BY <1>1, QuietClock DEF Clock!AlarmNext
  <1>2. ASSUME NEW n \in Notes, Create(n) PROVE Clock!AlarmNext
    BY <1>2, CreateClock DEF Clock!AlarmNext
  <1>3. ASSUME NEW s \in Senders, Announce(s) PROVE Clock!AlarmNext
    BY <1>3, AnnounceClock DEF Clock!AlarmNext
  <1>4. CASE Poll
    BY <1>4, PollClock DEF Clock!AlarmNext
  <1>5. ASSUME NEW n \in Notes, MarkFired(n) \/ MarkFails(n) PROVE Clock!AlarmNext
    BY <1>5, MarkClock DEF Clock!AlarmNext
  <1>6. CASE Crash
    BY <1>6, CrashClock DEF Clock!AlarmNext
  <1>7. ASSUME NEW s \in Senders, Delivered(s) PROVE UNCHANGED Clock!alarmVars
    BY <1>7, DeliveredClock
  <1>8. CASE Purge \/ (\E n \in Notes : Delete(n)) \/ (\E u \in Users : ClearAll(u))
    BY <1>8, DeletionClock DEF Clock!AlarmNext
  <1>9. QED
    BY <1>1, <1>2, <1>3, <1>4, <1>5, <1>6, <1>7, <1>8
       DEF Next, WorkerStep, DeliveryStep, QuietStep, Senders

(* The worker and the requests implement the alarm clock: rounds do not    *)
(* overlap, each calls every reminder that is due and no other, and what   *)
(* was ticked off or cancelled is not called again.                        *)
THEOREM ReminderImplementsAlarmClock == Spec => ImplementsAlarmClock
  <1>1. Spec => Clock!AlarmInit /\ [][Clock!AlarmNext]_(Clock!alarmVars)
    BY InitClock, StepClock, InitClockInv, NextClockInv, PTL DEF Spec
  <1>2. QED
    BY <1>1 DEF ImplementsAlarmClock, Clock!AlarmSpec
=============================================================================
