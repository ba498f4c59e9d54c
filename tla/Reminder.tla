-------------------------------- MODULE Reminder --------------------------------
(***************************************************************************)
(* Notifications, reminders and Web Push: workers/reminder.go and          *)
(* handlers/notifications.go.                                              *)
(*                                                                         *)
(* A notification with a time is a reminder: the worker polls for those    *)
(* that are due, marks each as fired, and delivers it. A notification      *)
(* without a time is delivered by the request that creates it. Delivery is *)
(* the same for both: a message to the open sockets of the user, then a    *)
(* push to each of the subscriptions of the user, one HTTP call after the  *)
(* other; the push service may answer that a subscription is gone, which   *)
(* is then deleted by its primary key.                                     *)
(*                                                                         *)
(* Each SQL statement and each call of the push service is an action. A    *)
(* crash ends the worker and the requests; the restart polls again.        *)
(*                                                                         *)
(* Abstractions: a notification is named by the request that creates it;   *)
(* an endpoint is made by one browser, whose requests follow one another;  *)
(* the flag "read" is left out, for nothing else looks at it; the keys for *)
(* pushing are configured.                                                 *)
(***************************************************************************)
EXTENDS Naturals, FiniteSets

CONSTANTS
  Notes,       (* the notifications of a behaviour                            *)
  NoNote,
  Owner,       (* the user each one is for                                    *)
  Endpoints,   (* push endpoints, one per browser                             *)
  Users,
  Nobody,      (* the owner of an endpoint without a subscription             *)
  Worker,      (* the reminder worker                                         *)
  Never,       (* the time NULL                                               *)
  Plans,       (* the times <<scheduled_at, expires_at>> each one may have    *)
  MaxTime,     (* bound on the clock                                          *)
  MaxRows,     (* bound on the subscriptions an endpoint gets in turn         *)
  MaxMishaps   (* bound on the crashes and the failing updates of the worker  *)

Times == 0..MaxTime \cup {Never}

ASSUME ReminderAssumption ==
  /\ Notes # {} /\ Owner \in [Notes -> Users] /\ Nobody \notin Users
  /\ Worker \notin Notes /\ NoNote \notin Notes
  /\ Never \notin Nat /\ Plans \in [Notes -> SUBSET (Times \X Times)]
  /\ MaxTime \in Nat /\ MaxRows \in Nat /\ MaxMishaps \in Nat

Senders == Notes \cup {Worker}

(* A row of notifications, and a row of push_subscriptions: row counts the *)
(* inserts for the endpoint, and so names the primary key.                 *)
Absent == [state |-> "none", due |-> Never, expires |-> Never, fired |-> FALSE]
Note(due, expires) == [state |-> "live", due |-> due, expires |-> expires, fired |-> FALSE]

VARIABLES
  now,         (* the clock                                                   *)
  notes,       (* the table notifications                                     *)
  subs,        (* the table push_subscriptions                                *)
  at,          (* how far the worker, or the request of a note, is            *)
  cur,         (* the reminder the worker delivers                            *)
  batch,       (* the reminders of the poll that are left                     *)
  todo,        (* the subscriptions each sender has loaded and not called yet *)
  asking,      (* the Subscribe request of each browser                       *)
  rings,       (* history: how often each note was announced                  *)
  misses,      (* history: how often the update of "fired" failed             *)
  cleared,     (* history: the notes that were deleted before this round      *)
  held, tried, (* history: of a delivery, the endpoints the user has held     *)
               (* since the announcement, and those called                    *)
  interrupted, (* history: the notes under way in a crash                     *)
  mishaps      (* the crashes and failing updates so far                      *)

worker == <<cur, batch>>
history == <<rings, misses, cleared, interrupted, mishaps>>
delivery == <<held, tried>>
vars == <<now, notes, subs, at, worker, todo, asking, history, delivery>>

Init ==
  /\ now = 0
  /\ notes = [n \in Notes |-> Absent]
  /\ subs = [e \in Endpoints |-> [owner |-> Nobody, row |-> 0]]
  /\ at = [s \in Senders |-> IF s = Worker THEN "rest" ELSE "none"]
  /\ cur = NoNote /\ batch = {}
  /\ todo = [s \in Senders |-> {}]
  /\ asking = [e \in Endpoints |-> [user |-> Nobody, found |-> FALSE]]
  /\ rings = [n \in Notes |-> 0] /\ misses = [n \in Notes |-> 0]
  /\ cleared = {} /\ interrupted = {} /\ mishaps = 0
  /\ held = [s \in Senders |-> {}] /\ tried = [s \in Senders |-> {}]

Live(n) == notes[n].state = "live"
Current(s) == IF s = Worker THEN cur ELSE s
Goto(s, l) == at' = [at EXCEPT ![s] = l]

-----------------------------------------------------------------------------
(* The requests on notifications.                                          *)

(* Create: the INSERT. Without a time the request delivers the note.       *)
Create(n) ==
  /\ at[n] = "none"
  /\ \E plan \in Plans[n] :
       /\ notes' = [notes EXCEPT ![n] = Note(plan[1], plan[2])]
       /\ Goto(n, IF plan[1] = Never THEN "marked" ELSE "done")
  /\ UNCHANGED <<now, subs, worker, todo, asking, history, delivery>>

(* Delete and ClearAll.                                                    *)
Delete(n) ==
  /\ Live(n)
  /\ notes' = [notes EXCEPT ![n].state = "deleted"]
  /\ UNCHANGED <<now, subs, at, worker, todo, asking, history, delivery>>

ClearAll(u) ==
  /\ \E n \in Notes : Live(n) /\ Owner[n] = u
  /\ notes' = [n \in Notes |-> IF Live(n) /\ Owner[n] = u
                               THEN [notes[n] EXCEPT !.state = "deleted"] ELSE notes[n]]
  /\ UNCHANGED <<now, subs, at, worker, todo, asking, history, delivery>>

-----------------------------------------------------------------------------
(* Delivery, by the worker or by the request that created the note: deliver*)
(* and sendPush.                                                           *)

(* SendToUser. Who is offline or slow does not get the message.            *)
Announce(s) ==
  /\ at[s] = "marked"
  /\ rings' = [rings EXCEPT ![Current(s)] = @ + 1]
  /\ held' = [held EXCEPT ![s] = {e \in Endpoints : subs[e].owner = Owner[Current(s)]}]
  /\ tried' = [tried EXCEPT ![s] = {}]
  /\ Goto(s, "announced")
  /\ UNCHANGED <<now, notes, subs, worker, todo, asking, misses, cleared, interrupted,
                 mishaps>>

LoadSubscriptions(s) ==
  /\ at[s] = "announced"
  /\ todo' = [todo EXCEPT ![s] = {<<e, subs[e].row>> :
                e \in {x \in Endpoints : subs[x].owner = Owner[Current(s)]}}]
  /\ Goto(s, "pushing")
  /\ UNCHANGED <<now, notes, subs, worker, asking, history, delivery>>

(* Mutant: the first failing call ends the loop.                           *)
PushStops(s, p) ==
  /\ at[s] = "pushing" /\ p \in todo[s]
  /\ tried' = [tried EXCEPT ![s] = @ \cup {p[1]}]
  /\ todo' = [todo EXCEPT ![s] = {}]
  /\ UNCHANGED <<now, notes, subs, at, worker, asking, history, held>>

(* A call of the push service that is accepted, or fails and is logged.    *)
Push(s, p) ==
  /\ at[s] = "pushing" /\ p \in todo[s]
  /\ tried' = [tried EXCEPT ![s] = @ \cup {p[1]}]
  /\ todo' = [todo EXCEPT ![s] = @ \ {p}]
  /\ UNCHANGED <<now, notes, subs, at, worker, asking, history, held>>

(* The push service answers 404 or 410.                                    *)
PushGone(s, p) ==
  /\ at[s] = "pushing" /\ p \in todo[s]
  /\ tried' = [tried EXCEPT ![s] = @ \cup {p[1]}]
  /\ Goto(s, "gone")
  /\ UNCHANGED <<now, notes, subs, worker, todo, asking, history, held>>

(* An endpoint changes hands: no delivery has held it all the time.        *)
Released(e) == held' = [s \in Senders |-> held[s] \ {e}]

(* The DELETE by primary key, which finds no row or fails as well: the     *)
(* error is ignored and the loop goes on.                                  *)
Prune(s, p) ==
  /\ at[s] = "gone" /\ p \in todo[s] /\ p[1] \in tried[s]
  /\ \/ /\ subs[p[1]].row = p[2]
        /\ subs' = [subs EXCEPT ![p[1]].owner = Nobody] /\ Released(p[1])
     \/ UNCHANGED <<subs, held>>
  /\ todo' = [todo EXCEPT ![s] = @ \ {p}]
  /\ Goto(s, "pushing")
  /\ UNCHANGED <<now, notes, worker, asking, history, tried>>

(* The list is at its end: the request answers, the worker goes on to the  *)
(* next reminder. The error of the query for the list is ignored, too: the *)
(* list is then empty, and the delivery ends without a push.               *)
Delivered(s) ==
  /\ (at[s] = "pushing" /\ todo[s] = {}) \/ at[s] = "announced"
  /\ IF s = Worker THEN Goto(s, "firing") /\ cur' = NoNote
                   ELSE Goto(s, "done") /\ UNCHANGED cur
  /\ held' = [held EXCEPT ![s] = {}] /\ tried' = [tried EXCEPT ![s] = {}]
  /\ UNCHANGED <<now, notes, subs, batch, todo, asking, history>>

-----------------------------------------------------------------------------
(* fireReminders.                                                          *)

Due(n) == Live(n) /\ notes[n].due # Never /\ notes[n].due <= now /\ ~notes[n].fired

(* Mutant: the query also finds notifications that were deleted.           *)
PollUnscoped ==
  /\ at[Worker] = "rest"
  /\ batch' = {n \in Notes : notes[n].due # Never /\ notes[n].due <= now
                             /\ ~notes[n].fired}
  /\ cleared' = {n \in Notes : notes[n].state = "deleted"}
  /\ Goto(Worker, "firing")
  /\ UNCHANGED <<now, notes, subs, cur, todo, asking, rings, misses, interrupted, mishaps,
                 delivery>>

(* Mutant: all reminders of the poll are marked at once.                   *)
PollMarks ==
  /\ at[Worker] = "rest"
  /\ batch' = {n \in Notes : Due(n)}
  /\ notes' = [n \in Notes |-> IF Due(n) THEN [notes[n] EXCEPT !.fired = TRUE]
                               ELSE notes[n]]
  /\ cleared' = {n \in Notes : notes[n].state = "deleted"}
  /\ Goto(Worker, "firing")
  /\ UNCHANGED <<now, subs, cur, todo, asking, rings, misses, interrupted, mishaps,
                 delivery>>

(* Mutant: the query returns one reminder at a time.                       *)
PollOne ==
  /\ at[Worker] = "rest"
  /\ \E n \in Notes : Due(n)
  /\ batch' = {CHOOSE n \in Notes : Due(n)}
  /\ cleared' = {n \in Notes : notes[n].state = "deleted"}
  /\ Goto(Worker, "firing")
  /\ UNCHANGED <<now, notes, subs, cur, todo, asking, rings, misses, interrupted, mishaps,
                 delivery>>

Poll ==
  /\ at[Worker] = "rest"
  /\ batch' = {n \in Notes : Due(n)}
  /\ cleared' = {n \in Notes : notes[n].state = "deleted"}
  /\ Goto(Worker, "firing")
  /\ UNCHANGED <<now, notes, subs, cur, todo, asking, rings, misses, interrupted, mishaps,
                 delivery>>

(* Mutant: the flag is not stored.                                         *)
MarkFiredForgets(n) ==
  /\ at[Worker] = "firing" /\ n \in batch
  /\ cur' = n /\ batch' = batch \ {n}
  /\ Goto(Worker, "marked")
  /\ UNCHANGED <<now, notes, subs, todo, asking, history, delivery>>

(* The UPDATE of the next reminder, which finds no row when the reminder   *)
(* was deleted after the poll.                                             *)
MarkFired(n) ==
  /\ at[Worker] = "firing" /\ n \in batch
  /\ cur' = n /\ batch' = batch \ {n}
  /\ notes' = [notes EXCEPT ![n].fired = @ \/ Live(n)]
  /\ Goto(Worker, "marked")
  /\ UNCHANGED <<now, subs, todo, asking, history, delivery>>

(* The UPDATE fails, which the worker does not look at. Bound: MaxMishaps  *)
(* such failures and crashes together.                                     *)
MarkFails(n) ==
  /\ at[Worker] = "firing" /\ n \in batch /\ mishaps < MaxMishaps
  /\ cur' = n /\ batch' = batch \ {n}
  /\ misses' = [misses EXCEPT ![n] = @ + 1] /\ mishaps' = mishaps + 1
  /\ Goto(Worker, "marked")
  /\ UNCHANGED <<now, notes, subs, todo, asking, rings, cleared, interrupted, delivery>>

(* The DELETE of what has expired ends the round.                          *)
Purge ==
  /\ at[Worker] = "firing" /\ batch = {}
  /\ notes' = [n \in Notes |->
                 IF Live(n) /\ notes[n].expires # Never /\ notes[n].expires < now
                 THEN [notes[n] EXCEPT !.state = "deleted"] ELSE notes[n]]
  /\ Goto(Worker, "rest")
  /\ cleared' = {}
  /\ UNCHANGED <<now, subs, worker, todo, asking, rings, misses, interrupted, mishaps,
                 delivery>>

-----------------------------------------------------------------------------
(* Subscribe and Unsubscribe.                                              *)

(* FirstOrCreate looks for the endpoint. Bound: MaxRows inserts.           *)
SubscribeFind(u, e) ==
  /\ asking[e].user = Nobody
  /\ subs[e].owner # Nobody \/ subs[e].row < MaxRows
  /\ asking' = [asking EXCEPT ![e] = [user |-> u, found |-> subs[e].owner # Nobody]]
  /\ UNCHANGED <<now, notes, subs, at, worker, todo, history, delivery>>

(* The INSERT, or the UPDATE, which finds no row when it was deleted in    *)
(* between.                                                                *)
SubscribeWrite(e) ==
  /\ asking[e].user # Nobody
  /\ IF ~asking[e].found
     THEN subs' = [subs EXCEPT ![e] = [owner |-> asking[e].user, row |-> @.row + 1]]
     ELSE subs' = [subs EXCEPT ![e].owner = IF @ = Nobody THEN @ ELSE asking[e].user]
  /\ asking' = [asking EXCEPT ![e] = [user |-> Nobody, found |-> FALSE]]
  /\ IF subs'[e].owner = subs[e].owner THEN UNCHANGED held ELSE Released(e)
  /\ UNCHANGED <<now, notes, at, worker, todo, history, tried>>

Unsubscribe(u, e) ==
  /\ asking[e].user = Nobody /\ subs[e].owner = u
  /\ subs' = [subs EXCEPT ![e].owner = Nobody]
  /\ Released(e)
  /\ UNCHANGED <<now, notes, at, worker, todo, asking, history, tried>>

-----------------------------------------------------------------------------
(* Bound: the clock stops at MaxTime.                                      *)
Tick ==
  /\ now < MaxTime
  /\ now' = now + 1
  /\ UNCHANGED <<notes, subs, at, worker, todo, asking, history, delivery>>

InDelivery(s) == at[s] \in {"marked", "announced", "pushing", "gone"}

(* The process ends and starts again.                                      *)
Crash ==
  /\ mishaps < MaxMishaps
  /\ mishaps' = mishaps + 1
  /\ interrupted' = interrupted \cup {Current(s) : s \in {x \in Senders : InDelivery(x)}}
  /\ at' = [s \in Senders |-> IF s = Worker THEN "rest"
                              ELSE IF InDelivery(s) THEN "done" ELSE at[s]]
  /\ cur' = NoNote /\ batch' = {} /\ cleared' = {}
  /\ todo' = [s \in Senders |-> {}]
  /\ asking' = [e \in Endpoints |-> [user |-> Nobody, found |-> FALSE]]
  /\ held' = [s \in Senders |-> {}] /\ tried' = [s \in Senders |-> {}]
  /\ UNCHANGED <<now, notes, subs, rings, misses>>

-----------------------------------------------------------------------------
DeliveryStep(s) ==
  \/ Announce(s) \/ LoadSubscriptions(s) \/ Delivered(s)
  \/ \E p \in todo[s] : Push(s, p) \/ PushGone(s, p) \/ Prune(s, p)

WorkerStep ==
  \/ Poll \/ Purge \/ DeliveryStep(Worker)
  \/ \E n \in Notes : MarkFired(n) \/ MarkFails(n)

Next ==
  \/ \E n \in Notes : Create(n) \/ Delete(n) \/ DeliveryStep(n)
  \/ \E u \in Users : ClearAll(u)
  \/ WorkerStep
  \/ \E u \in Users, e \in Endpoints : SubscribeFind(u, e) \/ Unsubscribe(u, e)
  \/ \E e \in Endpoints : SubscribeWrite(e)
  \/ Tick \/ Crash

Spec == Init /\ [][Next]_vars

(* The worker polls every 30 seconds, and its calls return. Nobody has to  *)
(* make a request, and the clock may stand still. (Each of its steps       *)
(* changes where the worker is or what is on its list.)                    *)
FairSpec == Spec /\ WF_<<at, todo>>(WorkerStep)
-----------------------------------------------------------------------------
(* Properties.                                                             *)

TypeOK ==
  /\ now \in 0..MaxTime
  /\ notes \in [Notes -> [state : {"none", "live", "deleted"}, due : Times,
                          expires : Times, fired : BOOLEAN]]
  /\ subs \in [Endpoints -> [owner : Users \cup {Nobody}, row : 0..MaxRows]]
  /\ at \in [Senders -> {"rest", "none", "firing", "marked", "announced", "pushing", "gone",
                         "done"}]
  /\ cur \in Notes \cup {NoNote} /\ batch \subseteq Notes
  /\ todo \in [Senders -> SUBSET (Endpoints \X (1..MaxRows))]
  /\ asking \in [Endpoints -> [user : Users \cup {Nobody}, found : BOOLEAN]]
  /\ rings \in [Notes -> Nat] /\ misses \in [Notes -> 0..MaxMishaps]
  /\ cleared \subseteq Notes /\ interrupted \subseteq Notes
  /\ held \in [Senders -> SUBSET Endpoints] /\ tried \in [Senders -> SUBSET Endpoints]
  /\ mishaps \in 0..MaxMishaps

(* A reminder rings once, across polls and restarts, and once more for     *)
(* each update of its flag that fails.                                     *)
RingsOnce == TypeOK /\ \A n \in Notes : rings[n] <= 1 + misses[n]

(* A reminder is marked as fired without having rung only while the worker *)
(* is on it, or when a crash struck just then.                             *)
LostOnlyInCrash ==
  \A n \in Notes :
    notes[n].fired /\ rings[n] = 0 =>
      n \in interrupted \/ (at[Worker] = "marked" /\ cur = n)

(* A reminder that was deleted before the poll stays silent during the     *)
(* whole round, however long the pushes of the others take.                *)
ClearedStaysSilent ==
  [][\A n \in cleared : notes[n].due # Never => rings'[n] = rings[n]]_vars

(* Due to be announced next, by the worker or by the request itself.       *)
Ringing(n) == at[n] = "marked" \/ (at[Worker] = "marked" /\ cur = n)

(* No later poll finds these.                                              *)
Over == {n \in Notes : at[n] # "none" /\
           (notes[n].due = Never \/ notes[n].fired \/ notes[n].state = "deleted")}

(* Set, on the list of the poll, or ringing.                               *)
Stage == [n \in Notes |-> CASE at[n] = "none" -> "unset"
                             [] at[n] # "none" /\ Ringing(n) -> "ringing"
                             [] at[n] # "none" /\ ~Ringing(n) ->
                                  IF n \in batch THEN "called" ELSE "quiet"]

Clock == INSTANCE AlarmClock WITH
  Alarms <- Notes, clock <- now, due <- [n \in Notes |-> notes[n].due],
  stage <- Stage, over <- Over, faults <- mishaps

(* Polls, marks, deletions, deliveries, failing updates and restarts       *)
(* together are the rounds of AlarmClock: each round of fireReminders      *)
(* calls every reminder that is due and no other, and marks it before it   *)
(* rings.  A deletion cancels, a crash is an outage.                       *)
ImplementsAlarmClock == Clock!AlarmSpec

(* When the loop over the subscriptions ends, every endpoint that the user *)
(* has held since the announcement has been called, whatever the calls to  *)
(* the others gave. Only a delivery whose query of the subscriptions fails *)
(* has no such loop, and pushes to nobody.                                 *)
EveryDeviceTried ==
  \A s \in Senders : at[s] = "pushing" /\ todo[s] = {} => held[s] \subseteq tried[s]

(* A reminder that is due rings, unless it is deleted or expires first, or *)
(* a crash strikes between its mark and the announcement.                  *)
DueRings ==
  \A n \in Notes : Due(n) ~> (rings[n] > 0 \/ ~Live(n) \/ n \in interrupted)
=============================================================================
