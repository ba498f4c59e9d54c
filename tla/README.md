# A verification project for jarvisHomeAssist-brain

`jarvisHomeAssist-brain` is the Go backend of a home assistant: a Gin HTTP
server over PostgreSQL (through GORM), with server-sent events, a WebSocket
chat, background workers and clients for smart lamps and the home router. This
directory holds TLA+ models of it, the TLC configurations that check them on
small instances, and proofs checked by TLAPS. Every definition is translated
from the Go source; `PROJECT.json` names the lines each one stands for.

## 1. Inventory

The process is one Go program. Each HTTP request runs in a goroutine of its
own; there are also long-running goroutines (the extraction worker, the
reminder worker, the status ticker, the WebSocket hub and two pumps per
connection) and short ones started by handlers (previews, pushes, AI replies).
They share the database, the disk, and a few structures in memory. Nearly no
handler uses a transaction: a handler is a sequence of SQL statements, between
which anything else may happen. `db.Save` writes every column of the copy read
earlier, and inserts the row again when it has disappeared. These two facts are
behind most of the hazards.

| Component (source) | State | Operations | Hard behaviour | What makes it correct |
|---|---|---|---|---|
| Bill pipeline (`handlers/bills.go`, `workers/extraction.go`, `bills/store.go`, `bills/notify.go`) | `utility_bills` with children, PDFs on disk, alert ledger, job channel of 64 | upload, manual entry, re-extract, update, mark-paid, soft/hard delete; one worker | statements interleave; full-row saves of stale copies; full queue; failing calls; restart | one row per file; children and PDF go with their row; each alert once; every bill leaves "processing" |
| Extraction decision (`bills/extract.go`) | none | text path, vision path, thresholds | soft and hard failures | status follows from the stages |
| Alert rules (`bills/triggers.go`) | none | `EvaluateTriggers`, `PeriodKey` | truncation of days, ties at limits | one trigger per situation |
| SSE hub (`sse/hub.go`, `handlers/sse.go`, `status.go`) | set of clients, a buffer of 64 each | subscribe, unsubscribe, broadcast | closing a channel while others send; slow clients | no send on a closed channel, order per sender, loss only by a full buffer |
| WebSocket hub (`ws/hub.go`) | clients with rooms, a buffer of 256 each | register, unregister, broadcast to room, all, user; two pumps | rooms fixed at connect; close once | members of a room hear it |
| Chat (`handlers/chat.go`) | rooms, messages, receipts, tickets | create room, send, edit, delete, seen, clear, AI reply | check-then-create, edit against delete, late previews and receipts, 3 AI slots | one direct room per user, receipts move forward, deleted stays deleted |
| Login and refresh tokens (`handlers/auth.go`, `middleware/jwt.go`) | hash of the current access token per user, a row per refresh token | login, PIN login, refresh, logout, password reset | read then rotate; alarm on reuse; errors nobody looks at; lost answers | a spent token gives no session, a fresh pair works, the alarm has a cause |
| User administration (`handlers/admin_users.go`) | users, audit log | create, update, lock, revoke, delete, restore, purge, PIN, reset mail | saves of stale copies overlap with column updates and logins | each column keeps what was last meant for it |
| Notifications, reminders (`handlers/notifications.go`, `workers/reminder.go`) | notifications, push subscriptions | create, schedule, fire, read, clear, purge | fired before delivered; purge at expiry; restart | each reminder delivered once |
| Announcements (`handlers/announcements.go`) | announcements, receipts | create, update, delete, mark read | find-or-create without a unique index | one receipt per user |
| Energy and budgets (`handlers/energy.go`, `utility_budgets.go`) | readings, rates, budgets | record, batch, upsert | two upserts of one table with different keys | one budget per month and property |
| Debt engine (`debt/engine.go`) | none | simulate avalanche and snowball | rounding, non-convergence | balances fall to zero, interest is never negative |
| Router client, network info (`router/sagemcom.go`, `handlers/netinfo.go`) | session, request counter, nonce; cached lists | login, hosts, set value, block, logout; refresh | a client that is not safe for concurrent use; refresh outside the lock | sessions are closed, requests are accepted, the cache is recent |
| Smart devices, WiFi (`handlers/devices.go`, `wifi.go`, `wiz/client.go`) | rows, UDP to lamps | create, control, poll, probe, update, toggle, delete | a row is saved whole after a call of two seconds; lost datagrams; failing saves | edits survive, the row says what the lamp does, screens show the row |
| Settings, seeds, backfill (`handlers/settings.go`, `seed.go`, `perms_backfill.go`) | settings, permissions | update, seed, backfill once | the flag of the backfill may not be stored | the backfill runs once |
| Logger (`logger/logger.go`) | log file, subscribers | write, subscribe, page | as the SSE hub | pages cover the file once |
| Rate limiter, AI usage, resume, properties, profile, preferences, vision client, PDF parser, configuration | rows or none | | pure I/O, single-row CRUD, string work | |

How they interact: handlers call the SSE hub after their statements; upload and
re-extract send jobs to the extraction worker through the job channel; the
worker reads and writes the rows of the handlers, broadcasts through the SSE
hub and uses the alert ledger; chat and notifications call the WebSocket hub;
the JWT middleware reads the user row that login and user administration write.

## 2. Plan

In the order of importance; a module is written so that it can be proved about
(constants with named assumptions, one action per statement, no `RECURSIVE`).

1. `BillPipeline` with `ExtractOutcome`, `BillPipelineProofs`; `BillArchive`, the
   archive the pipeline keeps (done, section 3).
2. `EventFeed`, `SseHub`, `SseHubProofs`: an abstract lossy feed per client, the
   hub with its lock shown to implement it (done, section 4). `WsHub`: rooms and
   pumps, with `WsHubProofs` (done, section 5).
3. `Chat`: messages, receipts, previews, AI slots, with `ChatProofs` (done,
   section 6; direct rooms and tickets are left).
4. `Reminder`: reminders, notifications and web push, with crashes between
   "fired" and delivery, with `ReminderProofs`; `AlarmClock`, what a user is
   promised (done, section 7).
5. `DebtEngine`: the simulations of the planner, month by month (done, section 8).
6. `Session`: login, refresh and administration over the user row and the token
   rows, with `SessionProofs` (done, section 9).
7. `RouterNet`: the shared router session and the cached lists, with
   `RouterNetProofs` (done, section 10). `Devices`: stored state against what the
   lamp does, probe against control, events against rows; WiFi networks; with
   `DevicesProofs` (done, section 11).
8. Models left: the creation of direct rooms and the tickets of a chat
   connection; announcements; the backfill of permissions; log pages.

## 3. The bill pipeline

### Modules

* `BillPipeline` – the handlers of `handlers/bills.go`, the worker of
  `workers/extraction.go`, the PDF store and the alert ledger.
* `ExtractOutcome` – `Extractor.Extract` as a function of what its stages find;
  its range gives the outcomes the worker can meet.
* `MCBillPipeline` – the model values, trigger lists and request kinds of the
  runs, and the symmetry of requests.
* `BillArchive` – what the pipeline promises as an archive, with neither requests
  nor queue nor worker: an id is given to one file and stands for it for ever, no
  two kept ids for the same one; papers (line items, meters) are filed only with a
  bill that is shown; to discard a bill takes its papers and its claims on notices
  with it in one step; a notice sounds once per claim.
* `BillPipelineProofs` – the theorems.

### State and actions

`rows`, `kids`, `pdf`, `ledger`, `nextId` are the table `utility_bills`, its
children, the files on disk, the table `utility_bill_notifications` and the
sequence of ids. `queue` is the channel made in `main.go`. `wpc`, `wjob`,
`wcopy`, `wres`, `wtodo` are the local state of `runOne`; `op`, `pc`, `rid`,
`copy`, `code` those of the requests. `fired`, `purged` and `crashes` are
history. A row keeps what the properties tell apart: live, soft-deleted or
absent; its file; status; whether it names a PDF; whether a payment is
recorded; who wrote the amounts last.

Each SQL statement, store call or channel operation is an action: for example
`Upload` is `UploadCheck`, then `UploadCreate` or `UploadRestore`,
`UploadWipe`, `UploadReload`, then `UploadPut`, `UploadSave`, `UploadEnqueue`
and, for a full queue, `UploadFull`. `SaveRow` is `gorm.DB.Save`: all columns,
and an insert when the row is gone. `KeyFree` is the unique index over property
and file hash, which sees soft-deleted rows. A statement that the database
refuses leads to the handler's own error path. `RequestFault`, `PutFault` and
`WorkerFault` let any call fail; `Crash` empties everything that is in memory.

Abstractions: all bills belong to one property and one statement month (the
case in which they share alert keys and the unique index); the broadcasts other
than alerts are left out; a hard delete's transaction is one action, as is the
persist transaction of the worker, which replaces line items and meters by what was
parsed, possibly by none (`ReplaceKids`). `kids` tells only whether a bill has
any; `UploadWipe` stands for the two `DELETE` statements of a restore
(bills.go:122, 126), between which nothing else is distinguished.

### Runs

| Run | Instance | Shows |
|---|---|---|
| `bills_interleaved` | 3 requests of any kind, 1 file, queue of 1, no faults | `TypeOK`, `OneRowPerFile`, `NoOrphanChildren`, `AlertAtMostOnce` |
| `bills_faults` | 2 requests, 2 files, any call fails, 1 restart | `PdfLostOnlyByHardDelete`, `StrandedOnlyByKnownSteps` through partial failures and a restart, `ImplementsArchive` (refinement of `BillArchive`) |
| `bills_settle` | 3 uploads, re-extracts, restores or soft deletes, room in the queue, fairness | `ProcessingSettles` |

Bounds: three requests suffice for two handlers and a third that prepares their
state (the table may also hold a settled bill at the start); one file makes
every pair of requests compete; a queue of one is full after one job. A request
is served once, so `Requests` bounds the number of calls. `MaxBills` only stops
the creation of rows beyond the number of requests.

The steps that strand a bill in "processing" are listed in `StrandingStep`; the
run `bills_faults` shows there are no others. Two of them surprise: `MarkPaidSave`, which
writes back the status it read before the worker was done, and `ReextractFull`,
which leaves "processing" behind when the channel is full. `AlertAtMostOnce`
allows one more for each hard delete of the bill that owns the ledger row:
deleting that bill lets the alert of the month sound again for the next one.

`ImplementsArchive` reads the archive off the pipeline: `Shelf` is the state of each
row, `FileOf` the file of any version of a bill, in the table or in a request (a
request that has ended keeps its copy, so a discarded id still has one), the ledger
rows are the claims, and a notice is to sound while the worker is between
`WorkerInsertAlert` and `WorkerSendAlert`. What the archive forbids is what full-row
saves put at risk: an id that changes its file, a save that brings a file in twice,
a deletion whose parts can be told apart. What it allows, because the code does it,
is that a discarded bill is put back by a save of an older copy (`Put`), and that a
write of a bill leaves its papers, files some or takes them out: an extraction by the
vision model may replace the line items by none.

`PdfLostOnlyByHardDelete` accuses a hard delete of that file that was answered with
success (204), not one whose transaction failed.

Two more facts the model shows, on which no run is spent: a hard delete that has
been answered is undone when a full-row save of an older copy follows
(bills.go:475 says that it removes row, children and PDF), and the second manual entry of a
property is refused, because the unique index (utility_bill.go:10) sees the same
empty hash twice.

### Fairness

`FairSpec` assumes weak fairness of the worker, whose loop in
`RunExtractionWorker` takes the next job whenever there is one, and of the next
step of each request that has arrived: goroutines are scheduled, statements
return. Nobody is obliged to send a request, and neither faults nor crashes are
fair. Liveness is checked without symmetry.

### Theorems

`BillPipelineProofs` proves for every set of requests and files, every queue
capacity, bound of rows, list of alerts and with all faults and restarts:

* `TypeCorrect` – `Spec => []TypeOK`.
* `OneRowPerFileHolds`, `NoOrphanChildrenHolds`, `AlertAtMostOnceHolds`.

The only assumption is `BillAssumption` on the constants. The inductive
invariant `BillInv` adds to the properties: `RequestIds` and `WorkerId` (a
handler past its first step and a worker with a job hold a real id; the row an
upload inserts is live; the worker sends only while triggers are left), which
the types need, and `AlertsCovered`, which counts the alert under way:
`AlertAtMostOnce` alone is not inductive, since it says nothing of a ledger row
whose broadcast is still to come. The argument for rows: every statement
except the hard delete either leaves the table alone or writes one row whose
file no other row has (`RowsKept`), so rows stay apart and none disappears
(`WritesKeep`); the hard delete removes a row with its children.

* `PdfLostOnlyByHardDeleteHolds` – a property of rows, yet a stale copy in a
  request or in the worker may be saved over the row at any time. `Held(F)` says
  that every version of a bill, in the table, in a request or in the worker, has a
  property `F`; a statement only moves versions about, so `Held` is kept by each
  step that makes no new one. `PdfInv` holds `F` to "a version that names its
  PDF finds it on disk, or a hard delete of that file is done".
* `StrandedOnlyByKnownStepsHolds` – an action property. Whatever handles a bill in
  "processing" hands it on: the bill is in a request, in the queue or in the
  worker after the step as well (`Handed`, and one lemma for each of the ways it
  goes), or the step is one of `StrandingStep`. It needs that a bill has one key
  for life in all its versions (`KeysFixed`, with `Held` again) and that the copy
  saved after a full queue carries "failed" (`FullFails`).

* `PipelineKeepsArchive` – `Spec => ImplementsArchive`. The step proof needs that
  `FileOf` changes only when an id is given out. `KeysStep` carries the key function of
  `KeysFixed` over a step and lets it grow at an insert; `Known` says that an id that
  is out has a version somewhere, so that `FileOf` is this function (`FileIs`); and
  `Known` in turn needs `Unborn`, that a request gets its id but once: a hard delete
  leaves the version its own request holds. `Versions` then says that every copy that
  is saved has the file of its id, and each statement is one action of the archive
  or none of it.

`ProcessingSettles` is a liveness property, which the prover does not handle.

## 4. The event hub

* `EventFeed` is the promise, with no hub and no lock: a subscriber is offered
  the events of each sender once and in order, and loses one only when `BufCap`
  events wait for it.
* `SseHub` is `sse/hub.go` with the stream handler and the status ticker.
  `clients`, `buf` and `closed` are the map of the hub and its channels;
  `writer` and `readers` are the `sync.RWMutex`, in Go's way: a goroutine that
  waits for the write lock holds back new readers (`Announce` is the call of
  `Lock`, `Subscribe` and `Unsubscribe` run once the readers are gone). A
  broadcast is `Begin`, one `Send` per client in any order (a Go map), and
  `Finish`.
* `MCSseHub` holds the model values, `SseHubProofs` the theorems.

| Run | Instance | Shows |
|---|---|---|
| `sse_hub` | 2 streams, the ticker with 2 events and one more sender with 1, buffers of 2, fairness | `NoPanic`, `ImplementsFeed` (refinement of `EventFeed`), `BroadcastsEnd`, `EndedStreamsLeave` |

Bounds: the broadcasts of two senders overlap and overtake each other, two
events of one sender have an order, and three events fill a buffer of two; two streams let one leave while the other is served; `MaxEvents` only
bounds the counters. Fairness: the loop of a broadcast and a handler that waits
for a free lock go on; nobody has to read, subscribe or leave.

`SseHubProofs` proves, for any clients, senders, buffer and number of events,
from `SseAssumption` alone: `HubTypeCorrect` (`Spec => []TypeOK`, with the bound
on the buffers), `NoPanicHolds`, and `HubImplementsFeed` (`Spec =>
ImplementsFeed`). The inductive invariant `HubInv` adds that a sender in its
loop holds the read lock and visits only clients of the hub, and that a client
of the hub has an open channel: `NoPanic` alone says nothing about a close that
is about to happen. Each step then maps to a step of the feed or to a stutter
(`StepFeed`). That each sender's events arrive in order, with losses only by a
full buffer, is what `EventFeed` says and `ImplementsFeed` carries over.
`BroadcastsEnd` and `EndedStreamsLeave` are liveness and stay with TLC.

## 5. The delivery of chat messages

`WsHub` is `ws/hub.go` with its run loop and pumps, and the code of
`handlers/chat.go` around a message: the `WebSocket` handler (`Connect`),
`CreateRoom`, `SendMessage` (the insert and the begin of the broadcast), the
broadcast, and the goroutine `notifyOfflineUsers`. The lock is modelled as Go has
it. Broadcasts share the read lock (ws/hub.go:97), so they overlap, client by
client: `Send` is one visit of the loop, `Finish` the `RUnlock`, and two clients may
get two overlapping messages in opposite orders. The run loop takes one connection
at a time (`TakeRegister`, `TakeUnregister`) and changes the map when the readers are
gone (`Add`, `Remove`); while it waits, no new reader gets in (`WriterWaits`).

`dropped`, `aim`, `prior` and `late` are history: what a full channel refused, the
connections a message was broadcast to, the messages whose broadcast was over when
that of a message began, and the users who joined the clients of the room between a
broadcast and its check. `ShownInOrder` says with `InOrder(k)` that what a live client
was shown, followed by what waits for it, has no repeats and nothing of a foreign
room, keeps the order of broadcasts that did not overlap, and misses of what was sent
to it only what its full channel refused.

| Run | Instance | Shows |
|---|---|---|
| `ws_delivery` | 2 users with a connection each, of which one may break, 2 messages to a group or DM room, channels of 1, fairness | `PushOrScreen` (with the types), `ShownInOrder`, `DeadConnectionsLeave`, `AcceptedIsShown` |

Bounds: two broadcasts overlap over two clients, one fills a channel for the other;
`MayBreak` names the connections whose peer may go away, and one suffices to have a
dead and a live connection side by side. A connection is used once, so `Conns`
bounds the number of connections. Fairness: the run loop and the pumps go on, a dead
peer is noticed (a ping or the pong deadline fails), and the goroutines of a message
run.

What `PushOrScreen` says, and what it does not. When the goroutine of a message has
pushed, every member but the author got a push, or the message was broadcast to a
connection of his, or he joined in between (`late`); nobody who was broadcast to and
is still connected got a push as well. So a user who joins the clients of the room
between the broadcast and the check gets neither; a connection counts until the run
loop removes it, even if its peer is dead or its channel refused the message; and a
query of the members that fails, whose error is ignored (chat.go:628-645), pushes to
nobody (`npc` is "failed", of which the property says nothing). A room that is newer
than the connections is in nobody's `access`: ws/hub.go:35 says that the set of rooms
is updated on room changes, but nothing does, so the messages of a new room reach a
user as pushes until he connects again.

`WsHubProofs` proves, for any users, connections, rooms, messages and capacity,
from `WsAssumption`: `PushOrScreenHolds` and `ShownInOrderHolds`. The invariant
`Inv` adds to the types the life of a connection (`ConnLife`: it is added and removed
once, its rooms are read before) and of a message (`MessageLife`: its goroutine
starts when the broadcast is over, which visits only clients that were there when it
began), and `AimedOrLate`: a client with the room of a message under way was there
when the broadcast began, or its user is in `late`. A push is decided by the
connections of one moment (`NotifyCovers`), and no later step takes it back
(`Pushes`). Order needs what a client has been sent together with what it has still to
get (`Orderly`): a message on its way to a client is not yet visible there, and one
that had its turn is visible or was refused. `DeadConnectionsLeave` and `AcceptedIsShown` are
liveness and stay with TLC.

## 6. A chat room

`Chat` is one group room of `handlers/chat.go`. `rows`, `nextId`, `preview` and
`receipts` are `chat_messages` with its sequence, the columns `last_msg` of the
room and `chat_read_receipts`. A request first arrives (`Arrive` picks what it
is) and then runs one statement or broadcast per action: `SendCreate` and
`SendBroadcast`; `LoadOwn`, `EditSave`, `EditReload`, `EditBroadcast`; `LoadOwn`,
`DeleteRow`, `DeleteBroadcast`; `ClearCommit` (a transaction) and
`ClearBroadcast`; `SeenFind` and `SeenCreate` or `SeenUpdate`. A send starts the
goroutine `PreviewWrite`, and one that asks the assistant starts
`triggerAIResponse`: `AiAcquire` (a slot of the channel `aiSemaphore`),
`AiRespond`, `AiSave`, `AiPreview`, `AiShow`. `elsewhere` counts the slots that
other rooms hold. `view` is the list a connected client keeps; `raced`,
`last` and `before` are history.

| Run | Instance | Shows |
|---|---|---|
| `chat_room` | 3 requests of one member: ask, edit or seen; ask or seen; send, delete or clear; 2 slots, fairness | `ViewConverges` (with the types), `PreviewIsLast`, `IdleWhenQuiet`, `ReceiptNotStale`, `AskIsAnswered` |

Bounds: there is a message at the start, so edits, deletes and receipts have an
object; two asks and another room compete for two slots; each pair of
operations that touch one message occurs. Each request is served once.

The statements whose error the code ignores are taken to succeed (the updates of the
preview at chat.go:571 and 1216, the inserts of the assistant's messages at 1208
and 1354, the commit of a clearing at 1328), so the properties say
nothing of a preview, an answer or a clearing that was broadcast and not stored.

`ViewConverges` holds for messages on which no two operations overlapped; where
they overlap, a full-row save may bring back a deleted message or an older text.
`PreviewIsLast` says the same of the list of rooms, with the history `last`: a
message or a clearing that follows before the goroutine of the former preview has
run may leave the older text in the list, or that of a cleared message. An edit or
a delete of the last message leaves its text in the list by design of the code.

Fairness: `AiStep` is strongly fair for each request that may ask, because Go
serves those who wait on a channel in their order and the call of the assistant
ends within its timeout; slots held elsewhere are released in the end. No
request is obliged to arrive or to go on.

`ChatProofs` proves the four safety properties for any requests and members and any
number of slots, from `ChatAssumption`: `ViewConvergesHolds`, `PreviewIsLastHolds`,
`IdleWhenQuietHolds` and `ReceiptNotStaleHolds`.

* `TypeInv` adds to the types how the places of a request go together (`Linked`)
  and that the sequence counts the messages (`Counted`), without which an id could
  run past the table. `IdleWhenQuiet` is inductive with it: an answer that sets
  the status is itself under way, and `AiShow` sets "idle" as it ends.
* `PreviewInv`: as long as no two writes of the preview overlap, the one to come
  brings `last`. `PreviewIsLast` alone speaks only of the moment when none is to come.
* `ReceiptInv` names for each member a request whose value the receipt has and which
  no later request with another value followed (`Witness`); a request that looked for
  the receipt and found it still finds one when it updates.
* `Views`: on a message that nobody raced for, at most one operation works at a time
  (`Alone`), and how far it is says which of row, copy and client agree (`Handled`).

`AskIsAnswered` is liveness and stays with TLC.

## 7. Reminders and web push

`Reminder` is `workers/reminder.go` with `handlers/notifications.go`. `notes`
and `subs` are the tables `notifications` and `push_subscriptions`, `now` the
clock. `at` tells how far the worker or the request of a note is, `cur` and
`batch` are the loop of `fireReminders`, `todo` the loop of `sendPush`, `asking`
the `Subscribe` request of a browser, which looks for the endpoint and then
writes. `Poll`, `MarkFired`, `Announce`, `LoadSubscriptions`, one `Push` per
browser (`PushGone` and `Prune` when it has gone), `Delivered` and `Purge` are
the statements and calls in their order; `MarkFails` is the update whose error
nobody looks at; `Crash` empties the memory. `rings`, `misses`, `cleared`,
`held`, `tried` and `interrupted` are history.

`AlarmClock` is what a user is promised, without table, worker or push: an alarm is
set once; in rounds that do not overlap the clock calls every alarm that is due and
not over, and no other; an alarm is ticked off before it rings and is over from then
on; a fault leaves one alarm unticked, or silences those that are called or ringing.
`Reminder` maps to it by `Stage` (a note in the batch of the poll is called, one that
is marked and not yet announced is ringing) and `Over` (a note that no later poll
finds).

| Run | Instance | Shows |
|---|---|---|
| `reminders` | a reminder, a second one or a notification sent at once, 2 browsers, 2 times, 1 crash or failing update, fairness | `RingsOnce` (with the types), `LostOnlyInCrash`, `EveryDeviceTried`, `ClearedStaysSilent`, `ImplementsAlarmClock` (refinement of `AlarmClock`), `DueRings` |

Bounds: the clock has two values, so that a reminder is not yet due, due, and
expired; two browsers make one push fail before the other; an endpoint gets one
row (`MaxRows`), which may come and go while a delivery holds it. The run has one
user, so no endpoint changes hands there; the theorems cover any users and rows.
`MaxMishaps` bounds the crashes and failing marks; the statements of a delivery
may fail at any time.

What the run shows: a reminder rings once, and once more for each update of
`fired` that fails; it is lost only by a crash between the mark and the
delivery; every browser that the user holds during the whole delivery is called,
unless the query of the subscriptions fails: its error is ignored
(notifications.go:342), and the delivery ends without a push (`Delivered` from
"announced"). A query that breaks off half-way is taken for one that fails.

The query of the poll and the `DELETE` of what has expired are assumed to succeed;
their errors are ignored as well, and would skip one round of 30 seconds. The comment
above that `DELETE` (reminder.go:47) says "older than 30 days", while the code purges
what has expired at once, and the model follows the code.

Fairness: only the worker, whose ticker and calls return. This rests on the
push service: the library's HTTP call has no timeout, and a service that never
answers would hold up the worker and every later reminder. The property
`DueRings` says nothing about that case.

`ReminderProofs` proves, for any notes, users, endpoints, plans and any number of
mishaps, from `ReminderAssumption` alone: `ReminderTypeCorrect`, `RingsOnceHolds`,
`LostOnlyInCrashHolds`, `ClearedStaysSilentHolds` and `EveryDeviceTriedHolds`.

* `TypeInv` adds to the types that a subscription has a primary key, that an
  insert under way has one left, and that a worker in a delivery has a reminder.
* `RingInv` is the argument about ringing. `RingsOnce` alone says nothing of a
  note that is marked and not yet announced, or loaded by the poll and deleted
  since; `Books` counts those: an announcement uses up a miss, or the one time
  that settles the note (`Settled`: no later poll finds it). `OneSender` keeps the
  worker and the creating request apart, `InBatch` and `ClearedOut` say what the
  list of the poll may hold.
* `DeviceInv` covers a delivery: an endpoint held since the announcement still
  belongs to the user before the query, and after it is on the list or called. A
  delivery whose query fails is over, and `EveryDeviceTriedHolds` does not speak of it.

* `ReminderImplementsAlarmClock` – `Spec => ImplementsAlarmClock`, with `ClockInv`:
  `RingInv` and that a worker at rest has an empty batch (`RestEmpty`), without which a
  poll could begin a round before the last one is through.

`DueRings` is liveness and stays with TLC.

## 8. The debt planner

`DebtEngine` is the arithmetic of `debt/engine.go`. `Init` picks a household and
computes the figures of `build` (`Minimums`, `LumpSum`, `Target`, `Runs`); each
`Month` advances `simulate` in both orders (`sim`) and `simulateMinimumsOnly`
(`base`). In the code these run one after the other; they share nothing, so
running them in step changes no result and lets a property compare them in every
month. An amount is an integer number of thousandths: a float is exact to far
less than that, and `Slack` bounds what rounding to a thousandth can add up to.
`beyond` is history: what `simulate` would do if it never gave up.

| Run | Instance | Shows |
|---|---|---|
| `debts` | 2,328 households with 2 or 3 debts, 60 months | `MoneyAddsUp` (with the types, and the payoff months matching the balances), `PlanBeatsBaseline`, `AvalancheIsCheapest` |
| `debts_stuck` | one dear and one large debt, 21 incomes, 2 rates, 150 months | violation: a plan reported to "never clear" clears |

Bounds: balances, rates and minimums have two or three values each, chosen so
that some minimums do not cover the interest, that debts clear within a month of
each other and in the middle of a month, and that lump sum and override decide
the order; `MaxMonths` is 60 instead of 600, which only makes "capped" come
earlier. `MaxOwed` ends the history `beyond` of a debt that explodes.
`PlanBeatsBaseline` compares the debts that the baseline still has open, month by
month, and the interest when both are done; the months saved are not compared. It and
`AvalancheIsCheapest` ask that the target covers the minimums. With a payment of the user's own below them (the planner only warns),
neither holds: the minimums of the other debts come first, so the avalanche
starves its dear focus debt and can cost more than the snowball.

`MonthRow.Principal` is the whole payment of the month and not its part beyond
the interest (engine.go:423); nothing in the repository promises the latter.

## 9. Sessions and the administration of an account

`Session` is one account: `handlers/auth.go`, the writes of
`handlers/admin_users.go` and the check of `middleware/jwt.go`. `user` is its row
(`jwt` is the hash of the one access token that is accepted), `tokens` the table
`refresh_tokens`, `device` the pair each device keeps, `req` the requests under
way with the copy of the row or the token each has read. `Start...` is the part of
a handler before its first write, which decides whether there will be one; then
each SQL statement is an action: a login is `RecordLogin`, `IssueJWT`,
`GenerateRefreshToken` and `Answer`; a refresh is `StartRefresh` (the row of the
token), `RefreshUser` (the row of the account), then the same three, or the alarm
(`RevokeRows`); a reset revokes the rows and saves the account (`SaveRow`).
`SetColumns` is a GORM update of columns, which adds `deleted_at IS NULL`;
`SaveRow` is `gorm.DB.Save`, which writes all columns and inserts the row if the
update matched none. `StatementFails` and `AnswerLost` are the faults; four
statements of `auth.go` ignore their error, so that the request goes on.

`meant` and `mishap` are history, and so are `ended`, `from`, `late` and `dirty`
in the tokens and requests: `meant` holds for each column what the last request
wished, whatever it wrote into the others; `late` says that the token was spent
when it was presented; `dirty`, that another write came after the request's read.

| Run | Instance | Shows |
|---|---|---|
| `session` | 2 devices and an administrator, 4 requests of any kind, 2 at a time, 1 failing statement or lost answer | `NoSessionFromASpentToken` (with the types), `ColumnsKept`, `NoAlarmWithoutCause`, `FreshPairIsAccepted` |

Bounds: a login, a refresh that spends its token, and two more requests, of which
one may overlap each of the others; two devices tell a session of one's own from
somebody else's; one fault suffices to lose an answer, and the theorems below
cover every number.

What the run shows of the code: a token that was spent when it is presented gives
no session, yet two refreshes that read the token before either rotates it get
one each. An administrator's save of a copy that was overtaken undoes a lock, a
deletion, a logout or a new password; nothing else does. `RevokeTokens` empties
the columns of the account and leaves the rows of the refresh tokens, so a device
gets a new pair at its next refresh. The error of the update that stores the
access token is ignored: the device then has a pair of which only the refresh
token works.

`SessionProofs` proves all four properties for any devices, slots, requests and
faults, from `SessionAssumption` alone. `SessionInv` adds to the properties the
types column by column and what `RequestOK` says of a request under way: a copy
that is not dirty equals the row in all its columns, and the token a refresh
presents was good when `late` is FALSE. `NoSessionFromASpentToken` needs
`TokensOK`: a spent token is revoked, and tokens come from older ones.
`NoAlarmWithoutCause` needs a second invariant, `Honest`, which holds until a
mishap: devices hold different tokens, a new token is on its way to one device,
and a device holds a revoked token only while the refresh that spent it is about
to answer.

## 10. The router client and the cached lists

`RouterNet` is `router/sagemcom.go` and the cache of `handlers/netinfo.go`.
`client` are the session id and the nonce of the shared `Client`, which nothing
locks; `todo` is the rest of the HTTP calls of an operation (`HostsCalls`,
`SetValueCalls`, `BlockCalls`); a call is `Build` (the envelope is signed with
what the fields hold), `Handle` (the router) and one of `StoreSession` with
`StoreNonce`, `LoginFails`, `Requested` and `Logout`; `Reset` is the start of
`login`. `Refresh` and `Store` are the two ends of `cachedNetInfo`, which hold the
lock, with the fetch between them outside it. The router is modelled from what
the client expects of it. `mine`, `blurred` and `blamed` are history.

| Run | Instance | Shows |
|---|---|---|
| `router` | the ticker and a stream that read the list, an administrator who blocks a device, 9 HTTP calls, 1 of which fails, times 0 to 3 | `SessionsLeakOnlyByOverlap` (with the types), `RefusedOnlyByOverlap`, `ServedIsRecent` |

Bounds: a block request makes six calls and a list three, so that nine let each
overlap the other, or three lists overlap; the lifetime of the cache and the
duration of a refresh are one unit each, so that an entry becomes stale while a
refresh is still under way.

The comments promise more than the code: callers do not serialize
(sagemcom.go:36), and two goroutines that both find the cache stale both refresh
it (netinfo.go:96 says "at most once per netCacheTTL"). The properties say what
remains true: an operation that ran alone is accepted and leaves no session
behind, whatever the overlap before it left in the fields, and an answer of the
cache is at most `TTL + MaxFetch` old. `MaxFetch` rests on the timeouts of the
HTTP client; the fallback to `arp` has none, and is assumed to end.

`RouterNetProofs` proves all three for any callers, times and bounds, from
`RouterAssumption`. `ServedIsRecent` follows from `Times`: a reader began no
longer ago than a refresh may take, and read since. The other two follow from
`RouterInv`: two callers under way at a time are both blurred (`Overlap`), so a
caller that is not blurred is the only one that writes the fields, and finds in
them its own session at every place of its script (`Clean`); a caller has no
session before its login is answered nor after it gave it up (`Mine`), so a
session is not forgotten when a new one takes its place.

## 11. Devices and networks

`Devices` is `handlers/devices.go`, `handlers/wifi.go` and the commands of
`wiz/client.go`, with one row of each table. `Control`, `State`, `Update` and
`Toggle` load a row; a command is sent to the address of the copy (`Reached`,
`NoAnswer`), and the copy is saved whole after it (`Answered`, `SaveEdit`,
`PollFailed`), where it does not fail (`EditFails`, `AnswerNotSaved`, `PollNotSaved`); then the event goes out (`Tell`). `CreateDevice`, `CreateNetwork`
and `Delete` are one statement and the event. `ProbeConfig`, `ProbeUpdate`,
`ProbePilot` and `ProbeStore` are the goroutine that probes a new bulb, which
updates columns and sends no event. `ByHand` is the switch on the wall. Datagrams
get lost and the statements of a request fail. `meant`, `suspect` and `unseen` are history.

| Run | Instance | Shows |
|---|---|---|
| `devices` | 2 requests at a time of 3, the probe, 2 names, 2 addresses, 2 levels, 1 lost datagram or failing statement | `EditsSurvive` (with the types), `RowFollowsBulb`, `ScreensFollowRows` |

Bounds: two requests and the probe overlap in every way, and a third one sets the
stage or polls afterwards; the second address is one where no bulb answers.

The properties name what may go wrong in the code, and show that nothing else
does: a save of an overtaken copy (also of a deleted row, which comes back), a
command whose answer or save is lost (the error of that save is ignored), an
address that changes, the switch. `State` merges what the bulb reports into the
stored state and deletes no key, so a row may name modes the bulb has left:
`RowFollowsBulb` therefore asks that the mode of the bulb is among the keys. A
poll that finds the bulb offline, and the probe, change the row without an event,
so screens show the old row until the next one (`unseen`).

`DevicesProofs` proves all three properties for any slots, names, addresses,
levels, requests and faults, from `DevicesAssumption`: `EditsSurviveHolds`,
`RowFollowsBulbHolds` and `ScreensFollowRowsHolds`. None of them is inductive, for
what breaks it is in a copy, or on its way, before it is in the row. `Inv` adds:

* `CopyInv`: a column of a copy that is not stale is still in the row. Then a save
  writes nothing but what it was asked to write and what is stale.
* `LoneInv`: a request that is still alone is the only one, the probe is over, its
  copy is not stale and its answer is what the bulb does; while the probe is alone,
  every other request only tells, and the row is suspect since its creation.
* `BulbInv`: a row that is not suspect matches the bulb or an answer is waiting to
  be stored, and what will be stored of an undisturbed answer matches
  (`ControlMatches`: what `Control` stores of a command is what the command does).
* `ScreenInv`: a screen shows the row or somebody is about to tell it, and what an
  undisturbed request tells is the row.

A lemma for each way in which a step changes the requests (`GoesFrame`,
`DisturbFrame`, `ColumnsFrame`, `StatementFrame`) says that the others keep their
place, copy and answer (`Keeps`), so a proof of a step treats them once.

## 12. What is proved and what is model-checked

| Module | Proved for all constants | Only model-checked |
|---|---|---|
| `BillPipeline` | `TypeOK`, `OneRowPerFile`, `NoOrphanChildren`, `AlertAtMostOnce`, `PdfLostOnlyByHardDelete`, `StrandedOnlyByKnownSteps`, `ImplementsArchive` | `ProcessingSettles` |
| `SseHub` | `TypeOK`, `NoPanic`, `ImplementsFeed` | `BroadcastsEnd`, `EndedStreamsLeave` |
| `WsHub` | `PushOrScreen`, `ShownInOrder` | `DeadConnectionsLeave`, `AcceptedIsShown` |
| `Chat` | `ViewConverges`, `PreviewIsLast`, `IdleWhenQuiet`, `ReceiptNotStale` | `AskIsAnswered` |
| `Reminder` | `TypeOK`, `RingsOnce`, `LostOnlyInCrash`, `ClearedStaysSilent`, `EveryDeviceTried`, `ImplementsAlarmClock` | `DueRings` |
| `Session` | all four properties | |
| `RouterNet` | all three properties | |
| `Devices` | all three properties | |
| `DebtEngine` | | `MoneyAddsUp`, `PlanBeatsBaseline`, `AvalancheIsCheapest`, and the violation `StuckNeverClears` |

Two kinds of properties stay with TLC. Liveness (`ProcessingSettles`,
`BroadcastsEnd`, `EndedStreamsLeave`, `DeadConnectionsLeave`, `AcceptedIsShown`,
`AskIsAnswered`, `DueRings`) is out of the prover's reach. So are the properties of
`DebtEngine`: a month folds payments over the list of debts and adds up the
balances, so each is a statement about what a fold or a sum computes for a list of
any length, which takes an induction over the list that the installed provers
cannot instantiate. The only assumptions of the proofs are the named `ASSUME`s of
the modules, which TLC evaluates in every run.

Where a module has its type invariant as a part of a property (`SseHub`, `WsHub`, `Chat`,
`Reminder`, `DebtEngine`, `Session`, `RouterNet`, `Devices`), it is the first conjunct.

## 13. Not modelled

* Announcements: a row per announcement and a receipt per reader, one request
  each. Two overlapping requests create two receipts, which inflates a count.
* Energy and utility budgets: sums over readings in floating point and one upsert
  per budget.
* Settings, seeds and the backfill of permissions: rows written once at the start
  (`Devices` starts from the seeds of its tables), and one upsert per setting.
* Logger and log pages: a ring of lines and a subscription of the shape of
  `SseHub`, whose properties would be repeated.
* Powerstream parser, vision client, chat context and consumption pace: work on
  strings and floating-point averages without state; `ExtractOutcome` takes what
  the stages of the extraction find as an input, `BillPipeline` the triggers that
  `EvaluateTriggers` returns.
* Rate limiter, AI usage: a token bucket from a library in real time; read-only
  calls of an external service.
* Resume, properties, profile and preferences: create, read, update and delete of
  one row each.
* Within modelled components: lists and other reads, the audit log, the contents
  of tokens and events, the creation of direct rooms and the tickets of chat
  connections, `BroadcastToAll` and `SendToUser`.
