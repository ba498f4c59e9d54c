-------------------------------- MODULE Devices --------------------------------
(***************************************************************************)
(* The smart bulbs and the WiFi networks of the home: their rows, the      *)
(* requests that edit them (handlers/devices.go, handlers/wifi.go), the    *)
(* bulb behind a row (wiz/client.go) and the rows that screens show.       *)
(*                                                                         *)
(* A request loads a row, changes its copy and saves the whole copy; to    *)
(* control or to poll a bulb it makes a UDP call in between, whose answer  *)
(* may be two seconds away or lost. A goroutine probes a new bulb. Rows    *)
(* are deleted for good, and a Save of a deleted row inserts it again.     *)
(*                                                                         *)
(* Abstractions: one row of each table; a bulb has a brightness and the    *)
(* mode it shines in, and a row the keys of the modes, without the values  *)
(* behind them; name and password stand for the columns an administrator   *)
(* edits. Only WiZ bulbs take commands. The bulb is modelled from the      *)
(* calls of its client.                                                    *)
(***************************************************************************)
EXTENDS Naturals, FiniteSets

CONSTANTS
  Slots,       (* requests under way at a time                                *)
  Names, IPs, Levels,
  BulbIP,      (* the address the bulb answers at                             *)
  MaxOps,      (* bound on the requests                                       *)
  MaxFaults    (* bound on lost datagrams and failing statements              *)

ASSUME DevicesAssumption ==
  /\ Slots # {} /\ BulbIP \in IPs /\ Levels # {} /\ Names # {} /\ "full" \in Levels
  /\ MaxOps \in Nat /\ MaxFaults \in Nat

VARIABLES
  rows,        (* the row of each table                                       *)
  bulb,        (* what the bulb does                                          *)
  req,         (* the requests under way                                      *)
  probe,       (* the goroutine that probes the new bulb                      *)
  screen,      (* the rows as the last event on them says                     *)
  ops, faults, (* requests and faults so far                                  *)
  meant,       (* history: the values the rows were last given                *)
  suspect,     (* history: why the row may differ from the bulb               *)
  unseen       (* history: the tables whose row changed without an event      *)

counters == <<ops, faults>>
vars == <<rows, bulb, req, probe, screen, counters, meant, suspect, unseen>>

Tables == {"device", "network"}
Modes == {"color_temp", "rgb", "scene"}
LampStates == [on : BOOLEAN, brightness : Levels, keys : SUBSET Modes]
Absent == [there |-> FALSE]

(* Requests to a bulb: setPilot with the parameters, or getPilot.          *)
Commands ==
  [action : {"on", "off", "color_temp", "scene"}, level : {"full"}]
    \cup [action : {"brightness", "rgb"}, level : Levels]
Get == [action |-> "get", level |-> "full"]

NoReq == [at |-> "idle"]
NoProbe == [at |-> "over", alone |-> TRUE, ip |-> BulbIP]
Busy(q) == req[q].at # "idle"
Quiet == (\A q \in Slots : ~Busy(q)) /\ probe.at = "over"

NewDevice(name, ip) ==
  [there |-> TRUE, name |-> name, ip |-> ip, online |-> FALSE,
   state |-> [on |-> FALSE, brightness |-> "full", keys |-> {}]]
NewNetwork(name) == [there |-> TRUE, name |-> name, enabled |-> TRUE]

(* The tables are seeded when they are empty at the start of the program.  *)
Seeds(name, ip) == [device |-> NewDevice(name, ip), network |-> NewNetwork(name)]

Init ==
  /\ \/ rows = [t \in Tables |-> Absent]
     \/ \E ip \in IPs : rows = Seeds(CHOOSE name \in Names : TRUE, ip)
  /\ screen = rows /\ meant = rows
  /\ bulb \in [on : BOOLEAN, brightness : {"full"}, mode : {"color_temp", "rgb"}]
  /\ req = [q \in Slots |-> NoReq] /\ probe = NoProbe
  /\ ops = 0 /\ faults = 0 /\ suspect = TRUE /\ unseen = {}

-----------------------------------------------------------------------------
Fault == faults < MaxFaults /\ faults' = faults + 1 /\ UNCHANGED ops
Op == ops < MaxOps /\ ops' = ops + 1 /\ UNCHANGED faults

(* The row with the columns that values has from there.                    *)
Over(values, row) == [c \in DOMAIN row |-> IF c \in DOMAIN values THEN values[c] ELSE row[c]]

(* q goes on as next, having written columns of table t: the copies other  *)
(* requests have of these are stale.                                       *)
Goes(q, next, t, columns) ==
  req' = [p \in Slots |->
    IF p = q THEN next
    ELSE IF Busy(p) /\ req[p].table = t THEN [req[p] EXCEPT !.stale = @ \cup columns] ELSE req[p]]

Ends(q) == req' = [req EXCEPT ![q] = NoReq]

(* Whoever is under way when something begins is not alone any more.       *)
Disturb(begun, request) ==
  /\ req' = [p \in Slots |-> IF p \in begun THEN request
                             ELSE IF Busy(p) THEN [req[p] EXCEPT !.alone = FALSE] ELSE req[p]]
  /\ probe' = [probe EXCEPT !.alone = @ /\ probe.at = "over"]

(* First finds the row, or the request ends with 404.                      *)
Start(q, t, at, op) ==
  /\ ~Busy(q) /\ rows[t].there /\ Op
  /\ Disturb({q}, [at |-> at, op |-> op, table |-> t, copy |-> rows[t], stale |-> {}, alone |-> Quiet])
  /\ UNCHANGED <<rows, bulb, screen, meant, suspect, unseen>>

Edit(values) == [action |-> "edit", values |-> values]
Control(q) == \E command \in Commands : Start(q, "device", "send", command)
State(q) == Start(q, "device", "send", Get)
Update(q) ==
  \/ \E t \in Tables, name \in Names : Start(q, t, "save", Edit([name |-> name]))
  \/ \E ip \in IPs : Start(q, "device", "save", Edit([ip |-> ip]))
Toggle(q) == Start(q, "network", "save", Edit([enabled |-> ~rows["network"].enabled]))

(* One statement inserts or deletes the row; the event follows. A new row  *)
(* has a new id: the model makes one when nothing is under way for the old.*)
Statement(q, t, row) ==
  /\ ~Busy(q) /\ Op
  /\ rows' = [rows EXCEPT ![t] = row] /\ meant' = [meant EXCEPT ![t] = row]
  /\ req' = [p \in Slots |->
       IF p = q THEN [at |-> "tell", op |-> Edit(row), table |-> t, copy |-> row, stale |-> {}, alone |-> Quiet]
       ELSE IF ~Busy(p) THEN req[p]
       ELSE [req[p] EXCEPT !.alone = FALSE,
                           !.stale = IF req[p].table = t THEN @ \cup DOMAIN rows[t] ELSE @]]
  /\ UNCHANGED <<bulb, screen, unseen>>

CreateDevice(q) ==
  /\ ~rows["device"].there /\ probe.at = "over" /\ \A p \in Slots : Busy(p) => req[p].table # "device"
  /\ \E name \in Names, ip \in IPs :
       /\ Statement(q, "device", NewDevice(name, ip))
       /\ probe' = [at |-> "config", alone |-> Quiet, ip |-> ip]
  /\ suspect' = TRUE

CreateNetwork(q) ==
  /\ ~rows["network"].there /\ \A p \in Slots : Busy(p) => req[p].table # "network"
  /\ \E name \in Names : Statement(q, "network", NewNetwork(name))
  /\ probe' = [probe EXCEPT !.alone = @ /\ probe.at = "over"]
  /\ UNCHANGED suspect

Delete(q) ==
  /\ \E t \in Tables : rows[t].there /\ Statement(q, t, Absent)
  /\ probe' = [probe EXCEPT !.alone = @ /\ probe.at = "over"]
  /\ UNCHANGED suspect

-----------------------------------------------------------------------------
(* The bulb.                                                               *)
Shines(b, op) ==
  CASE op.action = "get" -> b
    [] op.action = "off" -> [b EXCEPT !.on = FALSE]
    [] op.action = "on" -> [b EXCEPT !.on = TRUE]
    [] op.action = "brightness" -> [b EXCEPT !.on = TRUE, !.brightness = op.level]
    [] op.action = "rgb" -> [on |-> TRUE, brightness |-> op.level, mode |-> "rgb"]
    [] OTHER -> [b EXCEPT !.on = TRUE, !.mode = op.action]

Reached(q) ==
  /\ req[q].at = "send" /\ req[q].copy.ip = BulbIP
  /\ bulb' = Shines(bulb, req[q].op)
  /\ req' = [req EXCEPT ![q] = [got |-> bulb', at |-> "answer", op |-> @.op, table |-> @.table,
                                copy |-> @.copy, stale |-> @.stale, alone |-> @.alone]]
  /\ UNCHANGED <<rows, probe, screen, counters, meant, suspect, unseen>>

(* Nobody is at the address, or the command or its answer is lost.         *)
NoAnswer(q) ==
  /\ \/ req[q].at = "send" /\ req[q].copy.ip # BulbIP /\ UNCHANGED counters
     \/ req[q].at \in {"send", "answer"} /\ Fault
  /\ req' = [req EXCEPT ![q].at = "failed"]
  /\ suspect' = (suspect \/ (req[q].at = "answer" /\ req[q].op # Get))
  /\ UNCHANGED <<rows, bulb, probe, screen, meant, unseen>>

(* Somebody uses the switch, or another application.                       *)
ByHand ==
  /\ Op /\ \E b \in [on : BOOLEAN, brightness : Levels, mode : Modes] : b # bulb /\ bulb' = b
  /\ Disturb({}, NoReq)
  /\ suspect' = TRUE
  /\ UNCHANGED <<rows, screen, meant, unseen>>

-----------------------------------------------------------------------------
(* Mutant: a colour is stored without the brightness it is sent with.      *)
KeepsBrightness(state, op) ==
  LET keys == CASE op.action = "color_temp" -> (state.keys \ {"rgb"}) \cup {"color_temp"}
                [] op.action = "rgb" -> (state.keys \ {"color_temp"}) \cup {"rgb"}
                [] op.action = "scene" -> state.keys \cup {"scene"}
                [] OTHER -> state.keys
  IN  [on |-> op.action # "off", keys |-> keys,
       brightness |-> IF op.action = "brightness" THEN op.level ELSE state.brightness]

(* The keys of the state that Control sets and deletes.                    *)
Controlled(state, op) ==
  LET keys == CASE op.action = "color_temp" -> (state.keys \ {"rgb"}) \cup {"color_temp"}
                [] op.action = "rgb" -> (state.keys \ {"color_temp"}) \cup {"rgb"}
                [] op.action = "scene" -> state.keys \cup {"scene"}
                [] OTHER -> state.keys
  IN  [on |-> op.action # "off", keys |-> keys,
       brightness |-> IF op.action \in {"brightness", "rgb"} THEN op.level ELSE state.brightness]

(* State merges what the bulb reports into the keys, and deletes none.     *)
Polled(state, b) == [on |-> b.on, brightness |-> b.brightness, keys |-> state.keys \cup {b.mode}]

(* What an edit, an answer of the bulb, or its silence changes.            *)
Values(q) ==
  CASE req[q].at = "save" -> req[q].op.values
    [] req[q].at = "failed" -> [online |-> FALSE]
    [] OTHER -> [online |-> TRUE,
                 state |-> IF req[q].op = Get THEN Polled(req[q].copy.state, req[q].got)
                                              ELSE Controlled(req[q].copy.state, req[q].op)]

Telling(q) == [req[q] EXCEPT !.at = "tell", !.copy = Over(Values(q), @)]

(* Save writes the whole copy: columns written since it was loaded are     *)
(* lost, and a deleted row is there again.                                 *)
Save(q, next) ==
  LET t == req[q].table
      new == Over(Values(q), req[q].copy)
      given == DOMAIN Values(q) \cup req[q].stale
  IN  /\ rows' = [rows EXCEPT ![t] = new]
      /\ meant' = [meant EXCEPT ![t] = [c \in DOMAIN new |-> IF c \in given THEN new[c] ELSE meant[t][c]]]
      /\ Goes(q, next, t, IF rows[t].there THEN given ELSE DOMAIN new)

(* An edit is saved, or answered with 500.                                 *)
SaveEdit(q) ==
  /\ req[q].at = "save"
  /\ Save(q, Telling(q))
  /\ suspect' = (suspect \/ (req[q].table = "device" /\ (~req[q].alone \/ "ip" \in DOMAIN req[q].op.values)))
  /\ UNCHANGED <<bulb, probe, screen, counters, unseen>>

EditFails(q) ==
  /\ req[q].at = "save" /\ Fault
  /\ Ends(q)
  /\ UNCHANGED <<rows, bulb, probe, screen, meant, suspect, unseen>>

(* The bulb has answered. Whether the Save succeeds is not looked at.      *)
Answered(q) ==
  /\ req[q].at = "answer"
  /\ Save(q, Telling(q))
  /\ suspect' = (~req[q].alone \/ (suspect /\ req[q].op # Get))
  /\ UNCHANGED <<bulb, probe, screen, counters, unseen>>

AnswerNotSaved(q) ==
  /\ req[q].at = "answer" /\ Fault
  /\ req' = [req EXCEPT ![q] = [Telling(q) EXCEPT !.alone = FALSE]]
  /\ suspect' = (suspect \/ ~req[q].alone \/ req[q].op # Get)
  /\ UNCHANGED <<rows, bulb, probe, screen, meant, unseen>>

(* A command without an answer changes nothing; a poll stores that the     *)
(* bulb is offline, and sends no event.                                    *)
ControlFailed(q) ==
  /\ req[q].at = "failed" /\ req[q].op # Get
  /\ Ends(q)
  /\ suspect' = (suspect \/ ~req[q].alone)
  /\ UNCHANGED <<rows, bulb, probe, screen, counters, meant, unseen>>

PollFailed(q) ==
  /\ req[q].at = "failed" /\ req[q].op = Get
  /\ Save(q, NoReq)
  /\ suspect' = (suspect \/ ~req[q].alone)
  /\ unseen' = unseen \cup {"device"}
  /\ UNCHANGED <<bulb, probe, screen, counters>>

(* The error of this save is ignored.                                      *)
PollNotSaved(q) ==
  /\ req[q].at = "failed" /\ req[q].op = Get /\ Fault
  /\ Ends(q)
  /\ suspect' = (suspect \/ ~req[q].alone)
  /\ UNCHANGED <<rows, bulb, probe, screen, meant, unseen>>

(* Mutant: only the devices are told about.                                *)
TellDevices(q) ==
  LET t == req[q].table IN
  /\ req[q].at = "tell"
  /\ screen' = IF t = "device" THEN [screen EXCEPT ![t] = req[q].copy] ELSE screen
  /\ unseen' = IF req[q].alone /\ req[q].stale = {} THEN unseen \ {t} ELSE unseen \cup {t}
  /\ Ends(q)
  /\ UNCHANGED <<rows, bulb, probe, counters, meant, suspect>>

(* The event with the saved copy. It is the row, unless another request    *)
(* came in between.                                                        *)
Tell(q) ==
  LET t == req[q].table IN
  /\ req[q].at = "tell"
  /\ screen' = [screen EXCEPT ![t] = req[q].copy]
  /\ unseen' = IF req[q].alone /\ req[q].stale = {} THEN unseen \ {t} ELSE unseen \cup {t}
  /\ Ends(q)
  /\ UNCHANGED <<rows, bulb, probe, counters, meant, suspect>>

-----------------------------------------------------------------------------
(* Mutant: the probe saves a row where it should update columns.           *)
ColumnsSaved(values) ==
  /\ rows' = [rows EXCEPT !["device"] = Over(values, NewDevice(CHOOSE n \in Names : TRUE, probe.ip))]
  /\ meant' = IF rows["device"].there THEN [meant EXCEPT !["device"] = Over(values, @)] ELSE meant
  /\ unseen' = unseen \cup {"device"}
  /\ UNCHANGED <<counters, req>>

(* The probe of a new bulb updates columns, of a row that may be gone.     *)
Columns(values) ==
  /\ IF rows["device"].there
     THEN /\ rows' = [rows EXCEPT !["device"] = Over(values, @)]
          /\ meant' = [meant EXCEPT !["device"] = Over(values, @)]
          /\ req' = [p \in Slots |-> IF Busy(p) /\ req[p].table = "device"
                                     THEN [req[p] EXCEPT !.stale = @ \cup DOMAIN values] ELSE req[p]]
          /\ unseen' = unseen \cup {"device"}
     ELSE UNCHANGED <<rows, meant, req, unseen>>
  /\ UNCHANGED counters

ProbeEnds == probe' = NoProbe

ProbeConfig ==
  /\ probe.at = "config"
  /\ \/ probe.ip = BulbIP /\ probe' = [probe EXCEPT !.at = "update"] /\ UNCHANGED counters
     \/ ProbeEnds /\ IF probe.ip # BulbIP THEN UNCHANGED counters ELSE Fault
  /\ UNCHANGED <<rows, bulb, req, screen, meant, suspect, unseen>>

ProbeUpdate ==
  /\ probe.at = "update"
  /\ \/ Columns([online |-> TRUE])
     \/ Fault /\ UNCHANGED <<rows, meant, req, unseen>>
  /\ probe' = [probe EXCEPT !.at = "pilot"]
  /\ UNCHANGED <<bulb, screen, suspect>>

ProbePilot ==
  /\ probe.at = "pilot"
  /\ \/ probe' = [got |-> bulb, at |-> "store", alone |-> probe.alone, ip |-> probe.ip] /\ UNCHANGED counters
     \/ Fault /\ ProbeEnds
  /\ UNCHANGED <<rows, bulb, req, screen, meant, suspect, unseen>>

(* It replaces the whole state by the switch, the brightness and the white.*)
ProbeStore ==
  /\ probe.at = "store"
  /\ \/ /\ Columns([state |-> [on |-> probe.got.on, brightness |-> probe.got.brightness,
                                keys |-> {"color_temp"} \cap {probe.got.mode}]])
        /\ suspect' = (~probe.alone \/ (suspect /\ probe.got.mode # "color_temp"))
     \/ Fault /\ UNCHANGED <<rows, meant, req, unseen, suspect>>
  /\ ProbeEnds
  /\ UNCHANGED <<bulb, screen>>

Next ==
  \/ \E q \in Slots :
       \/ Control(q) \/ State(q) \/ Update(q) \/ Toggle(q) \/ CreateDevice(q) \/ CreateNetwork(q) \/ Delete(q)
       \/ Reached(q) \/ NoAnswer(q) \/ SaveEdit(q) \/ EditFails(q) \/ Answered(q) \/ AnswerNotSaved(q)
       \/ ControlFailed(q) \/ PollFailed(q) \/ PollNotSaved(q) \/ Tell(q)
  \/ ByHand
  \/ ProbeConfig \/ ProbeUpdate \/ ProbePilot \/ ProbeStore

Spec == Init /\ [][Next]_vars

-----------------------------------------------------------------------------
Device == [there : {TRUE}, name : Names, ip : IPs, online : BOOLEAN, state : LampStates]
Network == [there : {TRUE}, name : Names, enabled : BOOLEAN]

TypeOK ==
  /\ \A v \in {rows, screen, meant} :
       v["device"] \in Device \cup {Absent} /\ v["network"] \in Network \cup {Absent}
  /\ bulb \in [on : BOOLEAN, brightness : Levels, mode : Modes]
  /\ \A q \in Slots : Busy(q) => req[q].at \in {"send", "answer", "failed", "save", "tell"}
                                   /\ req[q].table \in Tables /\ req[q].alone \in BOOLEAN
  /\ probe.at \in {"config", "update", "pilot", "store", "over"}
  /\ suspect \in BOOLEAN /\ unseen \subseteq Tables

(* No request changes what it was not asked to: each column of a row has   *)
(* the value it was last given, and a deleted row stays deleted, unless a  *)
(* request saved a copy that another one had overtaken (devices.go:337).   *)
EditsSurvive == TypeOK /\ rows = meant

(* At rest the row says what the bulb does, whichever commands it took,    *)
(* unless a command lost its answer or its Save, requests overlapped, the  *)
(* address changed, or the switch was used; then one undisturbed poll puts *)
(* it right (devices.go:406).                                              *)
RowFollowsBulb ==
  Quiet /\ ~suspect /\ rows["device"].there =>
    LET state == rows["device"].state IN
    state.on = bulb.on /\ state.brightness = bulb.brightness /\ bulb.mode \in state.keys

(* At rest a screen shows the row of the last event, and the row is that,  *)
(* unless requests overlapped, a Save failed after a command, a poll found *)
(* the bulb offline or the probe has written (devices.go:372).             *)
ScreensFollowRows == Quiet => \A t \in Tables \ unseen : screen[t] = rows[t]
===============================================================================
