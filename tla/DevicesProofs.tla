----------------------------- MODULE DevicesProofs -----------------------------
(***************************************************************************)
(* Theorems about Devices for every set of slots, names, addresses and     *)
(* levels, and any number of requests and faults.                          *)
(*                                                                         *)
(* The invariant Inv has five parts: what a request holds at each step     *)
(* (TypeInv), what of its copy is still the row (CopyInv), that an         *)
(* undisturbed request is the only one (LoneInv), what the bulb has been   *)
(* told and no row shows yet (BulbInv), and who is about to tell the       *)
(* screens (ScreenInv). A frame lemma for each way a step changes the      *)
(* requests says that it leaves the others where they were (Keeps).        *)
(***************************************************************************)
EXTENDS Devices, TLAPS

Lamps == [on : BOOLEAN, brightness : Levels, mode : Modes]
RowOf(t) == IF t = "device" THEN Device ELSE Network
EditsOf(t) ==
  IF t = "device" THEN [name : Names] \cup [ip : IPs] ELSE [name : Names] \cup [enabled : BOOLEAN]

(* What is under way: which fields a request has at each of its steps.     *)
Request(x) ==
  /\ {"at", "op", "table", "copy", "stale", "alone"} \subseteq DOMAIN x
  /\ x.table \in Tables /\ x.alone \in BOOLEAN
  /\ x.at \in {"send", "answer", "failed", "save", "tell"}
  /\ x.at \in {"send", "answer", "failed"} => x.table = "device" /\ x.op \in Commands \cup {Get}
  /\ x.at = "answer" => "got" \in DOMAIN x /\ x.got \in Lamps
  /\ x.at = "save" => "values" \in DOMAIN x.op /\ x.op.values \in EditsOf(x.table)
  /\ x.copy \in RowOf(x.table) \cup (IF x.at = "tell" THEN {Absent} ELSE {})

TypedRows(v) == DOMAIN v = Tables /\ \A t \in Tables : v[t] \in RowOf(t) \cup {Absent}

TypedProbe ==
  /\ {"at", "alone", "ip"} \subseteq DOMAIN probe
  /\ probe.at \in {"config", "update", "pilot", "store", "over"}
  /\ probe.alone \in BOOLEAN /\ probe.ip \in IPs
  /\ probe.at = "store" => "got" \in DOMAIN probe /\ probe.got \in Lamps

TypeInv ==
  /\ TypedRows(rows) /\ TypedRows(screen)
  /\ bulb \in Lamps
  /\ DOMAIN req = Slots /\ \A q \in Slots : Busy(q) => Request(req[q])
  /\ TypedProbe
  /\ suspect \in BOOLEAN /\ unseen \subseteq Tables

-----------------------------------------------------------------------------
(* The operators of the model.                                             *)

(* What an edit, a poll or a probe writes into a row of table t.           *)
ColumnsOf(t) ==
  IF t = "device" THEN EditsOf(t) \cup [online : BOOLEAN] \cup [state : LampStates]
                         \cup [online : BOOLEAN, state : LampStates]
  ELSE EditsOf(t)

(* Merging columns into a row gives a row of the same table.               *)
LEMMA OverRow ==
  ASSUME NEW t \in Tables, NEW row \in RowOf(t), NEW v \in ColumnsOf(t)
  PROVE  /\ Over(v, row) \in RowOf(t)
         /\ DOMAIN Over(v, row) = DOMAIN row
         /\ \A c \in DOMAIN row : Over(v, row)[c] = IF c \in DOMAIN v THEN v[c] ELSE row[c]
<1>1. /\ DOMAIN Over(v, row) = DOMAIN row
      /\ \A c \in DOMAIN row : Over(v, row)[c] = IF c \in DOMAIN v THEN v[c] ELSE row[c]
  BY DEF Over
<1>2. CASE t = "device"
  <2>1. row \in Device
    BY <1>2 DEF RowOf
  <2> DEFINE new == Over(v, row)
  <2>a. DOMAIN row = {"there", "name", "ip", "online", "state"}
    BY <2>1 DEF Device
  <2>b. row.there = TRUE /\ row.name \in Names /\ row.ip \in IPs /\ row.online \in BOOLEAN /\ row.state \in LampStates
    BY <2>1 DEF Device
  <2>c. SUFFICES new.there = TRUE /\ new.name \in Names /\ new.ip \in IPs /\ new.online \in BOOLEAN /\ new.state \in LampStates
    <3>1. new = [c \in {"there", "name", "ip", "online", "state"} |-> new[c]]
      BY <1>1, <2>a DEF Over
    <3>2. QED
      BY <1>1, <1>2, <3>1 DEF RowOf, Device
  <2>2. CASE v \in [name : Names]
    BY <1>1, <2>a, <2>b, <2>2
  <2>3. CASE v \in [ip : IPs]
    BY <1>1, <2>a, <2>b, <2>3
  <2>4. CASE v \in [online : BOOLEAN]
    BY <1>1, <2>a, <2>b, <2>4
  <2>5. CASE v \in [state : LampStates]
    BY <1>1, <2>a, <2>b, <2>5
  <2>6. CASE v \in [online : BOOLEAN, state : LampStates]
    BY <1>1, <2>a, <2>b, <2>6
  <2>7. QED
    BY <1>2, <2>2, <2>3, <2>4, <2>5, <2>6 DEF ColumnsOf, EditsOf
<1>3. CASE t # "device"
  <2>1. row \in Network
    BY <1>3 DEF RowOf
  <2>2. CASE v \in [name : Names]
    BY <1>3, <2>1, <2>2 DEF Over, RowOf, Network
  <2>3. CASE v \in [enabled : BOOLEAN]
    BY <1>3, <2>1, <2>3 DEF Over, RowOf, Network
  <2>4. QED
    BY <1>1, <1>3, <2>2, <2>3 DEF ColumnsOf, EditsOf
<1>4. QED
  BY <1>2, <1>3

(* A command and a poll leave a lamp, and give a state of a row.           *)
LEMMA ShinesType ==
  ASSUME NEW b \in Lamps, NEW op \in Commands \cup {Get}, "full" \in Levels
  PROVE  Shines(b, op) \in Lamps
<1> USE DEF Lamps, Commands, Get, Modes
<1>1. op.level \in Levels /\ op.action \in {"get", "on", "off", "brightness", "rgb", "color_temp", "scene"}
  OBVIOUS
<1>2. CASE op.action \in {"get", "on", "off", "brightness"}
  BY <1>1, <1>2 DEF Shines
<1>3. CASE op.action = "rgb"
  BY <1>1, <1>3 DEF Shines
<1>4. CASE op.action \in {"color_temp", "scene"}
  BY <1>1, <1>4 DEF Shines
<1>5. QED
  BY <1>1, <1>2, <1>3, <1>4

LEMMA ControlledType ==
  ASSUME NEW state \in LampStates, NEW op \in Commands, "full" \in Levels
  PROVE  Controlled(state, op) \in LampStates
  BY DEF Controlled, LampStates, Commands, Modes

LEMMA PolledType ==
  ASSUME NEW state \in LampStates, NEW b \in Lamps
  PROVE  Polled(state, b) \in LampStates
  BY DEF Polled, LampStates, Lamps

(* What a request saves are columns of its table.                          *)
LEMMA ValuesType ==
  ASSUME NEW q \in Slots, Request(req[q]), req[q].at \in {"answer", "failed", "save"}, "full" \in Levels
  PROVE  Values(q) \in ColumnsOf(req[q].table)
<1>1. CASE req[q].at = "save"
  BY <1>1 DEF Values, ColumnsOf, Request, EditsOf
<1>2. CASE req[q].at = "failed"
  BY <1>2 DEF Values, ColumnsOf, Request
<1>3. CASE req[q].at = "answer"
  <2>1. req[q].table = "device" /\ req[q].copy \in Device /\ req[q].got \in Lamps /\ req[q].op \in Commands \cup {Get}
    BY <1>3 DEF Request, RowOf
  <2>2. req[q].copy.state \in LampStates
    BY <2>1 DEF Device
  <2>3. PICK s \in LampStates : Values(q) = [online |-> TRUE, state |-> s]
    BY <1>3, <2>1, <2>2, ControlledType, PolledType DEF Values
  <2>4. Values(q) \in [online : BOOLEAN, state : LampStates]
    BY <2>3
  <2>5. QED
    BY <2>1, <2>4 DEF ColumnsOf
<1>4. QED
  BY <1>1, <1>2, <1>3

-----------------------------------------------------------------------------
(* What an action does to the requests of others: their step, table, copy  *)
(* and answer stay, their copies only get staler, and nobody is alone      *)
(* again.                                                                  *)
Keeps(p) ==
  LET x == req[p]
      y == req'[p]
  IN  /\ y.at = x.at
      /\ Busy(p) => /\ DOMAIN y = DOMAIN x /\ y.table = x.table /\ y.op = x.op /\ y.copy = x.copy
                    /\ x.at = "answer" => y.got = x.got
                    /\ x.stale \subseteq y.stale /\ y.alone \in BOOLEAN /\ (y.alone => x.alone)

LEMMA KeepsType ==
  ASSUME NEW p \in Slots, Busy(p) => Request(req[p]), Keeps(p)
  PROVE  Busy(p)' => Request(req'[p])
  BY DEF Keeps, Busy, Request

(* Nothing of a request changes, but perhaps what is stale of its copy.    *)
Ages(p, t, columns) ==
  /\ Keeps(p) /\ req'[p].alone = req[p].alone
  /\ req'[p].stale = IF req[p].table = t THEN req[p].stale \cup columns ELSE req[p].stale

LEMMA GoesFrame ==
  ASSUME TypeInv, NEW q \in Slots, NEW next, NEW t, NEW columns, Goes(q, next, t, columns)
  PROVE  /\ DOMAIN req' = Slots /\ req'[q] = next
         /\ \A p \in Slots \ {q} : Keeps(p) /\ (Busy(p) => Ages(p, t, columns))
<1>1. DOMAIN req' = Slots /\ req'[q] = next
  BY DEF Goes
<1>2. ASSUME NEW p \in Slots \ {q}
      PROVE  Keeps(p) /\ (Busy(p) => Ages(p, t, columns))
  <2>1. CASE ~Busy(p)
    BY <2>1 DEF Goes, Keeps
  <2>2. CASE Busy(p)
    <3>1. Request(req[p])
      BY <2>2 DEF TypeInv
    <3>2. req'[p] = IF req[p].table = t THEN [req[p] EXCEPT !.stale = @ \cup columns] ELSE req[p]
      BY <2>2 DEF Goes
    <3>3. QED
      BY <3>1, <3>2 DEF Keeps, Ages, Request
  <2>3. QED
    BY <2>1, <2>2
<1>3. QED
  BY <1>1, <1>2

LEMMA DisturbFrame ==
  ASSUME TypeInv, NEW begun \in SUBSET Slots, NEW request, Disturb(begun, request)
  PROVE  /\ DOMAIN req' = Slots /\ \A q \in begun : req'[q] = request
         /\ \A p \in Slots \ begun : Keeps(p) /\ (Busy(p) => ~req'[p].alone /\ req'[p].stale = req[p].stale)
         /\ TypedProbe' /\ probe' = [probe EXCEPT !.alone = probe'.alone]
         /\ probe.at # "over" => ~probe'.alone
<1>1. DOMAIN req' = Slots /\ \A q \in begun : req'[q] = request
  BY DEF Disturb
<1>2. ASSUME NEW p \in Slots \ begun
      PROVE  Keeps(p) /\ (Busy(p) => ~req'[p].alone /\ req'[p].stale = req[p].stale)
  <2>1. CASE ~Busy(p)
    BY <2>1 DEF Disturb, Keeps
  <2>2. CASE Busy(p)
    <3>1. Request(req[p])
      BY <2>2 DEF TypeInv
    <3>2. req'[p] = [req[p] EXCEPT !.alone = FALSE]
      BY <2>2 DEF Disturb
    <3>3. QED
      BY <3>1, <3>2 DEF Keeps, Request
  <2>3. QED
    BY <2>1, <2>2
<1>3. /\ TypedProbe' /\ probe' = [probe EXCEPT !.alone = probe'.alone]
      /\ probe.at # "over" => ~probe'.alone
  BY DEF Disturb, TypeInv, TypedProbe
<1>4. QED
  BY <1>1, <1>2, <1>3

LEMMA ColumnsFrame ==
  ASSUME TypeInv, NEW values, rows["device"].there, Columns(values)
  PROVE  /\ DOMAIN req' = Slots
         /\ \A p \in Slots : Keeps(p) /\ (Busy(p) => Ages(p, "device", DOMAIN values))
<1>1. req' = [p \in Slots |-> IF Busy(p) /\ req[p].table = "device"
                             THEN [req[p] EXCEPT !.stale = @ \cup DOMAIN values] ELSE req[p]]
  BY DEF Columns
<1>2. ASSUME NEW p \in Slots
      PROVE  Keeps(p) /\ (Busy(p) => Ages(p, "device", DOMAIN values))
  <2>1. CASE ~Busy(p)
    BY <1>1, <2>1 DEF Keeps
  <2>2. CASE Busy(p)
    <3>1. Request(req[p])
      BY <2>2 DEF TypeInv
    <3>2. req'[p] = IF req[p].table = "device" THEN [req[p] EXCEPT !.stale = @ \cup DOMAIN values] ELSE req[p]
      BY <1>1, <2>2
    <3>3. QED
      BY <3>1, <3>2 DEF Keeps, Ages, Request
  <2>3. QED
    BY <2>1, <2>2
<1>3. QED
  BY <1>1, <1>2

(* Statement adds a request that tells about the row, and disturbs the     *)
(* others; the copies of the row are stale when it is deleted.             *)
LEMMA StatementFrame ==
  ASSUME TypeInv, NEW q \in Slots, NEW t \in Tables, NEW row, Statement(q, t, row)
  PROVE  /\ ~Busy(q) /\ DOMAIN req' = Slots
         /\ req'[q] = [at |-> "tell", op |-> Edit(row), table |-> t, copy |-> row, stale |-> {}, alone |-> Quiet]
         /\ \A p \in Slots \ {q} :
              Keeps(p) /\ (Busy(p) => /\ ~req'[p].alone
                                      /\ req[p].table = t => DOMAIN rows[t] \subseteq req'[p].stale
                                      /\ req[p].table # t => req'[p].stale = req[p].stale)
<1>1. /\ ~Busy(q) /\ DOMAIN req' = Slots
      /\ req'[q] = [at |-> "tell", op |-> Edit(row), table |-> t, copy |-> row, stale |-> {}, alone |-> Quiet]
  BY DEF Statement
<1>2. ASSUME NEW p \in Slots \ {q}
      PROVE  Keeps(p) /\ (Busy(p) => /\ ~req'[p].alone
                                     /\ req[p].table = t => DOMAIN rows[t] \subseteq req'[p].stale
                                     /\ req[p].table # t => req'[p].stale = req[p].stale)
  <2>1. CASE ~Busy(p)
    BY <2>1 DEF Statement, Keeps
  <2>2. CASE Busy(p)
    <3>1. Request(req[p])
      BY <2>2 DEF TypeInv
    <3>2. req'[p] = [req[p] EXCEPT !.alone = FALSE,
                       !.stale = IF req[p].table = t THEN @ \cup DOMAIN rows[t] ELSE @]
      BY <2>2 DEF Statement
    <3>3. QED
      BY <3>1, <3>2 DEF Keeps, Request
  <2>3. QED
    BY <2>1, <2>2
<1>3. QED
  BY <1>1, <1>2

LEMMA RowThere ==
  ASSUME NEW v, TypedRows(v), NEW t \in Tables
  PROVE  /\ v[t].there \in BOOLEAN
         /\ v[t].there => v[t] \in RowOf(t)
         /\ ~v[t].there => v[t] = Absent
<1>1. \A row \in RowOf(t) : row.there = TRUE
  BY DEF RowOf, Device, Network
<1>2. Absent.there = FALSE
  BY DEF Absent
<1>3. v[t] \in RowOf(t) \/ v[t] = Absent
  BY DEF TypedRows
<1>4. QED
  BY <1>1, <1>2, <1>3

LEMMA NewRows ==
  ASSUME DevicesAssumption
  PROVE  /\ \A name \in Names, ip \in IPs : NewDevice(name, ip) \in RowOf("device")
         /\ \A name \in Names : NewNetwork(name) \in RowOf("network")
         /\ "full" \in Levels
  BY DEF DevicesAssumption, NewDevice, NewNetwork, RowOf, Device, Network, LampStates, Modes

(* A request that saves writes the columns it changes, over its copy.      *)
LEMMA SaveFrame ==
  ASSUME DevicesAssumption, TypeInv, NEW q \in Slots, NEW next, Save(q, next),
         req[q].at \in {"answer", "failed", "save"}
  PROVE  LET t == req[q].table
             given == DOMAIN Values(q) \cup req[q].stale
         IN  /\ t \in Tables /\ Request(req[q]) /\ req[q].copy \in RowOf(t)
             /\ Over(Values(q), req[q].copy) \in RowOf(t)
             /\ DOMAIN Over(Values(q), req[q].copy) = DOMAIN req[q].copy
             /\ \A c \in DOMAIN req[q].copy :
                  Over(Values(q), req[q].copy)[c] = IF c \in DOMAIN Values(q) THEN Values(q)[c] ELSE req[q].copy[c]
             /\ rows' = [rows EXCEPT ![t] = Over(Values(q), req[q].copy)]
             /\ TypedRows(rows)'
             /\ Goes(q, next, t, IF rows[t].there THEN given ELSE DOMAIN req[q].copy)
<1>1. Request(req[q]) /\ req[q].table \in Tables /\ req[q].copy \in RowOf(req[q].table)
  BY DEF TypeInv, Busy, Request
<1>2. Values(q) \in ColumnsOf(req[q].table)
  BY <1>1, NewRows, ValuesType
<1>3. /\ Over(Values(q), req[q].copy) \in RowOf(req[q].table)
      /\ DOMAIN Over(Values(q), req[q].copy) = DOMAIN req[q].copy
      /\ \A c \in DOMAIN req[q].copy :
           Over(Values(q), req[q].copy)[c] = IF c \in DOMAIN Values(q) THEN Values(q)[c] ELSE req[q].copy[c]
  BY <1>1, <1>2, OverRow
<1>4. rows' = [rows EXCEPT ![req[q].table] = Over(Values(q), req[q].copy)]
  BY DEF Save
<1>5. TypedRows(rows)'
  BY <1>1, <1>3, <1>4 DEF TypeInv, TypedRows
<1>6. Goes(q, next, req[q].table, IF rows[req[q].table].there THEN DOMAIN Values(q) \cup req[q].stale
                                  ELSE DOMAIN req[q].copy)
  BY <1>3 DEF Save
<1>7. QED
  BY <1>1, <1>3, <1>4, <1>5, <1>6

-----------------------------------------------------------------------------
(* Types. *)
LEMMA InitType == DevicesAssumption /\ Init => TypeInv
<1> SUFFICES ASSUME DevicesAssumption, Init PROVE TypeInv
  OBVIOUS
<1>1. TypedRows(rows)
  <2>1. CASE rows = [t \in Tables |-> Absent]
    BY <2>1 DEF TypedRows
  <2>2. CASE \E ip \in IPs : rows = Seeds(CHOOSE name \in Names : TRUE, ip)
    <3>1. PICK name \in Names, ip \in IPs : rows = Seeds(name, ip)
      BY <2>2 DEF DevicesAssumption
    <3>2. QED
      BY <3>1, NewRows DEF Seeds, TypedRows, Tables
  <2>3. QED
    BY <2>1, <2>2 DEF Init
<1>2. bulb \in Lamps
  BY NewRows DEF Init, Lamps, Modes
<1>3. TypedProbe
  BY DEF Init, NoProbe, TypedProbe, DevicesAssumption
<1>4. QED
  BY <1>1, <1>2, <1>3 DEF Init, TypeInv, NoReq, Busy

(* A step that moves one request on, or ends it.                           *)
LEMMA MovesType ==
  ASSUME TypeInv, NEW q \in Slots, NEW next, next = NoReq \/ Request(next), req' = [req EXCEPT ![q] = next]
  PROVE  DOMAIN req' = Slots /\ \A p \in Slots : Busy(p)' => Request(req'[p])
  BY DEF TypeInv, Busy, NoReq

LEMMA StartType ==
  ASSUME DevicesAssumption, TypeInv, NEW q \in Slots, NEW t \in Tables, NEW at, NEW op, Start(q, t, at, op),
         \/ at = "send" /\ t = "device" /\ op \in Commands \cup {Get}
         \/ at = "save" /\ "values" \in DOMAIN op /\ op.values \in EditsOf(t)
  PROVE  TypeInv'
<1> DEFINE next == [at |-> at, op |-> op, table |-> t, copy |-> rows[t], stale |-> {}, alone |-> Quiet]
<1>1. Disturb({q}, next)
  BY DEF Start
<1>2. rows[t] \in RowOf(t)
  BY RowThere DEF Start, TypeInv
<1>3. Quiet \in BOOLEAN
  BY DEF Quiet
<1>4. Request(next)
  BY <1>2, <1>3 DEF Request
<1> HIDE DEF next
<1>5. /\ DOMAIN req' = Slots /\ req'[q] = next
      /\ \A p \in Slots \ {q} : Keeps(p)
      /\ TypedProbe'
  BY <1>1, DisturbFrame
<1>6. \A p \in Slots : Busy(p)' => Request(req'[p])
  BY <1>4, <1>5, KeepsType DEF TypeInv
<1>7. QED
  BY <1>5, <1>6 DEF Start, TypeInv, TypedRows

LEMMA StatementType ==
  ASSUME TypeInv, NEW q \in Slots, NEW t \in Tables, NEW row \in RowOf(t) \cup {Absent}, Statement(q, t, row),
         TypedProbe', suspect' \in BOOLEAN
  PROVE  TypeInv'
<1>1. Quiet \in BOOLEAN
  BY DEF Quiet
<1>2. DOMAIN req' = Slots /\ \A p \in Slots \ {q} : Keeps(p)
  BY StatementFrame
<1> DEFINE next == [at |-> "tell", op |-> Edit(row), table |-> t, copy |-> row, stale |-> {}, alone |-> Quiet]
<1>3. Request(next)
  BY <1>1 DEF Request
<1>4. req'[q] = next
  BY StatementFrame
<1>5. Request(req'[q])
  BY <1>3, <1>4
<1>6. \A p \in Slots : Busy(p)' => Request(req'[p])
  BY <1>2, <1>5, KeepsType DEF TypeInv
<1>7. TypedRows(rows)'
  BY DEF Statement, TypeInv, TypedRows
<1>8. QED
  BY <1>2, <1>6, <1>7 DEF Statement, TypeInv, TypedRows

LEMMA TellingType ==
  ASSUME DevicesAssumption, TypeInv, NEW q \in Slots, req[q].at \in {"answer", "save"}
  PROVE  Request(Telling(q)) /\ Request([Telling(q) EXCEPT !.alone = FALSE])
<1>1. Request(req[q]) /\ req[q].table \in Tables /\ req[q].copy \in RowOf(req[q].table)
  BY DEF TypeInv, Busy, Request
<1>2. Over(Values(q), req[q].copy) \in RowOf(req[q].table)
  BY <1>1, NewRows, ValuesType, OverRow
<1> DEFINE new == Over(Values(q), req[q].copy)
<1>3. Telling(q) = [req[q] EXCEPT !.at = "tell", !.copy = new]
  BY DEF Telling
<1> HIDE DEF new
<1>4. QED
  BY <1>1, <1>2, <1>3 DEF Request, new

LEMMA SaveType ==
  ASSUME DevicesAssumption, TypeInv, NEW q \in Slots, NEW next, Save(q, next),
         next = NoReq \/ Request(next), req[q].at \in {"answer", "failed", "save"}
  PROVE  /\ TypedRows(rows)' /\ DOMAIN req' = Slots
         /\ \A p \in Slots : Busy(p)' => Request(req'[p])
<1>1. PICK t, columns : Goes(q, next, t, columns)
  BY SaveFrame
<1>2. DOMAIN req' = Slots /\ req'[q] = next /\ \A p \in Slots \ {q} : Keeps(p)
  BY <1>1, GoesFrame
<1>3. \A p \in Slots : Busy(p)' => Request(req'[p])
  BY <1>2, KeepsType DEF TypeInv, Busy, NoReq
<1>4. QED
  BY <1>2, <1>3, SaveFrame

LEMMA ColumnsType ==
  ASSUME TypeInv, NEW values \in ColumnsOf("device"), Columns(values)
  PROVE  /\ TypedRows(rows)' /\ DOMAIN req' = Slots /\ unseen' \subseteq Tables
         /\ \A p \in Slots : Busy(p)' => Request(req'[p])
<1>1. CASE rows["device"].there
  <2>1. rows["device"] \in RowOf("device")
    BY <1>1, RowThere DEF TypeInv, Tables
  <2>2. Over(values, rows["device"]) \in RowOf("device")
    BY <2>1, OverRow DEF Tables
  <2>3. TypedRows(rows)'
    BY <1>1, <2>2 DEF Columns, TypeInv, TypedRows
  <2>4. DOMAIN req' = Slots /\ \A p \in Slots : Keeps(p)
    BY <1>1, ColumnsFrame
  <2>5. QED
    BY <1>1, <2>3, <2>4, KeepsType DEF Columns, TypeInv, Tables
<1>2. CASE ~rows["device"].there
  BY <1>2 DEF Columns, TypeInv, Busy, TypedRows
<1>3. QED
  BY <1>1, <1>2

LEMMA TypeStep == DevicesAssumption /\ TypeInv /\ [Next]_vars => TypeInv'
<1> SUFFICES ASSUME DevicesAssumption, TypeInv, [Next]_vars PROVE TypeInv'
  OBVIOUS
<1>1. ASSUME NEW q \in Slots, Control(q) \/ State(q) PROVE TypeInv'
  BY <1>1, StartType DEF Control, State, Tables
<1>2. ASSUME NEW q \in Slots, Update(q) PROVE TypeInv'
  <2>1. ASSUME NEW t \in Tables, NEW name \in Names, Start(q, t, "save", Edit([name |-> name])) PROVE TypeInv'
    <3>1. "values" \in DOMAIN Edit([name |-> name]) /\ Edit([name |-> name]).values \in EditsOf(t)
      BY DEF Edit, EditsOf
    <3>2. QED
      BY <2>1, <3>1, StartType
  <2>2. ASSUME NEW ip \in IPs, Start(q, "device", "save", Edit([ip |-> ip])) PROVE TypeInv'
    <3>1. "values" \in DOMAIN Edit([ip |-> ip]) /\ Edit([ip |-> ip]).values \in EditsOf("device")
      BY DEF Edit, EditsOf
    <3>2. QED
      BY <2>2, <3>1, StartType DEF Tables
  <2>3. QED
    BY <1>2, <2>1, <2>2 DEF Update
<1>3. ASSUME NEW q \in Slots, Toggle(q) PROVE TypeInv'
  <2>1. PICK op : Start(q, "network", "save", op) /\ op = Edit([enabled |-> ~rows["network"].enabled])
    BY <1>3 DEF Toggle
  <2>2. (~rows["network"].enabled) \in BOOLEAN
    OBVIOUS
  <2>3. "values" \in DOMAIN op /\ op.values \in EditsOf("network")
    BY <2>1, <2>2 DEF Edit, EditsOf
  <2>4. QED
    BY <2>1, <2>3, StartType DEF Tables
<1>4. ASSUME NEW q \in Slots, CreateDevice(q) PROVE TypeInv'
  <2>1. PICK name \in Names, ip \in IPs : Statement(q, "device", NewDevice(name, ip))
                                          /\ probe' = [at |-> "config", alone |-> Quiet, ip |-> ip]
    BY <1>4 DEF CreateDevice
  <2>2. TypedProbe'
    BY <2>1 DEF TypedProbe, Quiet
  <2>3. QED
    BY <1>4, <2>1, <2>2, StatementType, NewRows DEF CreateDevice, Tables
<1>5. ASSUME NEW q \in Slots, CreateNetwork(q) PROVE TypeInv'
  <2>1. TypedProbe'
    BY <1>5 DEF CreateNetwork, TypeInv, TypedProbe
  <2>2. QED
    BY <1>5, <2>1, StatementType, NewRows DEF CreateNetwork, Tables, TypeInv
<1>6. ASSUME NEW q \in Slots, Delete(q) PROVE TypeInv'
  <2>1. TypedProbe'
    BY <1>6 DEF Delete, TypeInv, TypedProbe
  <2>2. QED
    BY <1>6, <2>1, StatementType DEF Delete, TypeInv
<1>7. ASSUME NEW q \in Slots, Reached(q) PROVE TypeInv'
  <2> DEFINE next == [got |-> bulb', at |-> "answer", op |-> req[q].op, table |-> req[q].table,
                      copy |-> req[q].copy, stale |-> req[q].stale, alone |-> req[q].alone]
  <2>1. req' = [req EXCEPT ![q] = next]
    BY <1>7 DEF Reached
  <2>2. Request(req[q])
    BY <1>7 DEF Reached, TypeInv, Busy
  <2>3. bulb' \in Lamps
    BY <1>7, <2>2, ShinesType, NewRows DEF Reached, TypeInv, Request
  <2>4. Request(next)
    BY <1>7, <2>2, <2>3 DEF Request, Reached
  <2> HIDE DEF next
  <2>5. DOMAIN req' = Slots /\ \A p \in Slots : Busy(p)' => Request(req'[p])
    BY <2>1, <2>4, MovesType
  <2>6. QED
    BY <1>7, <2>3, <2>5 DEF Reached, TypeInv, TypedRows, TypedProbe
<1>8. ASSUME NEW q \in Slots, NoAnswer(q) PROVE TypeInv'
  <2> DEFINE next == [req[q] EXCEPT !.at = "failed"]
  <2>1. req' = [req EXCEPT ![q] = next]
    BY <1>8 DEF NoAnswer
  <2>2. Request(req[q]) /\ req[q].at \in {"send", "answer"}
    BY <1>8 DEF NoAnswer, TypeInv, Busy
  <2>3. Request(next)
    BY <2>2 DEF Request
  <2> HIDE DEF next
  <2>4. DOMAIN req' = Slots /\ \A p \in Slots : Busy(p)' => Request(req'[p])
    BY <2>1, <2>3, MovesType
  <2>5. QED
    BY <1>8, <2>4 DEF NoAnswer, TypeInv, TypedRows, TypedProbe
<1>9. ASSUME NEW q \in Slots, SaveEdit(q) PROVE TypeInv'
  <2>1. DOMAIN req' = Slots /\ TypedRows(rows)' /\ \A p \in Slots : Busy(p)' => Request(req'[p])
    BY <1>9, TellingType, SaveType DEF SaveEdit
  <2>2. QED
    BY <1>9, <2>1 DEF SaveEdit, TypeInv, TypedRows, TypedProbe
<1>10. ASSUME NEW q \in Slots, EditFails(q) \/ ControlFailed(q) \/ PollNotSaved(q) \/ Tell(q)
      PROVE  TypeInv'
  <2>1. DOMAIN req' = Slots /\ \A p \in Slots : Busy(p)' => Request(req'[p])
    BY <1>10, MovesType DEF EditFails, ControlFailed, PollNotSaved, Tell, Ends
  <2>2. CASE EditFails(q) \/ ControlFailed(q) \/ PollNotSaved(q)
    BY <2>1, <2>2 DEF EditFails, ControlFailed, PollNotSaved, TypeInv, TypedRows, TypedProbe
  <2>3. CASE Tell(q)
    <3>1. Request(req[q])
      BY <2>3 DEF Tell, TypeInv, Busy
    <3>2. TypedRows(screen)' /\ unseen' \subseteq Tables
      BY <2>3, <3>1 DEF Tell, TypeInv, TypedRows, Request
    <3>3. QED
      BY <2>1, <2>3, <3>2 DEF Tell, TypeInv, TypedRows, TypedProbe
  <2>4. QED
    BY <1>10, <2>2, <2>3
<1>11. ASSUME NEW q \in Slots, Answered(q) PROVE TypeInv'
  <2>1. DOMAIN req' = Slots /\ TypedRows(rows)' /\ \A p \in Slots : Busy(p)' => Request(req'[p])
    BY <1>11, TellingType, SaveType DEF Answered
  <2>2. QED
    BY <1>11, <2>1 DEF Answered, TypeInv, TypedRows, TypedProbe
<1>12. ASSUME NEW q \in Slots, AnswerNotSaved(q) PROVE TypeInv'
  <2>1. DOMAIN req' = Slots /\ \A p \in Slots : Busy(p)' => Request(req'[p])
    BY <1>12, TellingType, MovesType DEF AnswerNotSaved
  <2>2. QED
    BY <1>12, <2>1 DEF AnswerNotSaved, TypeInv, TypedRows, TypedProbe
<1>13. ASSUME NEW q \in Slots, PollFailed(q) PROVE TypeInv'
  <2>1. DOMAIN req' = Slots /\ TypedRows(rows)' /\ \A p \in Slots : Busy(p)' => Request(req'[p])
    BY <1>13, SaveType DEF PollFailed
  <2>2. QED
    BY <1>13, <2>1 DEF PollFailed, TypeInv, TypedRows, TypedProbe, Tables
<1>14. ASSUME ByHand PROVE TypeInv'
  <2>1. /\ DOMAIN req' = Slots /\ TypedProbe'
        /\ \A p \in Slots : Keeps(p)
    BY <1>14, DisturbFrame DEF ByHand
  <2>2. bulb' \in Lamps
    BY <1>14 DEF ByHand, Lamps
  <2>3. QED
    BY <1>14, <2>1, <2>2, KeepsType DEF ByHand, TypeInv, TypedRows
<1>15. ASSUME ProbeConfig \/ ProbePilot PROVE TypeInv'
  <2>1. TypedProbe'
    <3>1. CASE ProbeEnds
      BY <3>1 DEF ProbeEnds, NoProbe, TypedProbe, DevicesAssumption
    <3>2. CASE probe' = [probe EXCEPT !.at = "update"]
      BY <3>2 DEF TypeInv, TypedProbe
    <3>3. CASE probe' = [got |-> bulb, at |-> "store", alone |-> probe.alone, ip |-> probe.ip]
      BY <3>3 DEF TypeInv, TypedProbe
    <3>4. QED
      BY <1>15, <3>1, <3>2, <3>3 DEF ProbeConfig, ProbePilot
  <2>2. QED
    BY <1>15, <2>1 DEF ProbeConfig, ProbePilot, TypeInv, TypedRows, Busy
<1>16. ASSUME ProbeUpdate PROVE TypeInv'
  <2>1. TypedProbe'
    BY <1>16 DEF ProbeUpdate, TypeInv, TypedProbe
  <2>2. /\ TypedRows(rows)' /\ DOMAIN req' = Slots /\ unseen' \subseteq Tables
        /\ \A p \in Slots : Busy(p)' => Request(req'[p])
    <3>1. CASE Columns([online |-> TRUE])
      BY <3>1, ColumnsType DEF ColumnsOf
    <3>2. CASE UNCHANGED <<rows, meant, req, unseen>>
      BY <3>2 DEF TypeInv, TypedRows, Busy
    <3>3. QED
      BY <1>16, <3>1, <3>2 DEF ProbeUpdate
  <2>3. QED
    BY <1>16, <2>1, <2>2 DEF ProbeUpdate, TypeInv, TypedRows
<1>17. ASSUME ProbeStore PROVE TypeInv'
  <2>1. TypedProbe'
    BY <1>17 DEF ProbeStore, ProbeEnds, NoProbe, TypedProbe, DevicesAssumption
  <2> DEFINE state == [on |-> probe.got.on, brightness |-> probe.got.brightness,
                       keys |-> {"color_temp"} \cap {probe.got.mode}]
  <2>2. state \in LampStates
    BY <1>17 DEF ProbeStore, TypeInv, TypedProbe, LampStates, Lamps, Modes
  <2>3. [state |-> state] \in ColumnsOf("device")
    BY <2>2 DEF ColumnsOf
  <2>4. \/ Columns([state |-> state]) /\ suspect' \in BOOLEAN
        \/ UNCHANGED <<rows, meant, req, unseen, suspect>>
    BY <1>17 DEF ProbeStore
  <2> HIDE DEF state
  <2>5. /\ TypedRows(rows)' /\ DOMAIN req' = Slots /\ unseen' \subseteq Tables
        /\ \A p \in Slots : Busy(p)' => Request(req'[p])
    <3>1. CASE Columns([state |-> state])
      BY <2>3, <3>1, ColumnsType
    <3>2. CASE UNCHANGED <<rows, meant, req, unseen>>
      BY <3>2 DEF TypeInv, TypedRows, Busy
    <3>3. QED
      BY <2>4, <3>1, <3>2
  <2>6. QED
    BY <1>17, <2>1, <2>4, <2>5 DEF ProbeStore, TypeInv, TypedRows
<1>18. CASE UNCHANGED vars
  BY <1>18 DEF vars, counters, TypeInv, TypedRows, TypedProbe, Busy
<1>19. QED
  BY <1>1, <1>2, <1>3, <1>4, <1>5, <1>6, <1>7, <1>8, <1>9, <1>10, <1>11, <1>12, <1>13, <1>14, <1>15,
     <1>16, <1>17, <1>18 DEF Next

-----------------------------------------------------------------------------
(* EditsSurvive.                                                           *)

Working(q) == Busy(q) /\ req[q].at # "tell"

(* What is not stale of the copy of a request is still in the row.         *)
Fresh(q) ==
  Working(q) => \A c \in DOMAIN req[q].copy \ req[q].stale :
                  rows[req[q].table].there /\ rows[req[q].table][c] = req[q].copy[c]

CopyInv == rows = meant /\ \A q \in Slots : Fresh(q)

LEMMA RowColumns ==
  ASSUME NEW t \in Tables
  PROVE  \E columns : \A row \in RowOf(t) : DOMAIN row = columns
  BY DEF RowOf, Device, Network

(* The copy of another request stays fresh when the row changes nowhere    *)
(* but in columns that the step makes stale.                               *)
LEMMA FreshKept ==
  ASSUME NEW p \in Slots, Busy(p) => Request(req[p]), Keeps(p), Fresh(p),
         Working(p) => \A c \in DOMAIN req[p].copy \ req'[p].stale :
           rows[req[p].table].there =>
             rows'[req[p].table].there /\ rows'[req[p].table][c] = rows[req[p].table][c]
  PROVE  Fresh(p)'
  BY DEF Fresh, Working, Busy, Keeps

LEMMA SameRowsFresh ==
  ASSUME TypeInv, CopyInv, rows' = rows, meant' = meant, NEW q, \A p \in Slots \ {q} : Keeps(p), Fresh(q)'
  PROVE  CopyInv'
<1>1. \A p \in Slots \ {q} : Fresh(p)'
  BY FreshKept DEF TypeInv, CopyInv
<1>2. QED
  BY <1>1 DEF CopyInv

(* Save puts over the row what the request was asked to change, and what   *)
(* others have changed since it was loaded.                                *)
LEMMA SaveFresh ==
  ASSUME DevicesAssumption, TypeInv, CopyInv, NEW q \in Slots, NEW next, Save(q, next),
         req[q].at \in {"answer", "failed", "save"}
  PROVE  rows' = meant' /\ \A p \in Slots \ {q} : Fresh(p)'
<1> DEFINE t == req[q].table
           copy == req[q].copy
           new == Over(Values(q), copy)
           given == DOMAIN Values(q) \cup req[q].stale
<1>1. /\ t \in Tables /\ copy \in RowOf(t) /\ DOMAIN new = DOMAIN copy /\ new \in RowOf(t)
      /\ \A c \in DOMAIN copy : new[c] = IF c \in DOMAIN Values(q) THEN Values(q)[c] ELSE copy[c]
      /\ rows' = [rows EXCEPT ![t] = new]
      /\ Goes(q, next, t, IF rows[t].there THEN given ELSE DOMAIN copy)
  BY SaveFrame
<1>2. \A c \in DOMAIN copy \ req[q].stale : rows[t].there /\ rows[t][c] = copy[c]
  BY DEF CopyInv, Fresh, Working, Busy
<1>3. new = [c \in DOMAIN new |-> new[c]]
  BY DEF Over
<1>4. meant' = [meant EXCEPT ![t] = [c \in DOMAIN new |-> IF c \in given THEN new[c] ELSE meant[t][c]]]
  BY DEF Save
<1> HIDE DEF new, given
<1>5. \A c \in DOMAIN new : c \notin given => new[c] = rows[t][c] /\ rows[t].there
  BY <1>1, <1>2 DEF given
<1>6. rows = meant
  BY DEF CopyInv
<1>7. [c \in DOMAIN new |-> IF c \in given THEN new[c] ELSE meant[t][c]] = new
  BY <1>3, <1>5, <1>6
<1>8. rows' = meant'
  BY <1>1, <1>4, <1>6, <1>7
<1>9. ASSUME NEW p \in Slots \ {q}
      PROVE  Fresh(p)'
  <2>1. Keeps(p) /\ (Busy(p) => Ages(p, t, IF rows[t].there THEN given ELSE DOMAIN copy))
    BY <1>1, GoesFrame
  <2>2. (Busy(p) => Request(req[p])) /\ Fresh(p)
    BY DEF TypeInv, CopyInv
  <2>3. ASSUME Working(p), NEW c \in DOMAIN req[p].copy \ req'[p].stale, rows[req[p].table].there
        PROVE  rows'[req[p].table].there /\ rows'[req[p].table][c] = rows[req[p].table][c]
    <3>1. CASE req[p].table # t
      BY <1>1, <2>3, <3>1 DEF TypeInv, TypedRows
    <3>2. CASE req[p].table = t
      <4>1. req'[p].stale = req[p].stale \cup given
        BY <2>1, <2>3, <3>2 DEF Ages, Working
      <4>2. req[p].copy \in RowOf(t)
        BY <2>2, <2>3, <3>2 DEF Request, Working
      <4>3. c \in DOMAIN new
        BY <1>1, <4>2, RowColumns
      <4>4. new[c] = rows[t][c]
        BY <1>5, <2>3, <4>1, <4>3
      <4>5. new.there
        BY <1>1 DEF RowOf, Device, Network
      <4>6. rows'[t] = new
        BY <1>1 DEF TypeInv, TypedRows
      <4>7. QED
        BY <3>2, <4>4, <4>5, <4>6
    <3>3. QED
      BY <3>1, <3>2
  <2>4. QED
    BY <2>1, <2>2, <2>3, FreshKept
<1>10. QED
  BY <1>8, <1>9

LEMMA ColumnsFresh ==
  ASSUME TypeInv, CopyInv, NEW values \in ColumnsOf("device"), Columns(values)
  PROVE  CopyInv'
<1>1. CASE rows["device"].there
  <2>1. rows["device"] \in RowOf("device") /\ "device" \in Tables
    BY <1>1, RowThere DEF TypeInv, Tables
  <2> DEFINE new == Over(values, rows["device"])
  <2>2. /\ new \in RowOf("device") /\ DOMAIN new = DOMAIN rows["device"]
        /\ \A c \in DOMAIN new : c \notin DOMAIN values => new[c] = rows["device"][c]
    BY <2>1, OverRow
  <2>3. rows' = [rows EXCEPT !["device"] = new] /\ meant' = [meant EXCEPT !["device"] = Over(values, meant["device"])]
    BY <1>1 DEF Columns
  <2>4. rows' = meant'
    BY <2>3 DEF CopyInv
  <2> HIDE DEF new
  <2>5. ASSUME NEW p \in Slots
        PROVE  Fresh(p)'
    <3>1. Keeps(p) /\ (Busy(p) => Ages(p, "device", DOMAIN values))
      BY <1>1, ColumnsFrame
    <3>2. (Busy(p) => Request(req[p])) /\ Fresh(p)
      BY DEF TypeInv, CopyInv
    <3>3. ASSUME Working(p), NEW c \in DOMAIN req[p].copy \ req'[p].stale, rows[req[p].table].there
          PROVE  rows'[req[p].table].there /\ rows'[req[p].table][c] = rows[req[p].table][c]
      <4>1. CASE req[p].table # "device"
        BY <2>3, <3>3, <4>1 DEF TypeInv, TypedRows
      <4>2. CASE req[p].table = "device"
        <5>1. req'[p].stale = req[p].stale \cup DOMAIN values
          BY <3>1, <3>3, <4>2 DEF Ages, Working
        <5>2. req[p].copy \in RowOf("device")
          BY <3>2, <3>3, <4>2 DEF Request, Working
        <5>3. c \in DOMAIN new
          BY <2>2, <5>2, RowColumns, <2>1
        <5>4. new[c] = rows["device"][c]
          BY <2>2, <3>3, <5>1, <5>3
        <5>5. new.there
          BY <2>2 DEF RowOf, Device
        <5>6. rows'["device"] = new
          BY <2>1, <2>3 DEF TypeInv, TypedRows
        <5>7. QED
          BY <4>2, <5>4, <5>5, <5>6
      <4>3. QED
        BY <4>1, <4>2
    <3>4. QED
      BY <3>1, <3>2, <3>3, FreshKept
  <2>6. QED
    BY <2>4, <2>5 DEF CopyInv
<1>2. CASE ~rows["device"].there
  BY <1>2 DEF Columns, CopyInv, Fresh, Working, Busy
<1>3. QED
  BY <1>1, <1>2

(* A row is inserted when no request has a copy of one, and a deleted row  *)
(* leaves nothing fresh.                                                   *)
LEMMA StatementFresh ==
  ASSUME TypeInv, CopyInv, NEW q \in Slots, NEW t \in Tables, NEW row, Statement(q, t, row),
         rows[t].there \/ \A p \in Slots : Busy(p) => req[p].table # t
  PROVE  CopyInv'
<1>1. rows' = [rows EXCEPT ![t] = row] /\ meant' = [meant EXCEPT ![t] = row] /\ rows' = meant'
  BY DEF Statement, CopyInv
<1>2. req'[q].at = "tell"
  BY DEF Statement
<1>3. ASSUME NEW p \in Slots \ {q}
      PROVE  Fresh(p)'
  <2>1. Keeps(p) /\ (Busy(p) /\ req[p].table = t => DOMAIN rows[t] \subseteq req'[p].stale)
    BY StatementFrame
  <2>2. (Busy(p) => Request(req[p])) /\ Fresh(p)
    BY DEF TypeInv, CopyInv
  <2>3. ASSUME Working(p), NEW c \in DOMAIN req[p].copy \ req'[p].stale, rows[req[p].table].there
        PROVE  rows'[req[p].table].there /\ rows'[req[p].table][c] = rows[req[p].table][c]
    <3>1. CASE req[p].table # t
      BY <1>1, <2>3, <3>1 DEF TypeInv, TypedRows
    <3>2. CASE req[p].table = t
      <4>1. rows[t] \in RowOf(t) /\ req[p].copy \in RowOf(t)
        BY <2>2, <2>3, <3>2, RowThere DEF Request, Working, TypeInv
      <4>2. DOMAIN rows[t] = DOMAIN req[p].copy
        BY <4>1, RowColumns
      <4>3. QED
        BY <2>1, <2>3, <3>2, <4>2 DEF Working
    <3>3. QED
      BY <3>1, <3>2
  <2>4. QED
    BY <2>1, <2>2, <2>3, FreshKept
<1>4. Fresh(q)'
  BY <1>2 DEF Fresh, Working
<1>5. QED
  BY <1>1, <1>3, <1>4 DEF CopyInv

LEMMA StartFresh ==
  ASSUME TypeInv, CopyInv, NEW q \in Slots, NEW t \in Tables, NEW at, NEW op, Start(q, t, at, op)
  PROVE  CopyInv'
<1> DEFINE next == [at |-> at, op |-> op, table |-> t, copy |-> rows[t], stale |-> {}, alone |-> Quiet]
<1>1. Disturb({q}, next) /\ rows' = rows /\ meant' = meant /\ rows[t].there
  BY DEF Start
<1>2. next.table = t /\ next.copy = rows[t]
  OBVIOUS
<1> HIDE DEF next
<1>3. req'[q] = next /\ \A p \in Slots \ {q} : Keeps(p)
  BY <1>1, DisturbFrame
<1>4. Fresh(q)'
  BY <1>1, <1>2, <1>3 DEF Fresh
<1>5. QED
  BY <1>1, <1>3, <1>4, SameRowsFresh

(* A step that moves one request on, or ends it, without writing a row.    *)
LEMMA MovesFresh ==
  ASSUME TypeInv, CopyInv, rows' = rows, meant' = meant, NEW q \in Slots, NEW next, req' = [req EXCEPT ![q] = next],
         \/ next.at \in {"idle", "tell"}
         \/ Busy(q) /\ req[q].at # "tell"
            /\ next.copy = req[q].copy /\ next.stale = req[q].stale /\ next.table = req[q].table
  PROVE  CopyInv'
<1>1. req'[q] = next /\ \A p \in Slots \ {q} : req'[p] = req[p]
  BY DEF TypeInv
<1>2. Fresh(q)'
  BY <1>1 DEF CopyInv, Fresh, Working, Busy
<1>3. \A p \in Slots \ {q} : Fresh(p)'
  BY <1>1 DEF CopyInv, Fresh, Working, Busy
<1>4. QED
  BY <1>2, <1>3 DEF CopyInv

LEMMA CopyStep == DevicesAssumption /\ TypeInv /\ CopyInv /\ [Next]_vars => CopyInv'
<1> SUFFICES ASSUME DevicesAssumption, TypeInv, CopyInv, [Next]_vars PROVE CopyInv'
  OBVIOUS
<1>1. ASSUME NEW q \in Slots, Control(q) \/ State(q) \/ Update(q) \/ Toggle(q) PROVE CopyInv'
  BY <1>1, StartFresh DEF Control, State, Update, Toggle, Tables
<1>2. ASSUME NEW q \in Slots, CreateDevice(q) \/ CreateNetwork(q) \/ Delete(q) PROVE CopyInv'
  BY <1>2, StatementFresh DEF CreateDevice, CreateNetwork, Delete, Tables
<1>3. ASSUME NEW q \in Slots, Reached(q) PROVE CopyInv'
  <2> DEFINE next == [got |-> bulb', at |-> "answer", op |-> req[q].op, table |-> req[q].table,
                      copy |-> req[q].copy, stale |-> req[q].stale, alone |-> req[q].alone]
  <2>1. /\ req' = [req EXCEPT ![q] = next] /\ rows' = rows /\ meant' = meant
        /\ Busy(q) /\ req[q].at # "tell"
    BY <1>3 DEF Reached, Busy
  <2>2. next.copy = req[q].copy /\ next.stale = req[q].stale /\ next.table = req[q].table
    OBVIOUS
  <2> HIDE DEF next
  <2>3. QED
    BY <2>1, <2>2, MovesFresh
<1>4. ASSUME NEW q \in Slots, NoAnswer(q) PROVE CopyInv'
  <2> DEFINE next == [req[q] EXCEPT !.at = "failed"]
  <2>1. /\ req' = [req EXCEPT ![q] = next] /\ rows' = rows /\ meant' = meant
        /\ Busy(q) /\ req[q].at # "tell"
    BY <1>4 DEF NoAnswer, Busy
  <2>2. next.copy = req[q].copy /\ next.stale = req[q].stale /\ next.table = req[q].table
    BY <2>1 DEF TypeInv, Request
  <2> HIDE DEF next
  <2>3. QED
    BY <2>1, <2>2, MovesFresh
<1>5. ASSUME NEW q \in Slots, EditFails(q) \/ ControlFailed(q) \/ PollNotSaved(q) \/ Tell(q)
      PROVE  CopyInv'
  <2>1. NoReq.at = "idle"
    BY DEF NoReq
  <2>2. QED
    BY <1>5, <2>1, MovesFresh DEF EditFails, ControlFailed, PollNotSaved, Tell, Ends
<1>6. ASSUME NEW q \in Slots, NEW next, next.at \in {"idle", "tell"}, Save(q, next),
             req[q].at \in {"answer", "failed", "save"}
      PROVE  CopyInv'
  <2>1. req'[q] = next
    BY <1>6 DEF Save, Goes
  <2>2. Fresh(q)'
    BY <1>6, <2>1 DEF Fresh, Working, Busy
  <2>3. QED
    BY <1>6, <2>2, SaveFresh DEF CopyInv
<1>7. ASSUME NEW q \in Slots, req[q].at \in {"answer", "save"}
      PROVE  Telling(q).at = "tell" /\ [Telling(q) EXCEPT !.alone = FALSE].at = "tell"
  <2>1. Request(req[q])
    BY <1>7 DEF TypeInv, Busy
  <2>2. QED
    BY <2>1 DEF Telling, Request
<1>8. ASSUME NEW q \in Slots, SaveEdit(q) \/ Answered(q) PROVE CopyInv'
  BY <1>6, <1>7, <1>8 DEF SaveEdit, Answered
<1>9. ASSUME NEW q \in Slots, PollFailed(q) PROVE CopyInv'
  BY <1>6, <1>9 DEF PollFailed, NoReq
<1>10. ASSUME NEW q \in Slots, AnswerNotSaved(q) PROVE CopyInv'
  BY <1>7, <1>10, MovesFresh DEF AnswerNotSaved
<1>11. ASSUME ByHand PROVE CopyInv'
  <2>1. \A p \in Slots : Keeps(p)
    BY <1>11, DisturbFrame DEF ByHand
  <2>2. \A p \in Slots : Fresh(p)'
    BY <1>11, <2>1, FreshKept DEF ByHand, TypeInv, CopyInv
  <2>3. QED
    BY <1>11, <2>2 DEF ByHand, CopyInv
<1>12. CASE UNCHANGED <<rows, meant, req>>
  BY <1>12 DEF CopyInv, Fresh, Working, Busy
<1>13. ASSUME ProbeUpdate PROVE CopyInv'
  <2>1. [online |-> TRUE] \in ColumnsOf("device")
    BY DEF ColumnsOf
  <2>2. QED
    BY <1>12, <1>13, <2>1, ColumnsFresh DEF ProbeUpdate
<1>14. ASSUME ProbeStore PROVE CopyInv'
  <2> DEFINE state == [on |-> probe.got.on, brightness |-> probe.got.brightness,
                       keys |-> {"color_temp"} \cap {probe.got.mode}]
  <2>1. state \in LampStates
    BY <1>14 DEF ProbeStore, TypeInv, TypedProbe, LampStates, Lamps, Modes
  <2>2. [state |-> state] \in ColumnsOf("device")
    BY <2>1 DEF ColumnsOf
  <2>3. QED
    BY <1>12, <1>14, <2>2, ColumnsFresh DEF ProbeStore
<1>15. CASE ProbeConfig \/ ProbePilot \/ UNCHANGED vars
  BY <1>12, <1>15 DEF ProbeConfig, ProbePilot, vars
<1>16. QED
  BY <1>1, <1>2, <1>3, <1>4, <1>5, <1>8, <1>9, <1>10, <1>11, <1>13, <1>14, <1>15 DEF Next

-----------------------------------------------------------------------------
(* A request that nobody disturbed.                                        *)

Lone(q) == Busy(q) /\ req[q].alone

(* It is the only one, and the probe is over: its copy is not stale and    *)
(* what it got is what the bulb does. The same holds for the probe, during *)
(* which the row is suspect from its creation on.                          *)
LoneInv ==
  /\ \A q \in Slots : Lone(q) =>
       /\ \A p \in Slots \ {q} : ~Busy(p)
       /\ Working(q) => probe.at = "over" /\ req[q].stale = {}
       /\ req[q].at = "answer" => req[q].got = bulb
  /\ probe.at # "over" /\ probe.alone =>
       /\ suspect /\ \A q \in Slots : ~Working(q)
       /\ probe.at = "store" => probe.got = bulb

(* A request under way goes on or ends, and the probe does nothing.        *)
LEMMA LoneMoves ==
  ASSUME TypeInv, LoneInv, NEW q \in Slots, Busy(q), \A p \in Slots \ {q} : Keeps(p), probe' = probe,
         Working(q) \/ UNCHANGED <<bulb, suspect>>,
         \/ req'[q].at = "idle"
         \/ /\ req'[q].alone => req[q].alone
            /\ \/ req'[q].at = "tell"
               \/ /\ Working(q) /\ req'[q].stale = req[q].stale
                  /\ req'[q].at = "answer" => req'[q].got = bulb'
  PROVE  LoneInv'
<1>1. ASSUME NEW p \in Slots, Lone(p)'
      PROVE  /\ \A o \in Slots \ {p} : ~Busy(o)'
             /\ Working(p)' => probe'.at = "over" /\ req'[p].stale = {}
             /\ req'[p].at = "answer" => req'[p].got = bulb'
  <2>1. CASE p = q
    <3>1. Lone(q)
      BY <1>1, <2>1 DEF Lone, Busy
    <3>2. \A o \in Slots \ {q} : ~Busy(o)
      BY <3>1 DEF LoneInv
    <3>3. \A o \in Slots \ {q} : ~Busy(o)'
      BY <3>2 DEF Keeps, Busy
    <3>4. QED
      BY <1>1, <2>1, <3>1, <3>3 DEF LoneInv, Working, Lone, Busy
  <2>2. CASE p # q
    <3>1. Lone(p)
      BY <1>1, <2>2 DEF Lone, Keeps, Busy
    <3>2. QED
      BY <2>2, <3>1 DEF LoneInv
  <2>3. QED
    BY <2>1, <2>2
<1>2. ASSUME probe'.at # "over", probe'.alone
      PROVE  /\ suspect' /\ \A p \in Slots : ~Working(p)'
             /\ probe'.at = "store" => probe'.got = bulb'
  <2>1. suspect /\ (\A p \in Slots : ~Working(p)) /\ (probe.at = "store" => probe.got = bulb)
    BY <1>2 DEF LoneInv
  <2>2. \A p \in Slots \ {q} : ~Working(p)'
    BY <2>1 DEF Keeps, Working, Busy
  <2>3. ~Working(q)'
    BY <2>1 DEF Working, Busy
  <2>4. QED
    BY <2>1, <2>2, <2>3
<1>3. QED
  BY <1>1, <1>2 DEF LoneInv

LEMMA StartLone ==
  ASSUME TypeInv, LoneInv, NEW q \in Slots, NEW t \in Tables, NEW at, NEW op, at \in {"send", "save"},
         Start(q, t, at, op)
  PROVE  LoneInv'
<1> DEFINE next == [at |-> at, op |-> op, table |-> t, copy |-> rows[t], stale |-> {}, alone |-> Quiet]
<1>1. Disturb({q}, next)
  BY DEF Start
<1>2. next.at = at /\ next.stale = {} /\ next.alone = Quiet
  OBVIOUS
<1> HIDE DEF next
<1>3. /\ req'[q] = next /\ \A p \in Slots \ {q} : Keeps(p) /\ (Busy(p) => ~req'[p].alone)
      /\ probe' = [probe EXCEPT !.alone = probe'.alone]
      /\ probe.at # "over" => ~probe'.alone
  BY <1>1, DisturbFrame
<1>4. probe'.at = probe.at
  BY <1>3 DEF TypeInv, TypedProbe
<1>5. \A p \in Slots \ {q} : ~Lone(p)'
  BY <1>3 DEF Lone, Busy, Keeps
<1>6. ASSUME Lone(q)'
      PROVE  (\A p \in Slots \ {q} : ~Busy(p)') /\ probe'.at = "over" /\ req'[q].stale = {}
  <2>1. Quiet
    BY <1>2, <1>3, <1>6 DEF Lone
  <2>2. QED
    BY <1>2, <1>3, <1>4, <2>1 DEF Quiet, Keeps, Busy
<1>7. req'[q].at # "answer"
  BY <1>2, <1>3
<1>8. QED
  BY <1>3, <1>4, <1>5, <1>6, <1>7 DEF LoneInv

LEMMA StatementLone ==
  ASSUME TypeInv, LoneInv, NEW q \in Slots, NEW t \in Tables, NEW row, Statement(q, t, row),
         \/ /\ probe.at # "over" => ~probe'.alone
            /\ probe'.at = probe.at
         \/ suspect' /\ probe' = [at |-> "config", alone |-> Quiet, ip |-> probe'.ip]
  PROVE  LoneInv'
<1>1. req'[q].at = "tell" /\ req'[q].alone = Quiet
  BY DEF Statement
<1>2. \A p \in Slots \ {q} : Keeps(p) /\ (Busy(p) => ~req'[p].alone)
  BY StatementFrame
<1>3. \A p \in Slots \ {q} : ~Lone(p)'
  BY <1>2 DEF Lone, Busy, Keeps
<1>4. Quiet => \A p \in Slots \ {q} : ~Busy(p)'
  BY <1>2 DEF Quiet, Keeps, Busy
<1>5. ~Working(q)'
  BY <1>1 DEF Working
<1>6. probe'.at # "over" /\ probe'.alone => suspect' /\ Quiet /\ probe'.at = "config"
  <2>1. CASE probe' = [at |-> "config", alone |-> Quiet, ip |-> probe'.ip] /\ suspect'
    <3>1. probe'.at = "config" /\ probe'.alone = Quiet
      BY <2>1
    <3>2. QED
      BY <2>1, <3>1
  <2>2. QED
    BY <2>1
<1>7. Quiet => \A p \in Slots : ~Working(p)'
  BY <1>4, <1>5 DEF Working
<1>8. QED
  BY <1>1, <1>3, <1>4, <1>5, <1>6, <1>7 DEF LoneInv, Lone

(* The probe goes on: no request that works is alone meanwhile.            *)
LEMMA ProbeLone ==
  ASSUME TypeInv, LoneInv, \A p \in Slots : Keeps(p), probe.at # "over", bulb' = bulb,
         \/ probe'.at = "over"
         \/ /\ suspect' = suspect /\ probe'.alone = probe.alone
            /\ probe'.at = "store" => probe'.got = bulb
  PROVE  LoneInv'
<1>1. \A p \in Slots : Lone(p)' => Lone(p)
  BY DEF Lone, Busy, Keeps
<1>2. \A p \in Slots : Lone(p) => ~Working(p)
  BY DEF LoneInv
<1>3. \A p \in Slots : Busy(p)' <=> Busy(p)
  BY DEF Busy, Keeps
<1>4. \A p \in Slots : Working(p)' <=> Working(p)
  BY DEF Working, Busy, Keeps
<1>5. \A p \in Slots : req'[p].at = "answer" => Working(p)'
  BY DEF Working, Busy
<1>6. QED
  BY <1>1, <1>2, <1>3, <1>4, <1>5 DEF LoneInv

LEMMA LoneStep == DevicesAssumption /\ TypeInv /\ LoneInv /\ [Next]_vars => LoneInv'
<1> SUFFICES ASSUME DevicesAssumption, TypeInv, LoneInv, [Next]_vars PROVE LoneInv'
  OBVIOUS
<1>1. ASSUME NEW q \in Slots, Control(q) \/ State(q) \/ Update(q) \/ Toggle(q) PROVE LoneInv'
  <2>1. PICK t, at, op : t \in Tables /\ at \in {"send", "save"} /\ Start(q, t, at, op)
    BY <1>1 DEF Control, State, Update, Toggle, Tables
  <2>2. QED
    BY <2>1, StartLone
<1>2. ASSUME NEW q \in Slots, CreateDevice(q) PROVE LoneInv'
  <2>1. PICK name, ip : Statement(q, "device", NewDevice(name, ip)) /\ suspect'
                        /\ probe' = [at |-> "config", alone |-> Quiet, ip |-> ip]
    BY <1>2 DEF CreateDevice
  <2>2. probe' = [at |-> "config", alone |-> Quiet, ip |-> probe'.ip]
    BY <2>1
  <2>3. QED
    BY <2>1, <2>2, StatementLone DEF Tables
<1>3. ASSUME NEW q \in Slots, CreateNetwork(q) \/ Delete(q) PROVE LoneInv'
  <2>1. (probe.at # "over" => ~probe'.alone) /\ probe'.at = probe.at
    BY <1>3 DEF CreateNetwork, Delete, TypeInv, TypedProbe
  <2>2. QED
    BY <1>3, <2>1, StatementLone DEF CreateNetwork, Delete, Tables
<1>4. ASSUME NEW q \in Slots, Reached(q) PROVE LoneInv'
  <2>1. /\ req'[q].stale = req[q].stale /\ req'[q].got = bulb' /\ req'[q].alone = req[q].alone
        /\ Busy(q) /\ Working(q) /\ probe' = probe
    BY <1>4 DEF Reached, TypeInv, Working, Busy
  <2>2. \A p \in Slots \ {q} : Keeps(p)
    BY <1>4 DEF Reached, TypeInv, Keeps, Request
  <2>3. QED
    BY <2>1, <2>2, LoneMoves
<1>5. ASSUME NEW q \in Slots, NoAnswer(q) PROVE LoneInv'
  <2>1. Busy(q) /\ Working(q) /\ probe' = probe
    BY <1>5 DEF NoAnswer, Working, Busy
  <2>2. req'[q].stale = req[q].stale /\ req'[q].at = "failed" /\ req'[q].alone = req[q].alone
    BY <1>5, <2>1 DEF NoAnswer, TypeInv, Request
  <2>3. \A p \in Slots \ {q} : Keeps(p)
    BY <1>5 DEF NoAnswer, TypeInv, Keeps, Request
  <2>4. QED
    BY <2>1, <2>2, <2>3, LoneMoves
<1>6. ASSUME NEW q \in Slots, EditFails(q) \/ ControlFailed(q) \/ PollNotSaved(q) \/ Tell(q)
      PROVE  LoneInv'
  <2>1. req'[q].at = "idle" /\ \A p \in Slots \ {q} : Keeps(p)
    BY <1>6 DEF EditFails, ControlFailed, PollNotSaved, Tell, Ends, NoReq, TypeInv, Keeps, Request
  <2>2. Busy(q) /\ probe' = probe /\ (Working(q) \/ UNCHANGED <<bulb, suspect>>)
    BY <1>6 DEF EditFails, ControlFailed, PollNotSaved, Tell, Working, Busy
  <2>3. QED
    BY <2>1, <2>2, LoneMoves
<1>7. ASSUME NEW q \in Slots, req[q].at \in {"answer", "save"}
      PROVE  /\ Telling(q).at = "tell" /\ Telling(q).alone = req[q].alone
             /\ [Telling(q) EXCEPT !.alone = FALSE].at = "tell" /\ ~[Telling(q) EXCEPT !.alone = FALSE].alone
  <2>1. Request(req[q])
    BY <1>7 DEF TypeInv, Busy
  <2>2. QED
    BY <2>1 DEF Telling, Request
<1>8. ASSUME NEW q \in Slots, SaveEdit(q) \/ Answered(q) PROVE LoneInv'
  <2>1. PICK t, columns : Goes(q, Telling(q), t, columns)
    BY <1>8 DEF SaveEdit, Answered, Save
  <2>2. req'[q] = Telling(q) /\ \A p \in Slots \ {q} : Keeps(p)
    BY <2>1, GoesFrame
  <2>3. Working(q) /\ Busy(q) /\ probe' = probe /\ req[q].at \in {"answer", "save"}
    BY <1>8 DEF SaveEdit, Answered, Working, Busy
  <2>4. QED
    BY <1>7, <2>2, <2>3, LoneMoves
<1>9. ASSUME NEW q \in Slots, PollFailed(q) PROVE LoneInv'
  <2>1. PICK t, columns : Goes(q, NoReq, t, columns)
    BY <1>9 DEF PollFailed, Save
  <2>2. req'[q] = NoReq /\ \A p \in Slots \ {q} : Keeps(p)
    BY <2>1, GoesFrame
  <2>3. Working(q) /\ Busy(q) /\ probe' = probe
    BY <1>9 DEF PollFailed, Working, Busy
  <2>4. QED
    BY <2>2, <2>3, LoneMoves DEF NoReq
<1>10. ASSUME NEW q \in Slots, AnswerNotSaved(q) PROVE LoneInv'
  <2>1. req'[q] = [Telling(q) EXCEPT !.alone = FALSE] /\ \A p \in Slots \ {q} : Keeps(p)
    BY <1>10 DEF AnswerNotSaved, TypeInv, Keeps, Request
  <2>2. Working(q) /\ Busy(q) /\ probe' = probe /\ req[q].at = "answer"
    BY <1>10 DEF AnswerNotSaved, Working, Busy
  <2>3. QED
    BY <1>7, <2>1, <2>2, LoneMoves
<1>11. ASSUME ByHand PROVE LoneInv'
  <2>1. /\ \A p \in Slots : Keeps(p) /\ (Busy(p) => ~req'[p].alone)
        /\ probe' = [probe EXCEPT !.alone = probe'.alone]
        /\ probe.at # "over" => ~probe'.alone
    <3>1. Disturb({}, NoReq) /\ {} \in SUBSET Slots
      BY <1>11 DEF ByHand
    <3>2. QED
      BY <3>1, DisturbFrame
  <2>2. probe'.at = probe.at
    BY <2>1 DEF TypeInv, TypedProbe
  <2>3. \A p \in Slots : ~Lone(p)'
    BY <2>1 DEF Lone, Busy, Keeps
  <2>4. QED
    BY <2>1, <2>2, <2>3 DEF LoneInv
<1>12. ASSUME ProbeConfig \/ ProbeUpdate \/ ProbePilot \/ ProbeStore PROVE LoneInv'
  <2>1. \A p \in Slots : Keeps(p)
    <3>1. CASE req' = req
      BY <3>1 DEF Keeps, TypeInv, Request
    <3>2. CASE \E values : rows["device"].there /\ Columns(values)
      BY <3>2, ColumnsFrame
    <3>3. QED
      BY <1>12, <3>1, <3>2 DEF ProbeConfig, ProbeUpdate, ProbePilot, ProbeStore, Columns
  <2>2. probe.at # "over" /\ bulb' = bulb
    BY <1>12 DEF ProbeConfig, ProbeUpdate, ProbePilot, ProbeStore
  <2>3. \/ probe'.at = "over"
        \/ /\ suspect' = suspect /\ probe'.alone = probe.alone
           /\ probe'.at = "store" => probe'.got = bulb
    BY <1>12 DEF ProbeConfig, ProbeUpdate, ProbePilot, ProbeStore, ProbeEnds, NoProbe, TypeInv, TypedProbe
  <2>4. QED
    BY <2>1, <2>2, <2>3, ProbeLone
<1>13. CASE UNCHANGED vars
  BY <1>13 DEF vars, LoneInv, Lone, Working, Busy
<1>14. QED
  BY <1>1, <1>2, <1>3, <1>4, <1>5, <1>6, <1>8, <1>9, <1>10, <1>11, <1>12, <1>13 DEF Next

-----------------------------------------------------------------------------
(* RowFollowsBulb.                                                         *)

Matches(state, b) == state.on = b.on /\ state.brightness = b.brightness /\ b.mode \in state.keys

(* The bulb has taken a command that no row shows yet.                     *)
Commanded(q) == req[q].at = "answer" /\ req[q].op # Get

BulbInv ==
  /\ ~suspect /\ rows["device"].there =>
       Matches(rows["device"].state, bulb) \/ \E q \in Slots : Commanded(q)
  /\ \A q \in Slots : Commanded(q) /\ req[q].alone /\ ~suspect =>
       Matches(Controlled(req[q].copy.state, req[q].op), bulb)

(* What Control stores of a command is what the command does to the bulb.  *)
LEMMA ControlMatches ==
  ASSUME NEW state \in LampStates, NEW b \in Lamps, NEW op \in Commands, Matches(state, b)
  PROVE  Matches(Controlled(state, op), Shines(b, op))
<1> USE DEF LampStates, Lamps, Commands, Modes, Matches, Controlled, Shines
<1>1. CASE op.action = "on"
  BY <1>1
<1>2. CASE op.action = "off"
  BY <1>2
<1>3. CASE op.action = "brightness"
  BY <1>3
<1>4. CASE op.action = "rgb"
  BY <1>4
<1>5. CASE op.action = "color_temp"
  BY <1>5
<1>6. CASE op.action = "scene"
  BY <1>6
<1>7. QED
  BY <1>1, <1>2, <1>3, <1>4, <1>5, <1>6

LEMMA PolledMatches ==
  ASSUME NEW state \in LampStates, NEW b \in Lamps
  PROVE  Matches(Polled(state, b), b)
  BY DEF Matches, Polled

(* A step that leaves the state in the row, the bulb and what has been     *)
(* commanded as they are.                                                  *)
LEMMA BulbKept ==
  ASSUME TypeInv, BulbInv, NEW q, \A p \in Slots \ {q} : Keeps(p), bulb' = bulb,
         ~suspect' => /\ ~suspect
                      /\ rows'["device"].there =>
                           rows["device"].there /\ rows'["device"].state = rows["device"].state
                      /\ q \in Slots => ~Commanded(q),
         q \in Slots => ~Commanded(q)'
  PROVE  BulbInv'
<1>1. ASSUME NEW p \in Slots \ {q}, Commanded(p) \/ Commanded(p)'
      PROVE  /\ Commanded(p) /\ Commanded(p)' /\ (req'[p].alone => req[p].alone)
             /\ req'[p].copy = req[p].copy /\ req'[p].op = req[p].op
  BY <1>1 DEF Commanded, Keeps, Busy
<1>2. ASSUME ~suspect', rows'["device"].there
      PROVE  Matches(rows'["device"].state, bulb') \/ \E p \in Slots : Commanded(p)'
  <2>1. CASE Matches(rows["device"].state, bulb)
    BY <1>2, <2>1
  <2>2. CASE \E p \in Slots : Commanded(p)
    <3>1. PICK p \in Slots \ {q} : Commanded(p)
      BY <1>2, <2>2
    <3>2. Commanded(p)'
      BY <1>1, <3>1
    <3>3. QED
      BY <3>2
  <2>3. QED
    BY <1>2, <2>1, <2>2 DEF BulbInv
<1>3. ASSUME NEW p \in Slots, Commanded(p)', req'[p].alone, ~suspect'
      PROVE  Matches(Controlled(req'[p].copy.state, req'[p].op), bulb')
  BY <1>1, <1>3 DEF BulbInv
<1>4. QED
  BY <1>2, <1>3 DEF BulbInv

(* An undisturbed request that changes other columns keeps the state.      *)
LEMMA SaveKeepsState ==
  ASSUME DevicesAssumption, TypeInv, CopyInv, LoneInv, NEW q \in Slots, NEW next, Save(q, next),
         req[q].at \in {"answer", "failed", "save"}, "state" \notin DOMAIN Values(q),
         req[q].alone \/ req[q].table # "device"
  PROVE  rows'["device"].there =>
           rows["device"].there /\ rows'["device"].state = rows["device"].state
<1> DEFINE t == req[q].table
           copy == req[q].copy
           new == Over(Values(q), copy)
<1>1. /\ t \in Tables /\ copy \in RowOf(t)
      /\ \A c \in DOMAIN copy : new[c] = IF c \in DOMAIN Values(q) THEN Values(q)[c] ELSE copy[c]
      /\ rows' = [rows EXCEPT ![t] = new]
  BY SaveFrame
<1> HIDE DEF new
<1>2. CASE t # "device"
  BY <1>1, <1>2 DEF TypeInv, TypedRows
<1>3. CASE t = "device"
  <2>1. req[q].stale = {}
    BY <1>3 DEF LoneInv, Lone, Working, Busy
  <2>2. "state" \in DOMAIN copy
    BY <1>1, <1>3 DEF RowOf, Device
  <2>3. rows["device"].there /\ rows["device"]["state"] = copy["state"]
    BY <1>3, <2>1, <2>2 DEF CopyInv, Fresh, Working, Busy
  <2>4. new["state"] = copy["state"]
    BY <1>1, <2>2
  <2>5. rows'["device"] = new
    BY <1>1, <1>3 DEF TypeInv, TypedRows
  <2>6. QED
    BY <2>3, <2>4, <2>5
<1>4. QED
  BY <1>2, <1>3

LEMMA BulbStep ==
  DevicesAssumption /\ TypeInv /\ CopyInv /\ LoneInv /\ BulbInv /\ [Next]_vars => BulbInv'
<1> SUFFICES ASSUME DevicesAssumption, TypeInv, CopyInv, LoneInv, BulbInv, [Next]_vars PROVE BulbInv'
  OBVIOUS
<1>a. ASSUME NEW q \in Slots, req' = [req EXCEPT ![q] = req'[q]]
      PROVE  \A p \in Slots \ {q} : Keeps(p)
  BY <1>a DEF TypeInv, Keeps, Request
<1>1. ASSUME NEW q \in Slots, Control(q) \/ State(q) \/ Update(q) \/ Toggle(q) PROVE BulbInv'
  <2>1. PICK t, at, op : t \in Tables /\ at \in {"send", "save"} /\ Start(q, t, at, op)
    BY <1>1 DEF Control, State, Update, Toggle, Tables
  <2>2. /\ req'[q].at = at /\ ~Busy(q)
        /\ UNCHANGED <<rows, bulb, suspect>>
    BY <2>1 DEF Start, Disturb
  <2>3. \A p \in Slots \ {q} : Keeps(p)
    BY <2>1, DisturbFrame DEF Start
  <2>4. QED
    BY <2>1, <2>2, <2>3, BulbKept DEF Commanded, Busy
<1>2. ASSUME NEW q \in Slots, CreateDevice(q) \/ CreateNetwork(q) \/ Delete(q) PROVE BulbInv'
  <2>1. PICK t, row : t \in Tables /\ Statement(q, t, row) /\ (row = Absent \/ t = "network" \/ suspect')
                                 /\ (suspect' \/ suspect' = suspect)
    BY <1>2 DEF CreateDevice, CreateNetwork, Delete, Tables
  <2>2. \A p \in Slots \ {q} : Keeps(p)
    BY <2>1, StatementFrame
  <2>3. req'[q].at = "tell" /\ ~Busy(q) /\ bulb' = bulb /\ rows' = [rows EXCEPT ![t] = row]
    BY <2>1 DEF Statement
  <2>4. ~suspect' => (rows'["device"].there =>
                        rows["device"].there /\ rows'["device"].state = rows["device"].state)
    BY <2>1, <2>3 DEF TypeInv, TypedRows, Absent
  <2>5. QED
    BY <2>1, <2>2, <2>3, <2>4, BulbKept DEF Commanded, Busy
<1>3. ASSUME NEW q \in Slots, Reached(q) PROVE BulbInv'
  <2>1. /\ Request(req[q]) /\ req[q].at = "send" /\ Working(q)
        /\ req[q].table = "device" /\ req[q].op \in Commands \cup {Get}
        /\ req[q].copy \in Device
    BY <1>3 DEF Reached, TypeInv, Busy, Working, Request, RowOf
  <2>2. /\ bulb' = Shines(bulb, req[q].op) /\ suspect' = suspect /\ rows' = rows
        /\ req' = [req EXCEPT ![q] = req'[q]]
        /\ req'[q].at = "answer" /\ req'[q].op = req[q].op /\ req'[q].copy = req[q].copy
        /\ req'[q].alone = req[q].alone
    BY <1>3 DEF Reached, TypeInv
  <2>3. CASE req[q].op = Get
    <3>1. bulb' = bulb
      BY <2>2, <2>3 DEF Shines, Get
    <3>2. QED
      BY <1>a, <2>1, <2>2, <2>3, <3>1, BulbKept DEF Commanded
  <2>4. CASE req[q].op # Get
    <3>1. Commanded(q)'
      BY <2>2, <2>4 DEF Commanded
    <3>2. ASSUME NEW p \in Slots, Commanded(p)', req'[p].alone, ~suspect'
          PROVE  Matches(Controlled(req'[p].copy.state, req'[p].op), bulb')
      <4>1. CASE p = q
        <5>1. Lone(q) /\ \A o \in Slots \ {q} : ~Busy(o)
          BY <2>1, <2>2, <3>2, <4>1 DEF LoneInv, Lone, Working
        <5>2. \A o \in Slots : ~Commanded(o)
          BY <2>1, <5>1 DEF Commanded, Busy
        <5>3. req[q].stale = {} /\ "state" \in DOMAIN req[q].copy /\ req[q].copy.state \in LampStates
          BY <2>1, <5>1 DEF LoneInv, Device
        <5>4. rows["device"].there /\ rows["device"]["state"] = req[q].copy["state"]
          BY <2>1, <5>3 DEF CopyInv, Fresh
        <5>5. Matches(req[q].copy.state, bulb)
          BY <2>2, <3>2, <5>2, <5>4 DEF BulbInv
        <5>6. req[q].op \in Commands /\ bulb \in Lamps
          BY <2>1, <2>4 DEF TypeInv
        <5>7. Matches(Controlled(req[q].copy.state, req[q].op), Shines(bulb, req[q].op))
          BY <5>3, <5>5, <5>6, ControlMatches
        <5>8. QED
          BY <2>2, <4>1, <5>7
      <4>2. CASE p # q
        <5>1. req'[p] = req[p]
          BY <2>2, <4>2 DEF TypeInv
        <5>2. Lone(p)
          BY <3>2, <5>1 DEF Lone, Commanded, Busy
        <5>3. ~Busy(q)
          BY <4>2, <5>2 DEF LoneInv
        <5>4. QED
          BY <2>1, <5>3 DEF Working
      <4>3. QED
        BY <4>1, <4>2
    <3>3. QED
      BY <3>1, <3>2 DEF BulbInv
  <2>5. QED
    BY <2>3, <2>4
<1>4. ASSUME NEW q \in Slots, NoAnswer(q) PROVE BulbInv'
  <2>1. /\ rows' = rows /\ bulb' = bulb /\ req'[q].at = "failed" /\ req' = [req EXCEPT ![q] = req'[q]]
        /\ ~suspect' => ~suspect /\ ~Commanded(q)
    <3>1. Request(req[q])
      BY <1>4 DEF NoAnswer, TypeInv, Busy
    <3>2. QED
      BY <1>4, <3>1 DEF NoAnswer, Commanded, TypeInv, Request
  <2>2. QED
    BY <1>a, <2>1, BulbKept DEF Commanded
<1>5. ASSUME NEW q \in Slots, EditFails(q) \/ ControlFailed(q) \/ PollNotSaved(q) \/ Tell(q)
      PROVE  BulbInv'
  <2>1. /\ rows' = rows /\ bulb' = bulb /\ req'[q].at = "idle" /\ req' = [req EXCEPT ![q] = req'[q]]
        /\ ~suspect' => ~suspect
        /\ req[q].at # "answer"
    BY <1>5 DEF EditFails, ControlFailed, PollNotSaved, Tell, Ends, NoReq, TypeInv
  <2>2. QED
    BY <1>a, <2>1, BulbKept DEF Commanded
<1>6. ASSUME NEW q \in Slots, req[q].at \in {"answer", "save"}
      PROVE  Telling(q).at = "tell" /\ [Telling(q) EXCEPT !.alone = FALSE].at = "tell"
  <2>1. Request(req[q])
    BY <1>6 DEF TypeInv, Busy
  <2>2. QED
    BY <2>1 DEF Telling, Request
<1>7. ASSUME NEW q \in Slots, SaveEdit(q) PROVE BulbInv'
  <2>1. Save(q, Telling(q)) /\ req[q].at = "save" /\ bulb' = bulb
    BY <1>7 DEF SaveEdit
  <2>2. req'[q] = Telling(q) /\ \A p \in Slots \ {q} : Keeps(p)
    BY <2>1, SaveFrame, GoesFrame
  <2>3. "state" \notin DOMAIN Values(q)
    BY <2>1 DEF Values, TypeInv, Busy, Request, EditsOf
  <2>4. ~suspect' => ~suspect /\ (req[q].alone \/ req[q].table # "device")
    BY <1>7 DEF SaveEdit
  <2>5. ~suspect' => (rows'["device"].there =>
                        rows["device"].there /\ rows'["device"].state = rows["device"].state)
    BY <2>1, <2>3, <2>4, SaveKeepsState
  <2>6. QED
    BY <1>6, <2>1, <2>2, <2>4, <2>5, BulbKept DEF Commanded
<1>8. ASSUME NEW q \in Slots, PollFailed(q) PROVE BulbInv'
  <2>1. Save(q, NoReq) /\ req[q].at = "failed" /\ bulb' = bulb
    BY <1>8 DEF PollFailed
  <2>2. req'[q] = NoReq /\ \A p \in Slots \ {q} : Keeps(p)
    BY <2>1, SaveFrame, GoesFrame
  <2>3. "state" \notin DOMAIN Values(q)
    BY <2>1 DEF Values
  <2>4. ~suspect' => ~suspect /\ req[q].alone
    BY <1>8 DEF PollFailed
  <2>5. ~suspect' => (rows'["device"].there =>
                        rows["device"].there /\ rows'["device"].state = rows["device"].state)
    BY <2>1, <2>3, <2>4, SaveKeepsState
  <2>6. QED
    BY <2>1, <2>2, <2>4, <2>5, BulbKept DEF Commanded, NoReq
<1>9. ASSUME NEW q \in Slots, Answered(q) PROVE BulbInv'
  <2>1. Save(q, Telling(q)) /\ req[q].at = "answer" /\ bulb' = bulb /\ Working(q)
    BY <1>9 DEF Answered, Working, Busy
  <2>2. req'[q] = Telling(q) /\ \A p \in Slots \ {q} : Keeps(p)
    BY <2>1, SaveFrame, GoesFrame
  <2>3. SUFFICES ASSUME ~suspect' PROVE BulbInv'
    BY DEF BulbInv
  <2>4. req[q].alone /\ (~suspect \/ req[q].op = Get)
    BY <1>9, <2>3 DEF Answered
  <2>5. Lone(q) /\ (\A p \in Slots \ {q} : ~Busy(p)) /\ req[q].got = bulb
    BY <2>1, <2>4 DEF LoneInv, Lone, Working
  <2>6. \A p \in Slots : ~Commanded(p)'
    BY <1>6, <2>1, <2>2, <2>5 DEF Commanded, Keeps, Busy
  <2>7. /\ req[q].table = "device" /\ req[q].copy \in Device /\ req[q].got \in Lamps
        /\ req[q].op \in Commands \cup {Get}
    BY <2>1 DEF TypeInv, Busy, Request, RowOf
  <2>8. Matches(Values(q).state, bulb)
    <3>1. req[q].copy.state \in LampStates
      BY <2>7 DEF Device
    <3>2. CASE req[q].op = Get
      <4>1. Values(q).state = Polled(req[q].copy.state, req[q].got)
        BY <2>1, <3>2 DEF Values
      <4>2. QED
        BY <2>5, <2>7, <3>1, <4>1, PolledMatches
    <3>3. CASE req[q].op # Get
      <4>1. Values(q).state = Controlled(req[q].copy.state, req[q].op)
        BY <2>1, <3>3 DEF Values
      <4>2. QED
        BY <2>1, <2>4, <3>3, <4>1 DEF BulbInv, Commanded
    <3>4. QED
      BY <3>2, <3>3
  <2>9. rows'["device"].state = Values(q).state
    <3>1. "state" \in DOMAIN req[q].copy /\ "state" \in DOMAIN Values(q)
      BY <2>1, <2>7 DEF Device, Values
    <3>2. rows'["device"] = Over(Values(q), req[q].copy)
      <4>1. rows' = [rows EXCEPT !["device"] = Over(Values(q), req[q].copy)]
        BY <2>1, <2>7 DEF Save
      <4>2. QED
        BY <4>1 DEF TypeInv, TypedRows, Tables
    <3>3. Over(Values(q), req[q].copy)["state"] = Values(q)["state"]
      BY <3>1 DEF Over
    <3>4. QED
      BY <3>2, <3>3
  <2>10. QED
    BY <2>1, <2>6, <2>8, <2>9 DEF BulbInv
<1>10. ASSUME NEW q \in Slots, AnswerNotSaved(q) PROVE BulbInv'
  <2>1. /\ rows' = rows /\ bulb' = bulb /\ req' = [req EXCEPT ![q] = req'[q]]
        /\ req'[q] = [Telling(q) EXCEPT !.alone = FALSE] /\ req[q].at = "answer"
        /\ ~suspect' => ~suspect /\ req[q].op = Get
    BY <1>10 DEF AnswerNotSaved, TypeInv
  <2>2. QED
    BY <1>a, <1>6, <2>1, BulbKept DEF Commanded
<1>11. ASSUME ByHand PROVE BulbInv'
  BY <1>11 DEF ByHand, BulbInv
<1>12. ASSUME NEW values \in ColumnsOf("device"), Columns(values), bulb' = bulb, suspect' = suspect,
              "state" \notin DOMAIN values
       PROVE  BulbInv'
  <2>1. CASE rows["device"].there
    <3>1. \A p \in Slots : Keeps(p)
      BY <1>12, <2>1, ColumnsFrame
    <3>2. rows["device"] \in RowOf("device")
      BY <2>1, RowThere DEF TypeInv, Tables
    <3>3. rows' = [rows EXCEPT !["device"] = Over(values, rows["device"])]
      BY <1>12, <2>1 DEF Columns
    <3>4. "state" \in DOMAIN rows["device"]
      BY <3>2 DEF RowOf, Device
    <3>5. rows'["device"]["state"] = rows["device"]["state"]
      BY <1>12, <3>3, <3>4 DEF Over, TypeInv, TypedRows, Tables
    <3>6. PICK q : q \notin Slots
      BY NoSetContainsEverything
    <3>7. QED
      BY <1>12, <2>1, <3>1, <3>5, <3>6, BulbKept
  <2>2. CASE ~rows["device"].there
    BY <1>12, <2>2 DEF Columns, BulbInv, Commanded
  <2>3. QED
    BY <2>1, <2>2
<1>13. CASE UNCHANGED <<rows, bulb, req, suspect>>
  BY <1>13 DEF BulbInv, Commanded
<1>14. ASSUME ProbeUpdate PROVE BulbInv'
  <2>1. [online |-> TRUE] \in ColumnsOf("device") /\ "state" \notin DOMAIN [online |-> TRUE]
    BY DEF ColumnsOf
  <2>2. QED
    BY <1>12, <1>13, <1>14, <2>1 DEF ProbeUpdate
<1>15. ASSUME ProbeStore PROVE BulbInv'
  <2> DEFINE state == [on |-> probe.got.on, brightness |-> probe.got.brightness,
                       keys |-> {"color_temp"} \cap {probe.got.mode}]
  <2>1. CASE Columns([state |-> state]) /\ suspect' = (~probe.alone \/ (suspect /\ probe.got.mode # "color_temp"))
    <3>1. SUFFICES ASSUME ~suspect' PROVE BulbInv'
      BY DEF BulbInv
    <3>2. /\ probe.alone /\ probe.got = bulb /\ suspect /\ \A q \in Slots : ~Working(q)
      BY <1>15, <2>1, <3>1 DEF ProbeStore, LoneInv
    <3>3. bulb' = bulb /\ bulb.mode = "color_temp"
      BY <1>15, <2>1, <3>1, <3>2 DEF ProbeStore
    <3>4. Matches(state, bulb)
      BY <3>2, <3>3 DEF Matches
    <3> HIDE DEF state
    <3>5. CASE rows["device"].there
      <4>1. \A p \in Slots : Keeps(p)
        BY <2>1, <3>5, ColumnsFrame
      <4>2. \A p \in Slots : ~Commanded(p)'
        BY <3>2, <4>1 DEF Commanded, Working, Keeps, Busy
      <4>3. rows["device"] \in RowOf("device")
        BY <3>5, RowThere DEF TypeInv, Tables
      <4>4. rows' = [rows EXCEPT !["device"] = Over([state |-> state], rows["device"])]
        BY <2>1, <3>5 DEF Columns
      <4>5. "state" \in DOMAIN rows["device"]
        BY <4>3 DEF RowOf, Device
      <4>6. rows'["device"]["state"] = state
        BY <4>4, <4>5 DEF Over, TypeInv, TypedRows, Tables
      <4>7. QED
        BY <3>3, <3>4, <4>2, <4>6 DEF BulbInv
    <3>6. CASE ~rows["device"].there
      <4>1. rows' = rows /\ req' = req
        BY <2>1, <3>6 DEF Columns
      <4>2. \A q \in Slots : ~Commanded(q)
        BY <3>2 DEF Commanded, Working, Busy
      <4>3. QED
        BY <3>6, <4>1, <4>2 DEF BulbInv, Commanded
    <3>7. QED
      BY <3>5, <3>6
  <2>2. QED
    BY <1>13, <1>15, <2>1 DEF ProbeStore
<1>16. CASE ProbeConfig \/ ProbePilot \/ UNCHANGED vars
  BY <1>13, <1>16 DEF ProbeConfig, ProbePilot, vars
<1>17. QED
  BY <1>1, <1>2, <1>3, <1>4, <1>5, <1>7, <1>8, <1>9, <1>10, <1>11, <1>14, <1>15, <1>16 DEF Next

-----------------------------------------------------------------------------
(* ScreensFollowRows.                                                      *)

(* A request that is about to tell the screens of table t.                 *)
Tells(q, t) == req[q].at = "tell" /\ req[q].table = t

(* What an undisturbed request tells is the row.                           *)
Truthful(q) ==
  req[q].at = "tell" /\ req[q].alone /\ req[q].stale = {} => req[q].copy = rows[req[q].table]

ScreenInv ==
  /\ \A t \in Tables \ unseen : screen[t] = rows[t] \/ \E q \in Slots : Tells(q, t)
  /\ \A q \in Slots : Truthful(q)

LEMMA ScreenKept ==
  ASSUME TypeInv, ScreenInv, NEW q, \A p \in Slots \ {q} : Keeps(p), screen' = screen,
         \A t \in Tables \ unseen' :
           \/ t \notin unseen /\ rows'[t] = rows[t] /\ (q \in Slots => ~Tells(q, t))
           \/ q \in Slots /\ Tells(q, t)',
         \A p \in Slots \ {q} : Tells(p, req[p].table) /\ req'[p].alone /\ req'[p].stale = {} =>
           rows'[req[p].table] = rows[req[p].table],
         q \in Slots => Truthful(q)'
  PROVE  ScreenInv'
<1>1. ASSUME NEW p \in Slots \ {q}, NEW t, Tells(p, t)
      PROVE  Tells(p, t)'
  BY <1>1 DEF Tells, Keeps, Busy
<1>2. ASSUME NEW t \in Tables \ unseen'
      PROVE  screen'[t] = rows'[t] \/ \E p \in Slots : Tells(p, t)'
  <2>1. CASE q \in Slots /\ Tells(q, t)'
    BY <2>1
  <2>2. CASE t \notin unseen /\ rows'[t] = rows[t] /\ (q \in Slots => ~Tells(q, t))
    BY <1>1, <2>2 DEF ScreenInv
  <2>3. QED
    BY <2>1, <2>2
<1>3. ASSUME NEW p \in Slots \ {q}
      PROVE  Truthful(p)'
  <2>1. SUFFICES ASSUME req'[p].at = "tell", req'[p].alone, req'[p].stale = {}
                 PROVE  req'[p].copy = rows'[req'[p].table]
    BY DEF Truthful
  <2>2. Busy(p) /\ req[p].at = "tell" /\ req[p].alone /\ req[p].stale = {}
        /\ req'[p].table = req[p].table /\ req'[p].copy = req[p].copy
    BY <2>1 DEF Keeps, Busy
  <2>3. QED
    BY <2>1, <2>2 DEF ScreenInv, Truthful, Tells
<1>4. QED
  BY <1>2, <1>3 DEF ScreenInv

(* The probe, of whose writes no event tells.                              *)
LEMMA ColumnsScreens ==
  ASSUME TypeInv, ScreenInv, NEW values, DOMAIN values # {}, Columns(values), screen' = screen
  PROVE  ScreenInv'
<1>1. CASE rows["device"].there
  <2>1. \A p \in Slots : Keeps(p) /\ (Busy(p) => Ages(p, "device", DOMAIN values))
    BY <1>1, ColumnsFrame
  <2>2. unseen' = unseen \cup {"device"} /\ \A t \in Tables \ {"device"} : rows'[t] = rows[t]
    BY <1>1 DEF Columns, TypeInv, TypedRows
  <2>3. ASSUME NEW p \in Slots, Tells(p, req[p].table), req'[p].stale = {}
        PROVE  rows'[req[p].table] = rows[req[p].table]
    <3>1. Busy(p) /\ req[p].table \in Tables
      BY <2>3 DEF Tells, Busy, TypeInv, Request
    <3>2. req[p].table # "device"
      BY <2>1, <2>3, <3>1 DEF Ages
    <3>3. QED
      BY <2>2, <3>1, <3>2
  <2>4. PICK q : q \notin Slots
    BY NoSetContainsEverything
  <2>5. QED
    BY <2>1, <2>2, <2>3, <2>4, ScreenKept
<1>2. CASE ~rows["device"].there
  BY <1>2 DEF Columns, ScreenInv, Tells, Truthful
<1>3. QED
  BY <1>1, <1>2

(* An undisturbed request leaves no other that could tell.                 *)
LEMMA NobodyElse ==
  ASSUME LoneInv, NEW q \in Slots, NEW p \in Slots \ {q}, Busy(q), Keeps(p), req[p].at = "tell"
  PROVE  ~req'[p].alone
  BY DEF LoneInv, Lone, Keeps, Busy

LEMMA SaveScreens ==
  ASSUME DevicesAssumption, TypeInv, LoneInv, ScreenInv, NEW q \in Slots, NEW next, Save(q, next),
         req[q].at \in {"answer", "failed", "save"}, screen' = screen,
         \/ unseen' = unseen /\ next.at = "tell" /\ next.table = req[q].table
            /\ next.copy = Over(Values(q), req[q].copy)
         \/ unseen' = unseen \cup {req[q].table} /\ next.at = "idle"
  PROVE  ScreenInv'
<1>1. /\ req[q].table \in Tables
      /\ rows' = [rows EXCEPT ![req[q].table] = Over(Values(q), req[q].copy)]
  BY SaveFrame
<1>2. req'[q] = next /\ \A p \in Slots \ {q} : Keeps(p)
  <2>1. PICK t, columns : Goes(q, next, t, columns)
    BY DEF Save
  <2>2. QED
    BY <2>1, GoesFrame
<1>3. \A p \in Slots \ {q} : Tells(p, req[p].table) => ~req'[p].alone
  BY <1>2, NobodyElse DEF Tells, Busy
<1>4. /\ rows'[req[q].table] = Over(Values(q), req[q].copy)
      /\ \A t \in Tables \ {req[q].table} : rows'[t] = rows[t]
  BY <1>1 DEF TypeInv, TypedRows
<1>5. Truthful(q)'
  BY <1>2, <1>4 DEF Truthful
<1>6. \A t \in Tables : ~Tells(q, t)
  BY DEF Tells
<1>7. \A t \in Tables \ unseen' :
         \/ t \notin unseen /\ rows'[t] = rows[t] /\ (q \in Slots => ~Tells(q, t))
         \/ q \in Slots /\ Tells(q, t)'
  BY <1>2, <1>4, <1>6 DEF Tells
<1>8. QED
  BY <1>2, <1>3, <1>5, <1>7, ScreenKept

(* A step of a request that neither writes a row nor tells.                *)
LEMMA MovesScreens ==
  ASSUME TypeInv, ScreenInv, NEW q \in Slots, \A p \in Slots \ {q} : Keeps(p), UNCHANGED <<rows, screen, unseen>>,
         req[q].at # "tell", req'[q].at # "tell" \/ ~req'[q].alone
  PROVE  ScreenInv'
<1>1. Truthful(q)' /\ \A t \in Tables : ~Tells(q, t)
  BY DEF Truthful, Tells
<1>2. QED
  BY <1>1, ScreenKept

LEMMA ScreenStep == DevicesAssumption /\ TypeInv /\ LoneInv /\ ScreenInv /\ [Next]_vars => ScreenInv'
<1> SUFFICES ASSUME DevicesAssumption, TypeInv, LoneInv, ScreenInv, [Next]_vars PROVE ScreenInv'
  OBVIOUS
<1>a. ASSUME NEW q \in Slots, req' = [req EXCEPT ![q] = req'[q]]
      PROVE  \A p \in Slots \ {q} : Keeps(p)
  BY <1>a DEF TypeInv, Keeps, Request
<1>1. ASSUME NEW q \in Slots, Control(q) \/ State(q) \/ Update(q) \/ Toggle(q) PROVE ScreenInv'
  <2>1. PICK t, at, op : t \in Tables /\ at \in {"send", "save"} /\ Start(q, t, at, op)
    BY <1>1 DEF Control, State, Update, Toggle, Tables
  <2>2. req'[q].at = at /\ ~Busy(q) /\ UNCHANGED <<rows, screen, unseen>>
    BY <2>1 DEF Start, Disturb
  <2>3. \A p \in Slots \ {q} : Keeps(p)
    BY <2>1, DisturbFrame DEF Start
  <2>4. QED
    BY <2>1, <2>2, <2>3, MovesScreens DEF Busy
<1>2. ASSUME NEW q \in Slots, CreateDevice(q) \/ CreateNetwork(q) \/ Delete(q) PROVE ScreenInv'
  <2>1. PICK t, row : t \in Tables /\ Statement(q, t, row)
    BY <1>2 DEF CreateDevice, CreateNetwork, Delete, Tables
  <2>2. \A p \in Slots \ {q} : Keeps(p) /\ (Busy(p) => ~req'[p].alone)
    BY <2>1, StatementFrame
  <2>3. /\ rows' = [rows EXCEPT ![t] = row] /\ UNCHANGED <<screen, unseen>> /\ ~Busy(q)
        /\ req'[q].at = "tell" /\ req'[q].table = t /\ req'[q].copy = row
    BY <2>1 DEF Statement
  <2>4. Truthful(q)' /\ Tells(q, t)' /\ \A s \in Tables : ~Tells(q, s)
    BY <2>1, <2>3 DEF Truthful, Tells, Busy, TypeInv, TypedRows
  <2>5. \A s \in Tables \ unseen' :
           \/ s \notin unseen /\ rows'[s] = rows[s] /\ (q \in Slots => ~Tells(q, s))
           \/ q \in Slots /\ Tells(q, s)'
    BY <2>3, <2>4 DEF TypeInv, TypedRows
  <2>6. \A p \in Slots \ {q} : Tells(p, req[p].table) => ~req'[p].alone
    BY <2>2 DEF Tells, Busy
  <2>7. QED
    BY <2>2, <2>3, <2>4, <2>5, <2>6, ScreenKept
<1>3. ASSUME NEW q \in Slots, Reached(q) \/ NoAnswer(q) \/ EditFails(q) \/ ControlFailed(q)
               \/ PollNotSaved(q)
      PROVE  ScreenInv'
  <2>1. /\ UNCHANGED <<rows, screen, unseen>> /\ req[q].at # "tell"
        /\ req' = [req EXCEPT ![q] = req'[q]]
    BY <1>3 DEF Reached, NoAnswer, EditFails, ControlFailed, PollNotSaved, Ends, TypeInv
  <2>2. req'[q].at # "tell"
    <3>1. CASE NoAnswer(q)
      BY <3>1 DEF NoAnswer, TypeInv, Busy, Request
    <3>2. QED
      BY <1>3, <3>1 DEF Reached, EditFails, ControlFailed, PollNotSaved, Ends, NoReq, TypeInv
  <2>3. QED
    BY <1>a, <2>1, <2>2, MovesScreens
<1>4. ASSUME NEW q \in Slots, req[q].at \in {"answer", "save"}
      PROVE  /\ Telling(q).at = "tell" /\ Telling(q).table = req[q].table
             /\ Telling(q).copy = Over(Values(q), req[q].copy)
             /\ ~[Telling(q) EXCEPT !.alone = FALSE].alone
  <2>1. Request(req[q])
    BY <1>4 DEF TypeInv, Busy
  <2>2. QED
    BY <2>1 DEF Telling, Request
<1>5. ASSUME NEW q \in Slots, SaveEdit(q) \/ Answered(q) PROVE ScreenInv'
  BY <1>4, <1>5, SaveScreens DEF SaveEdit, Answered
<1>6. ASSUME NEW q \in Slots, PollFailed(q) PROVE ScreenInv'
  <2>1. req[q].table = "device"
    BY <1>6 DEF PollFailed, TypeInv, Busy, Request
  <2>2. QED
    BY <1>6, <2>1, SaveScreens DEF PollFailed, NoReq
<1>7. ASSUME NEW q \in Slots, AnswerNotSaved(q) PROVE ScreenInv'
  <2>1. /\ UNCHANGED <<rows, screen, unseen>> /\ req[q].at = "answer"
        /\ req' = [req EXCEPT ![q] = req'[q]]
        /\ req'[q] = [Telling(q) EXCEPT !.alone = FALSE]
    BY <1>7 DEF AnswerNotSaved, TypeInv
  <2>2. QED
    BY <1>a, <1>4, <2>1, MovesScreens
<1>8. ASSUME NEW q \in Slots, Tell(q) PROVE ScreenInv'
  <2> DEFINE t == req[q].table
  <2>1. t \in Tables
    BY <1>8 DEF Tell, TypeInv, Busy, Request
  <2>2. /\ req' = [req EXCEPT ![q] = NoReq] /\ rows' = rows /\ screen' = [screen EXCEPT ![t] = req[q].copy]
        /\ unseen' = IF req[q].alone /\ req[q].stale = {} THEN unseen \ {t} ELSE unseen \cup {t}
        /\ req[q].at = "tell"
    BY <1>8 DEF Tell, Ends
  <2>3. \A p \in Slots \ {q} : req'[p] = req[p]
    BY <2>2 DEF TypeInv
  <2>4. Truthful(q)'
    BY <2>2 DEF Truthful, NoReq, TypeInv
  <2>5. \A p \in Slots : Truthful(p)'
    BY <2>2, <2>3, <2>4 DEF Truthful, ScreenInv
  <2>6. ASSUME NEW s \in Tables \ unseen'
        PROVE  screen'[s] = rows'[s] \/ \E p \in Slots : Tells(p, s)'
    <3>1. CASE s = t
      <4>1. req[q].alone /\ req[q].stale = {}
        BY <2>2, <2>6, <3>1
      <4>2. req[q].copy = rows[t]
        BY <2>2, <4>1 DEF ScreenInv, Truthful
      <4>3. QED
        BY <2>1, <2>2, <3>1, <4>2 DEF TypeInv, TypedRows
    <3>2. CASE s # t
      <4>1. s \notin unseen /\ screen'[s] = screen[s]
        BY <2>2, <2>6, <3>2 DEF TypeInv, TypedRows
      <4>2. screen[s] = rows[s] \/ \E p \in Slots \ {q} : Tells(p, s)
        BY <2>6, <3>2, <4>1 DEF ScreenInv, Tells
      <4>3. QED
        BY <2>2, <2>3, <4>1, <4>2 DEF Tells
    <3>3. QED
      BY <3>1, <3>2
  <2>7. QED
    BY <2>5, <2>6 DEF ScreenInv
<1>9. ASSUME ByHand PROVE ScreenInv'
  <2>1. Disturb({}, NoReq) /\ {} \in SUBSET Slots /\ UNCHANGED <<rows, screen, unseen>>
    BY <1>9 DEF ByHand
  <2>2. \A p \in Slots : Keeps(p)
    BY <2>1, DisturbFrame
  <2>3. PICK q : q \notin Slots
    BY NoSetContainsEverything
  <2>4. QED
    BY <2>1, <2>2, <2>3, ScreenKept
<1>10. CASE UNCHANGED <<rows, req, screen, unseen>>
  BY <1>10 DEF ScreenInv, Tells, Truthful
<1>11. ASSUME ProbeUpdate \/ ProbeStore PROVE ScreenInv'
  <2>1. \/ \E values : DOMAIN values # {} /\ Columns(values)
        \/ UNCHANGED <<rows, req, unseen>>
    <3>1. DOMAIN [online |-> TRUE] # {}
      OBVIOUS
    <3>2. \A state : DOMAIN [state |-> state] # {}
      OBVIOUS
    <3>3. QED
      BY <1>11, <3>1, <3>2 DEF ProbeUpdate, ProbeStore
  <2>2. screen' = screen
    BY <1>11 DEF ProbeUpdate, ProbeStore
  <2>3. QED
    BY <1>10, <2>1, <2>2, ColumnsScreens
<1>12. CASE ProbeConfig \/ ProbePilot \/ UNCHANGED vars
  BY <1>10, <1>12 DEF ProbeConfig, ProbePilot, vars
<1>13. QED
  BY <1>1, <1>2, <1>3, <1>5, <1>6, <1>7, <1>8, <1>9, <1>11, <1>12 DEF Next

-----------------------------------------------------------------------------
(* The theorems.                                                           *)

Inv == TypeInv /\ CopyInv /\ LoneInv /\ BulbInv /\ ScreenInv

LEMMA InitInv == DevicesAssumption /\ Init => Inv
<1> SUFFICES ASSUME DevicesAssumption, Init PROVE Inv
  OBVIOUS
<1>1. \A q \in Slots : ~Busy(q) /\ req[q].at = "idle"
  BY DEF Init, NoReq, Busy
<1>2. TypeInv
  BY InitType
<1>3. CopyInv
  BY <1>1 DEF Init, CopyInv, Fresh, Working
<1>4. LoneInv
  BY <1>1 DEF Init, LoneInv, Lone, Working, NoProbe
<1>5. BulbInv
  BY <1>1 DEF Init, BulbInv, Commanded
<1>6. ScreenInv
  BY <1>1 DEF Init, ScreenInv, Tells, Truthful
<1>7. QED
  BY <1>2, <1>3, <1>4, <1>5, <1>6 DEF Inv

LEMMA StepInv == DevicesAssumption /\ Inv /\ [Next]_vars => Inv'
  BY TypeStep, CopyStep, LoneStep, BulbStep, ScreenStep DEF Inv

(* Inv holds in every state of every behaviour.                            *)
THEOREM Invariant == Spec => []Inv
<1>1. DevicesAssumption /\ Init => Inv
  BY InitInv
<1>2. DevicesAssumption /\ Inv /\ [Next]_vars => Inv'
  BY StepInv
<1>3. QED
  BY <1>1, <1>2, DevicesAssumption, PTL DEF Spec

(* However many requests and probes run at a time, a column changes only   *)
(* when a request is asked to change it, or saves a copy in which it was   *)
(* overtaken; and only such a copy puts a deleted row back                 *)
(* (devices.go:337, wifi.go:155).                                          *)
THEOREM EditsSurviveHolds == Spec => []EditsSurvive
<1>1. Inv => EditsSurvive
  <2> SUFFICES ASSUME Inv PROVE EditsSurvive
    OBVIOUS
  <2>1. \A v : TypedRows(v) => v["device"] \in Device \cup {Absent} /\ v["network"] \in Network \cup {Absent}
    BY DEF TypedRows, RowOf, Tables
  <2>2. TypedRows(rows) /\ TypedRows(screen) /\ rows = meant
    BY DEF Inv, TypeInv, CopyInv
  <2>3. \A v \in {rows, screen, meant} :
          v["device"] \in Device \cup {Absent} /\ v["network"] \in Network \cup {Absent}
    BY <2>1, <2>2
  <2>4. QED
    BY <2>2, <2>3 DEF Inv, TypeInv, Request, TypedProbe, EditsSurvive, TypeOK, Lamps
<1>2. QED
  BY <1>1, Invariant, PTL

(* At rest, unless it is suspect, the row says what the bulb does: what    *)
(* Control stores is what its command did (devices.go:253, devices.go:406).*)
THEOREM RowFollowsBulbHolds == Spec => []RowFollowsBulb
<1>1. Inv => RowFollowsBulb
  BY DEF Inv, BulbInv, RowFollowsBulb, Quiet, Commanded, Matches, Busy
<1>2. QED
  BY <1>1, Invariant, PTL

(* At rest a screen shows the row of each table whose last change was told *)
(* by an undisturbed request (devices.go:338, devices.go:372).             *)
THEOREM ScreensFollowRowsHolds == Spec => []ScreensFollowRows
<1>1. Inv => ScreensFollowRows
  BY DEF Inv, ScreenInv, ScreensFollowRows, Quiet, Tells, Busy
<1>2. QED
  BY <1>1, Invariant, PTL
===============================================================================
