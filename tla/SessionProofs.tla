----------------------------- MODULE SessionProofs -----------------------------
(***************************************************************************)
(* Theorems about Session, for every set of devices, any number of         *)
(* requests at a time and in all, and any number of failures.              *)
(***************************************************************************)
EXTENDS Session, TLAPS

Columns == user \in Rows /\ meant \in Rows
Counters == ops \in Nat /\ faults \in Nat /\ mishap \in BOOLEAN
HeldTokens ==
  device \in [Devices -> [jwt : Nat, rt : Nat]] /\ \A d \in Devices : device[d].rt <= Len(tokens)

Writers == SaveOps \cup {"reset"}
Pairs == {"login", "refresh"}

(* A request only presents tokens that are stored; one that goes on after  *)
(* reading its token has an unspent one; one that answers that all tokens  *)
(* are revoked is right; a copy nothing has overtaken is the row; and      *)
(* while no write came in between, the pair to be answered is that of a    *)
(* live account.                                                           *)
RequestOK(r, row, list) ==
  /\ r.rt <= Len(list) /\ r.new <= Len(list) /\ r.had <= Len(list)
  /\ r.op # "refresh" => r.rt = 0
  /\ r.at # "idle" => r.n > 0
  /\ r.new # 0 => r.at = "answer"
  /\ r.at \in {"record", "user", "jwt", "rotate", "alarm"} \/ r.new # 0 => r.op \in Pairs
  /\ r.at = "save" => r.op \in Writers
  /\ r.at \in {"record", "user", "jwt", "rotate"} => ~r.late
  /\ (r.at = "answer" /\ r.new = 0) \/ (r.at = "save" /\ r.op = "reset") =>
       (r.ok => \A t \in 1..Len(list) : t <= r.had /\ list[t].owner = r.id => list[t].revoked)
  /\ ~r.dirty /\ (r.at = "save" \/ (r.at = "rows" /\ r.op = "reset")) => r.copy = row
  /\ ~r.dirty /\ r.op \in Pairs /\ (r.at \in {"record", "jwt", "rotate"} \/ (r.at = "answer" /\ r.new # 0)) =>
       /\ row.there /\ ~row.deleted /\ ~row.locked /\ row.id = r.id
       /\ r.at \in {"rotate", "answer"} /\ r.ok => row.jwt = r.n

RequestsOK == req \in [Slots -> Requests] /\ \A s \in Slots : RequestOK(req[s], user, tokens)

(* What is spent is revoked, and a token comes from an earlier, unspent    *)
(* one or from none.                                                       *)
TokensOK ==
  /\ tokens \in Seq(Tokens)
  /\ \A t \in 1..Len(tokens) : ~tokens[t].late /\ tokens[t].from < t /\ (Spent(t) => tokens[t].revoked)

SessionInv == Columns /\ Counters /\ HeldTokens /\ RequestsOK /\ TokensOK /\ ColumnsKept

-----------------------------------------------------------------------------
(* What the steps have in common.                                          *)

LEMMA IdleRequest == Idle \in Requests /\ NoRow \in Rows
  BY SessionAssumption DEF Idle, Requests, NoRow, Rows, Ops, Steps

(* A request that waits while another one writes the row.                  *)
LEMMA WaitsForRow ==
  ASSUME NEW r \in Requests, NEW row, NEW row2, NEW list, RequestOK(r, row, list)
  PROVE  /\ [r EXCEPT !.dirty = @ \/ r.op \in MindsOvertaking] \in Requests
         /\ RequestOK([r EXCEPT !.dirty = @ \/ r.op \in MindsOvertaking], row2, list)
  <1> DEFINE o == [r EXCEPT !.dirty = @ \/ r.op \in MindsOvertaking]
  <1>1. o \in Requests
    BY DEF Requests
  <1>2. /\ o.dirty = (r.dirty \/ r.op \in MindsOvertaking)
        /\ o.rt = r.rt /\ o.new = r.new /\ o.had = r.had /\ o.op = r.op /\ o.at = r.at /\ o.n = r.n
        /\ o.late = r.late /\ o.ok = r.ok /\ o.id = r.id /\ o.copy = r.copy
    BY DEF Requests
  <1> HIDE DEF o
  <1>3. Pairs \subseteq MindsOvertaking /\ Writers \subseteq MindsOvertaking
    BY DEF Pairs, Writers, MindsOvertaking
  <1>4. RequestOK(o, row2, list)
    BY <1>2, <1>3 DEF RequestOK, Writers
  <1> QED BY <1>1, <1>4 DEF o

(* Nor does it mind that tokens are added, or revoked.                     *)
Grows(list, more) ==
  /\ Len(more) >= Len(list)
  /\ \A t \in 1..Len(list) : more[t].owner = list[t].owner /\ (list[t].revoked => more[t].revoked)

LEMMA WaitsForTokens ==
  ASSUME NEW r \in Requests, NEW row, NEW list, NEW more, RequestOK(r, row, list),
         Len(list) \in Nat, Len(more) \in Nat, Grows(list, more)
  PROVE  RequestOK(r, row, more)
  <1> USE DEF Grows
  <1>2. r.rt \in Nat /\ r.new \in Nat /\ r.had \in Nat
    BY DEF Requests
  <1>3. r.rt <= Len(more) /\ r.new <= Len(more) /\ r.had <= Len(more)
    BY <1>2 DEF RequestOK
  <1>4. \A t \in 1..Len(more) : t <= r.had => t \in 1..Len(list)
    BY <1>2 DEF RequestOK
  <1> QED BY <1>3, <1>4 DEF RequestOK

(* A step of one request that writes neither the row nor the tokens.       *)
LEMMA Alone ==
  ASSUME SessionInv, NEW s \in Slots, NEW r \in Requests, req' = [req EXCEPT ![s] = r],
         RequestOK(r, user, tokens), UNCHANGED <<user, tokens, device, meant>>, Counters'
  PROVE  SessionInv'
  <1>1. RequestsOK'
    BY DEF SessionInv, RequestsOK
  <1> QED BY <1>1 DEF SessionInv, Columns, HeldTokens, TokensOK, ColumnsKept, Spent

(* A write of the row.                                                     *)
LEMMA Writes ==
  ASSUME SessionInv, NEW s \in Slots, NEW r \in Requests, Overtake(s, r), RequestOK(r, user', tokens),
         user' \in Rows, meant' = user', UNCHANGED <<tokens, device>>, Counters'
  PROVE  SessionInv'
  <1> DEFINE other(t) == [req[t] EXCEPT !.dirty = @ \/ req[t].op \in MindsOvertaking]
  <1>1. \A t \in Slots : other(t) \in Requests /\ RequestOK(other(t), user', tokens)
    BY WaitsForRow DEF SessionInv, RequestsOK
  <1>2. req' = [t \in Slots |-> IF t = s THEN r ELSE other(t)]
    BY DEF Overtake
  <1> HIDE DEF other
  <1>3. req' \in [Slots -> Requests]
    BY <1>1, <1>2
  <1>4. \A t \in Slots : RequestOK(req'[t], user', tokens')
    BY <1>1, <1>2
  <1>5. RequestsOK'
    BY <1>3, <1>4 DEF RequestsOK
  <1> QED BY <1>5 DEF SessionInv, Columns, HeldTokens, TokensOK, ColumnsKept, Spent

(* A request that begins.                                                  *)
Begun(op, at, r) == [r EXCEPT !.op = op, !.at = at, !.n = ops + 1]

LEMMA BegunType ==
  ASSUME Counters, NEW op \in Ops, NEW at \in Steps, NEW r \in Requests
  PROVE  Begun(op, at, r) \in Requests
  <1>1. ops + 1 \in Nat
    BY DEF Counters
  <1> HIDE DEF Counters
  <1> DEFINE named == [r EXCEPT !.op = op]
             placed == [named EXCEPT !.at = at]
  <1>2. named \in Requests
    BY DEF Requests
  <1>3. placed \in Requests
    BY <1>2 DEF Requests
  <1>4. [placed EXCEPT !.n = ops + 1] \in Requests
    BY <1>1, <1>3 DEF Requests
  <1> QED BY <1>4 DEF Begun

LEMMA Begins ==
  ASSUME SessionInv, NEW s \in Slots, NEW op, NEW at, NEW r, Begin(s, op, at, r),
         Begun(op, at, r) \in Requests, RequestOK(Begun(op, at, r), user, tokens),
         UNCHANGED <<user, tokens, device, faults, meant>>, mishap' \in BOOLEAN
  PROVE  SessionInv'
  <1>1. req' = [req EXCEPT ![s] = Begun(op, at, r)]
    BY DEF Begin, Begun
  <1>2. Counters'
    BY DEF Begin, SessionInv, Counters
  <1> QED BY <1>1, <1>2, Alone

LEMMA InitSession == Init => SessionInv
  <1> SUFFICES ASSUME Init PROVE SessionInv
    OBVIOUS
  <1>1. user \in Rows /\ user = meant
    BY DEF Init, NewRow, NoRow, Rows
  <1>2. RequestOK(Idle, user, tokens)
    BY DEF Init, RequestOK, Idle, Writers, SaveOps, Pairs
  <1>3. RequestsOK
    BY <1>2, IdleRequest DEF Init, RequestsOK
  <1>4. HeldTokens /\ Counters
    <2>1. tokens = <<>> /\ Len(tokens) = 0
      BY DEF Init
    <2>2. device \in [Devices -> [jwt : Nat, rt : Nat]] /\ \A d \in Devices : device[d].rt = 0
      BY DEF Init
    <2>3. HeldTokens
      BY <2>1, <2>2 DEF HeldTokens
    <2> QED BY <2>3 DEF Init, Counters
  <1>5. TokensOK
    <2>1. tokens = <<>> /\ Len(tokens) = 0
      BY DEF Init
    <2> QED BY <2>1 DEF TokensOK
  <1> QED BY <1>1, <1>3, <1>4, <1>5 DEF SessionInv, Columns, ColumnsKept

-----------------------------------------------------------------------------
(* Requests that begin.                                                    *)

LEMMA DeviceStarts ==
  ASSUME SessionInv, NEW s \in Slots, DeviceRequest(s)
  PROVE  SessionInv'
  <1> USE SessionAssumption DEF SessionInv, Columns, Counters
  <1>0. user.id \in Nat
    BY DEF Rows
  <1>1. Len(tokens) \in Nat
    BY DEF TokensOK
  <1>2. ASSUME NEW d \in Devices, StartLogin(s, d) \/ StartPINLogin(s, d) PROVE SessionInv'
    <2> DEFINE r == [Idle EXCEPT !.dev = d, !.id = user.id]
    <2>1. Begin(s, "login", "record", r) /\ Live /\ ~user.locked
          /\ UNCHANGED <<user, tokens, device, faults, meant, mishap>>
      BY <1>2 DEF StartLogin, StartPINLogin, history
    <2>2. Begun("login", "record", r) \in Requests
      <3>1. r \in Requests
        BY <1>0, IdleRequest DEF Requests
      <3>2. "login" \in Ops /\ "record" \in Steps
        BY DEF Ops, Steps, ColumnOps, SaveOps
      <3> QED BY <3>1, <3>2, BegunType
    <2>3. RequestOK(Begun("login", "record", r), user, tokens)
      BY <1>1, <2>1 DEF Begun, Idle, RequestOK, Pairs, Writers, SaveOps, Live
    <2> QED BY <2>1, <2>2, <2>3, Begins
  <1>3. ASSUME NEW d \in Devices, StartRefresh(s, d) PROVE SessionInv'
    <2> DEFINE t == device[d].rt
               r == [Idle EXCEPT !.dev = d, !.rt = t, !.id = tokens[t].owner, !.had = Len(tokens), !.late = Spent(t)]
               at == IF tokens[t].revoked THEN "alarm" ELSE "user"
    <2>1. t \in 1..Len(tokens) /\ tokens[t] \in Tokens
      BY <1>1, <1>3 DEF StartRefresh, HeldTokens, TokensOK
    <2>2. Begin(s, "refresh", at, r) /\ mishap' \in BOOLEAN /\ UNCHANGED <<user, tokens, device, faults, meant>>
      BY <1>3 DEF StartRefresh
    <2>3. Spent(t) \in BOOLEAN /\ (at = "user" => ~Spent(t))
      <3>1. Spent(t) \in BOOLEAN
        BY DEF Spent
      <3>2. \A u \in 1..Len(tokens) : Spent(u) => tokens[u].revoked
        BY DEF TokensOK
      <3>3. Spent(t) => tokens[t].revoked
        BY <2>1, <3>2
      <3> QED BY <3>1, <3>3
    <2>4. Begun("refresh", at, r) \in Requests
      <3>3. t \in Nat /\ tokens[t].owner \in Nat
        BY <1>1, <2>1 DEF Tokens
      <3>1. r \in Requests
        <4> HIDE DEF t, SessionInv, Columns, Counters
        <4> QED BY <1>1, <2>3, <3>3, IdleRequest DEF Requests
      <3>2. "refresh" \in Ops /\ at \in Steps
        BY DEF Ops, Steps, ColumnOps, SaveOps
      <3> QED BY <3>1, <3>2, BegunType
    <2>5. RequestOK(Begun("refresh", at, r), user, tokens)
      BY <1>1, <2>1, <2>3 DEF Begun, Idle, RequestOK, Pairs, Writers, SaveOps
    <2> QED BY <2>2, <2>4, <2>5, Begins
  <1>4. ASSUME NEW d \in Devices, StartLogout(s, d) PROVE SessionInv'
    <2> DEFINE r == [Idle EXCEPT !.dev = d, !.id = user.id, !.had = Len(tokens)]
    <2>1. Begin(s, "logout", "clear", r) /\ UNCHANGED <<user, tokens, device, faults, meant, mishap>>
      BY <1>4 DEF StartLogout, history
    <2>2. Begun("logout", "clear", r) \in Requests
      <3>1. r \in Requests
        BY <1>0, <1>1, IdleRequest DEF Requests
      <3>2. "logout" \in Ops /\ "clear" \in Steps
        BY DEF Ops, Steps, ColumnOps, SaveOps
      <3> QED BY <3>1, <3>2, BegunType
    <2>3. RequestOK(Begun("logout", "clear", r), user, tokens)
      BY <1>1 DEF Begun, Idle, RequestOK, Pairs, Writers, SaveOps
    <2> QED BY <2>1, <2>2, <2>3, Begins
  <1> QED BY <1>2, <1>3, <1>4 DEF DeviceRequest

LEMMA AdminStarts ==
  ASSUME SessionInv, NEW s \in Slots, AdminRequest(s)
  PROVE  SessionInv'
  <1> USE SessionAssumption DEF SessionInv, Columns, Counters
  <1>0. user.id \in Nat
    BY DEF Rows
  <1>1. Len(tokens) \in Nat
    BY DEF TokensOK
  <1>2. ASSUME NEW op \in ColumnOps, StartColumn(s, op) PROVE SessionInv'
    <2> DEFINE r == [Idle EXCEPT !.id = user.id]
    <2>1. Begin(s, op, op, r) /\ UNCHANGED <<user, tokens, device, faults, meant, mishap>>
      BY <1>2 DEF StartColumn, history
    <2>2. Begun(op, op, r) \in Requests
      <3>1. r \in Requests
        BY <1>0, IdleRequest DEF Requests
      <3>2. op \in Ops /\ op \in Steps
        BY DEF Ops, Steps, ColumnOps, SaveOps
      <3> QED BY <3>1, <3>2, BegunType
    <2>3. RequestOK(Begun(op, op, r), user, tokens)
      BY <1>1 DEF Begun, Idle, RequestOK, Pairs, Writers, SaveOps, ColumnOps
    <2> QED BY <2>1, <2>2, <2>3, Begins
  <1>3. ASSUME NEW op \in SaveOps, NEW wish \in Requests, wish.rt = 0 /\ wish.new = 0 /\ wish.had = 0,
               StartSave(s, op, wish)
        PROVE SessionInv'
    <2> DEFINE r == [wish EXCEPT !.id = user.id, !.copy = user]
    <2>1. Begin(s, op, "save", r) /\ UNCHANGED <<user, tokens, device, faults, meant, mishap>>
      BY <1>3 DEF StartSave, history
    <2>2. r \in Requests /\ r.rt = 0 /\ r.new = 0 /\ r.had = 0 /\ r.copy = user
      BY <1>0, <1>3 DEF Requests
    <2>3. Begun(op, "save", r) \in Requests
      <3>1. op \in Ops /\ "save" \in Steps
        BY DEF Ops, Steps, SaveOps
      <3> QED BY <2>2, <3>1, BegunType
    <2>4. LET b == Begun(op, "save", r) IN
          /\ b.op = op /\ b.at = "save" /\ b.n = ops + 1
          /\ b.rt = 0 /\ b.new = 0 /\ b.had = 0 /\ b.copy = user
      BY <2>2 DEF Begun, Requests
    <2>5. RequestOK(Begun(op, "save", r), user, tokens)
      BY <1>1, <2>4 DEF RequestOK, Pairs, Writers, SaveOps
    <2> QED BY <2>1, <2>3, <2>5, Begins
  <1>4. ASSUME StartRegeneratePIN(s) \/ StartMailLink(s) PROVE SessionInv'
    <2>1. PICK op \in SaveOps : StartSave(s, op, Idle)
      BY <1>4 DEF StartRegeneratePIN, StartMailLink, SaveOps
    <2>2. Idle.rt = 0 /\ Idle.new = 0 /\ Idle.had = 0
      BY DEF Idle
    <2> QED BY <1>3, <2>1, <2>2, IdleRequest
  <1>5. CASE StartUpdateUser(s)
    <2>1. PICK guest \in BOOLEAN, expired \in BOOLEAN :
            StartSave(s, "update", [Idle EXCEPT !.guest = guest, !.expired = expired])
      BY <1>5 DEF StartUpdateUser
    <2> DEFINE wish == [Idle EXCEPT !.guest = guest, !.expired = expired]
    <2>2. wish \in Requests
      BY IdleRequest DEF Requests
    <2>3. wish.rt = 0 /\ wish.new = 0 /\ wish.had = 0
      BY DEF Idle
    <2>4. "update" \in SaveOps
      BY DEF SaveOps
    <2> HIDE DEF wish
    <2> QED BY <1>3, <2>1, <2>2, <2>3, <2>4 DEF wish
  <1>6. CASE StartReset(s)
    <2> DEFINE r == [Idle EXCEPT !.id = user.id, !.copy = user, !.had = Len(tokens)]
    <2>1. Begin(s, "reset", "rows", r) /\ UNCHANGED <<user, tokens, device, faults, meant, mishap>>
      BY <1>6 DEF StartReset, history
    <2>2. Begun("reset", "rows", r) \in Requests
      <3>1. r \in Requests
        BY <1>0, <1>1, IdleRequest DEF Requests
      <3>2. "reset" \in Ops /\ "rows" \in Steps
        BY DEF Ops, Steps, ColumnOps, SaveOps
      <3> QED BY <3>1, <3>2, BegunType
    <2>3. RequestOK(Begun("reset", "rows", r), user, tokens)
      BY <1>1 DEF Begun, Idle, RequestOK, Pairs, Writers, SaveOps
    <2> QED BY <2>1, <2>2, <2>3, Begins
  <1>7. CASE StartRestore(s)
    <2> DEFINE r == [Idle EXCEPT !.id = user.id]
    <2>1. Begin(s, "restore", "restore", r) /\ UNCHANGED <<user, tokens, device, faults, meant, mishap>>
      BY <1>7 DEF StartRestore, history
    <2>2. Begun("restore", "restore", r) \in Requests
      <3>1. r \in Requests
        BY <1>0, IdleRequest DEF Requests
      <3>2. "restore" \in Ops /\ "restore" \in Steps
        BY DEF Ops, Steps, ColumnOps, SaveOps
      <3> QED BY <3>1, <3>2, BegunType
    <2>3. RequestOK(Begun("restore", "restore", r), user, tokens)
      BY <1>1 DEF Begun, Idle, RequestOK, Pairs, Writers, SaveOps
    <2> QED BY <2>1, <2>2, <2>3, Begins
  <1>8. CASE StartCreate(s)
    <2>1. PICK guest \in BOOLEAN : Begin(s, "create", "insert", [Idle EXCEPT !.guest = guest])
      BY <1>8 DEF StartCreate
    <2> DEFINE r == [Idle EXCEPT !.guest = guest]
    <2>2. Begun("create", "insert", r) \in Requests
      <3>1. r \in Requests
        BY <1>0, IdleRequest DEF Requests
      <3>2. "create" \in Ops /\ "insert" \in Steps
        BY DEF Ops, Steps, ColumnOps, SaveOps
      <3> QED BY <3>1, <3>2, BegunType
    <2>3. RequestOK(Begun("create", "insert", r), user, tokens)
      BY <1>1 DEF Begun, Idle, RequestOK, Pairs, Writers, SaveOps
    <2> QED BY <1>8, <2>1, <2>2, <2>3, Begins DEF StartCreate, history
  <1> QED BY <1>2, <1>4, <1>5, <1>6, <1>7, <1>8 DEF AdminRequest

-----------------------------------------------------------------------------
(* Steps of requests under way.                                            *)

LEMMA SetColumnsKeeps ==
  ASSUME SessionInv, NEW s \in Slots, NEW row \in Rows, NEW wished, wished = row, NEW r \in Requests,
         SetColumns(s, row, wished, r), UNCHANGED <<tokens, device>>, Counters',
         Live /\ user.id = req[s].id => RequestOK(r, row, tokens),
         ~(Live /\ user.id = req[s].id) => RequestOK(r, user, tokens)
  PROVE  SessionInv'
  <1>1. CASE Live /\ user.id = req[s].id
    BY <1>1, Writes DEF SetColumns
  <1>2. CASE ~(Live /\ user.id = req[s].id)
    BY <1>2, Alone DEF SetColumns
  <1> QED BY <1>1, <1>2

(* Rows of tokens change, and no other row.                                *)
LEMMA TokenStep ==
  ASSUME SessionInv, NEW s \in Slots, NEW r \in Requests, req' = [req EXCEPT ![s] = r],
         UNCHANGED <<user, meant>>, Counters', HeldTokens', TokensOK', RequestOK(r, user, tokens'),
         Grows(tokens, tokens')
  PROVE  SessionInv'
  <1>1. Len(tokens) \in Nat /\ Len(tokens') \in Nat
    BY DEF SessionInv, TokensOK
  <1>2. \A t \in Slots : req[t] \in Requests /\ RequestOK(req[t], user, tokens')
    BY <1>1, WaitsForTokens DEF SessionInv, RequestsOK
  <1>3. RequestsOK'
    BY <1>2 DEF SessionInv, RequestsOK
  <1> QED BY <1>3 DEF SessionInv, Columns, ColumnsKept

(* A request that just moves on.                                           *)
LEMMA OntoType ==
  ASSUME RequestsOK, NEW s \in Slots, NEW at \in Steps
  PROVE  /\ Onto(s, at) \in Requests
         /\ Onto(s, at).at = at
         /\ LET r == req[s] o == Onto(s, at) IN
            /\ o.rt = r.rt /\ o.new = r.new /\ o.had = r.had /\ o.op = r.op /\ o.n = r.n /\ o.dirty = r.dirty
            /\ o.late = r.late /\ o.ok = r.ok /\ o.id = r.id /\ o.copy = r.copy
  <1>1. req[s] \in Requests
    BY DEF RequestsOK
  <1> QED BY <1>1 DEF Onto, Requests

LEMMA IdleOK ==
  ASSUME NEW row, NEW list, Len(list) \in Nat
  PROVE  RequestOK(Idle, row, list)
  BY DEF RequestOK, Idle, Writers, SaveOps, Pairs

LEMMA RowSteps ==
  ASSUME SessionInv, NEW s \in Slots, RecordLogin(s) \/ IssueJWT(s) \/ ClearColumns(s) \/ LockUser(s) \/ DeleteUser(s)
  PROVE  SessionInv'
  <1> DEFINE r == req[s]
  <1>1. r \in Requests /\ RequestOK(r, user, tokens) /\ user \in Rows /\ user = meant /\ Len(tokens) \in Nat
    BY DEF SessionInv, RequestsOK, Columns, TokensOK, ColumnsKept
  <1>2. r.n \in Nat /\ Counters /\ RequestsOK
    BY <1>1 DEF SessionInv, Requests
  <1>3. CASE RecordLogin(s)
    <2> DEFINE row == [user EXCEPT !.logins = @ + 1]
    <2>1. row \in Rows /\ row.there = user.there /\ row.deleted = user.deleted /\ row.locked = user.locked
          /\ row.id = user.id
      BY <1>1 DEF Rows
    <2>2. SetColumns(s, row, row, Onto(s, "jwt")) /\ r.at = "record"
          /\ UNCHANGED <<tokens, device, ops, faults, mishap>>
      BY <1>1, <1>3 DEF RecordLogin, At
    <2>3. RequestOK(Onto(s, "jwt"), user, tokens) /\ RequestOK(Onto(s, "jwt"), row, tokens)
      <3> HIDE DEF row
      <3> QED BY <1>1, <1>2, <2>1, <2>2, OntoType DEF RequestOK, Writers, SaveOps, Steps
    <2>4. Onto(s, "jwt") \in Requests
      BY <1>2, OntoType DEF Steps
    <2> HIDE DEF row
    <2> QED BY <1>2, <2>1, <2>2, <2>3, <2>4, SetColumnsKeeps DEF Counters
  <1>4. CASE IssueJWT(s)
    <2> DEFINE row == [user EXCEPT !.jwt = r.n]
    <2>1. row \in Rows /\ row.there = user.there /\ row.deleted = user.deleted /\ row.locked = user.locked
          /\ row.id = user.id /\ row.jwt = r.n
      BY <1>1, <1>2 DEF Rows
    <2>2. SetColumns(s, row, row, Onto(s, "rotate")) /\ r.at = "jwt"
          /\ UNCHANGED <<tokens, device, ops, faults, mishap>>
      BY <1>1, <1>4 DEF IssueJWT, At
    <2>3. /\ RequestOK(Onto(s, "rotate"), row, tokens)
          /\ ~(Live /\ user.id = req[s].id) => RequestOK(Onto(s, "rotate"), user, tokens)
      <3> HIDE DEF row
      <3> QED BY <1>1, <1>2, <2>1, <2>2, OntoType DEF RequestOK, Writers, SaveOps, Steps, Live
    <2>4. Onto(s, "rotate") \in Requests
      BY <1>2, OntoType DEF Steps
    <2> HIDE DEF row
    <2> QED BY <1>2, <2>1, <2>2, <2>3, <2>4, SetColumnsKeeps DEF Counters
  <1>5. CASE ClearColumns(s)
    <2> DEFINE row == [user EXCEPT !.jwt = 0]
               next == IF r.op = "logout" THEN Onto(s, "rows") ELSE Idle
    <2>1. row \in Rows
      BY <1>1 DEF Rows
    <2>2. SetColumns(s, row, row, next) /\ r.at = "clear" /\ UNCHANGED <<tokens, device, ops, faults, mishap>>
      BY <1>1, <1>5 DEF ClearColumns, At
    <2>3. RequestOK(next, user, tokens) /\ RequestOK(next, row, tokens)
      <3> HIDE DEF row
      <3>1. CASE r.op = "logout"
        BY <1>1, <1>2, <2>2, <3>1, OntoType DEF RequestOK, Writers, SaveOps, Steps, Pairs
      <3>2. CASE r.op # "logout"
        BY <1>1, <3>2, IdleOK
      <3> QED BY <3>1, <3>2
    <2>4. next \in Requests
      BY <1>2, OntoType, IdleRequest DEF Steps
    <2> HIDE DEF row, next
    <2> QED BY <1>2, <2>1, <2>2, <2>3, <2>4, SetColumnsKeeps DEF Counters
  <1>6. CASE LockUser(s)
    <2> DEFINE row == [user EXCEPT !.locked = (r.op = "lock")]
    <2>1. row \in Rows
      BY <1>1 DEF Rows
    <2>2. SetColumns(s, row, row, Idle) /\ UNCHANGED <<tokens, device, ops, faults, mishap>>
      BY <1>1, <1>6 DEF LockUser
    <2> HIDE DEF row
    <2> QED BY <1>1, <1>2, <2>1, <2>2, IdleRequest, IdleOK, SetColumnsKeeps DEF Counters
  <1>7. CASE DeleteUser(s)
    <2> DEFINE row == [user EXCEPT !.deleted = TRUE]
    <2>1. row \in Rows
      BY <1>1 DEF Rows
    <2>2. SetColumns(s, row, row, Idle) /\ UNCHANGED <<tokens, device, ops, faults, mishap>>
      BY <1>1, <1>7 DEF DeleteUser
    <2> HIDE DEF row
    <2> QED BY <1>1, <1>2, <2>1, <2>2, IdleRequest, IdleOK, SetColumnsKeeps DEF Counters
  <1> QED BY <1>3, <1>4, <1>5, <1>6, <1>7

(* UPDATE refresh_tokens SET is_revoked = true only sets that column.      *)
LEMMA RevokedTokens ==
  ASSUME TokensOK, NEW owner
  PROVE  /\ Revoked(owner) \in Seq(Tokens) /\ Len(Revoked(owner)) = Len(tokens)
         /\ \A t \in 1..Len(tokens) :
              /\ Revoked(owner)[t].owner = tokens[t].owner /\ Revoked(owner)[t].from = tokens[t].from
              /\ Revoked(owner)[t].ended = tokens[t].ended /\ Revoked(owner)[t].late = tokens[t].late
              /\ tokens[t].revoked => Revoked(owner)[t].revoked
              /\ tokens[t].owner = owner => Revoked(owner)[t].revoked
  <1> DEFINE f == Revoked(owner)
             n == Len(tokens)
  <1>1. n \in Nat /\ DOMAIN tokens = 1..n /\ \A t \in 1..n : tokens[t] \in Tokens
    BY DEF TokensOK
  <1>2. f = [t \in 1..n |-> IF tokens[t].owner = owner THEN [tokens[t] EXCEPT !.revoked = TRUE] ELSE tokens[t]]
    BY <1>1 DEF Revoked
  <1> HIDE DEF f
  <1>3. \A t \in 1..n : /\ f[t] \in Tokens
                        /\ f[t].owner = tokens[t].owner /\ f[t].from = tokens[t].from
                        /\ f[t].ended = tokens[t].ended /\ f[t].late = tokens[t].late
                        /\ tokens[t].revoked => f[t].revoked
                        /\ tokens[t].owner = owner => f[t].revoked
    BY <1>1, <1>2 DEF Tokens
  <1>4. f \in Seq(Tokens) /\ Len(f) = n
    <2> HIDE DEF n
    <2>1. f = [t \in 1..n |-> f[t]]
      BY <1>2
    <2>2. [t \in 1..n |-> f[t]] \in Seq(Tokens)
      BY <1>1, <1>3
    <2>3. f \in Seq(Tokens)
      BY <2>1, <2>2
    <2>4. DOMAIN f = 1..n
      BY <2>1
    <2> QED BY <1>1, <2>3, <2>4
  <1> QED BY <1>3, <1>4 DEF f

LEMMA RevokeStep ==
  ASSUME SessionInv, NEW s \in Slots, RevokeRows(s)
  PROVE  SessionInv'
  <1> DEFINE r == req[s]
             at == IF r.op = "reset" THEN "save" ELSE "answer"
             f == Revoked(r.id)
  <1>1. r \in Requests /\ RequestOK(r, user, tokens) /\ Len(tokens) \in Nat /\ TokensOK /\ RequestsOK
    BY DEF SessionInv, RequestsOK, TokensOK
  <1>2. /\ r.at \in {"alarm", "rows"} /\ tokens' = f /\ req' = [req EXCEPT ![s] = Onto(s, at)]
        /\ UNCHANGED <<user, device, meant>> /\ ops' = ops /\ faults' = faults /\ mishap' \in BOOLEAN
    BY DEF RevokeRows, Goto, Onto, At, SessionInv, Counters
  <1>3. /\ f \in Seq(Tokens) /\ Len(f) = Len(tokens)
        /\ \A t \in 1..Len(tokens) :
              /\ f[t].owner = tokens[t].owner /\ f[t].from = tokens[t].from
              /\ f[t].ended = tokens[t].ended /\ f[t].late = tokens[t].late
              /\ tokens[t].revoked => f[t].revoked
              /\ tokens[t].owner = r.id => f[t].revoked
    BY <1>1, RevokedTokens
  <1> HIDE DEF f
  <1>4. TokensOK'
    <2>1. \A t \in 1..Len(tokens) : Spent(t)' => Spent(t)
      <3>1. DOMAIN tokens' = 1..Len(tokens) /\ DOMAIN tokens = 1..Len(tokens)
        BY <1>1, <1>2, <1>3 DEF TokensOK
      <3> QED BY <1>2, <1>3, <3>1 DEF Spent
    <2> QED BY <1>1, <1>2, <1>3, <2>1 DEF TokensOK
  <1>5. Onto(s, at) \in Requests /\ Onto(s, at).at = at
    BY <1>1, OntoType DEF Steps
  <1>6. RequestOK(Onto(s, at), user, f)
    <2> DEFINE o == Onto(s, at)
    <2>1. at \in Steps
      BY DEF Steps
    <2>2. /\ o.rt = r.rt /\ o.new = r.new /\ o.had = r.had /\ o.op = r.op /\ o.n = r.n /\ o.dirty = r.dirty
          /\ o.late = r.late /\ o.ok = r.ok /\ o.id = r.id /\ o.copy = r.copy /\ o.at = at
      BY <1>1, <2>1, OntoType
    <2>3. r.new = 0 /\ at \in {"save", "answer"} /\ (at = "save" <=> r.op = "reset")
      BY <1>1, <1>2 DEF RequestOK
    <2> HIDE DEF o, at
    <2>4. \A t \in 1..Len(f) : f[t].owner = o.id => f[t].revoked
      BY <1>3, <2>2
    <2>5. /\ o.rt <= Len(f) /\ o.new <= Len(f) /\ o.had <= Len(f)
          /\ o.op # "refresh" => o.rt = 0
          /\ o.n > 0 /\ o.new = 0
      BY <1>1, <1>2, <1>3, <2>2, <2>3 DEF RequestOK
    <2>6. ~o.dirty /\ at = "save" => o.copy = user
      BY <1>1, <1>2, <2>2, <2>3 DEF RequestOK, Pairs
    <2>7. RequestOK(o, user, f)
      BY <2>2, <2>3, <2>4, <2>5, <2>6 DEF RequestOK, Writers
    <2> QED BY <2>7 DEF o
  <1>7. HeldTokens'
    <2>1. device' = device /\ Len(tokens') = Len(tokens)
      BY <1>2, <1>3
    <2> QED BY <2>1 DEF SessionInv, HeldTokens
  <1>8. Counters'
    <2>1. ops' = ops /\ faults' = faults /\ mishap' \in BOOLEAN
      BY <1>2
    <2> QED BY <2>1 DEF SessionInv, Counters
  <1>9. Grows(tokens, tokens') /\ RequestOK(Onto(s, at), user, tokens')
    BY <1>1, <1>2, <1>3, <1>6 DEF Grows
  <1>10. req' = [req EXCEPT ![s] = Onto(s, at)] /\ UNCHANGED <<user, meant>>
    BY <1>2
  <1> HIDE DEF at, r
  <1> QED BY <1>4, <1>5, <1>7, <1>8, <1>9, <1>10, TokenStep

(* The rows after a rotation.                                              *)
LEMMA RotatedTokens ==
  ASSUME SessionInv, NEW s \in Slots, GenerateRefreshToken(s)
  PROVE  /\ tokens' \in Seq(Tokens) /\ Len(tokens') = Len(tokens) + 1
         /\ LET last == tokens'[Len(tokens) + 1] IN
            last.from = req[s].rt /\ ~last.late /\ ~last.ended /\ ~last.revoked
         /\ \A t \in 1..Len(tokens) :
              /\ tokens'[t].owner = tokens[t].owner /\ tokens'[t].from = tokens[t].from
              /\ tokens'[t].ended = tokens[t].ended /\ tokens'[t].late = tokens[t].late
              /\ tokens[t].revoked => tokens'[t].revoked
              /\ t = req[s].rt => tokens'[t].revoked
              /\ t # req[s].rt => tokens'[t] = tokens[t]
  <1> DEFINE r == req[s]
             n == Len(tokens)
             f == [t \in DOMAIN tokens |-> IF t = r.rt THEN [tokens[t] EXCEPT !.revoked = TRUE] ELSE tokens[t]]
             new == [owner |-> r.id, revoked |-> FALSE, from |-> r.rt, ended |-> FALSE, late |-> r.late]
  <1>1. r \in Requests /\ RequestOK(r, user, tokens) /\ n \in Nat /\ TokensOK
    BY DEF SessionInv, RequestsOK, TokensOK
  <1>2. r.at = "rotate" /\ tokens' = Append(f, new)
    BY DEF GenerateRefreshToken, At
  <1>3. DOMAIN tokens = 1..n /\ \A t \in 1..n : tokens[t] \in Tokens
    BY <1>1 DEF TokensOK
  <1>4. r.rt \in Nat /\ r.rt <= n /\ ~r.late /\ r.id \in Nat /\ r.late \in BOOLEAN
    BY <1>1, <1>2 DEF RequestOK, Requests
  <1>5. new \in Tokens /\ new.from = r.rt /\ ~new.late /\ ~new.ended /\ ~new.revoked
    BY <1>4 DEF Tokens
  <1>6. \A t \in 1..n : /\ f[t] \in Tokens
                        /\ f[t].owner = tokens[t].owner /\ f[t].from = tokens[t].from
                        /\ f[t].ended = tokens[t].ended /\ f[t].late = tokens[t].late
                        /\ tokens[t].revoked => f[t].revoked
                        /\ t = r.rt => f[t].revoked
                        /\ t # r.rt => f[t] = tokens[t]
    BY <1>3 DEF Tokens
  <1>7. f = [t \in 1..n |-> f[t]]
    BY <1>3
  <1> HIDE DEF f, new
  <1>8. f \in Seq(Tokens) /\ Len(f) = n
    <2> HIDE DEF n
    <2>1. [t \in 1..n |-> f[t]] \in Seq(Tokens)
      BY <1>1, <1>6
    <2>2. f \in Seq(Tokens)
      BY <1>7, <2>1
    <2>3. DOMAIN f = 1..n
      BY <1>7
    <2> QED BY <1>1, <2>2, <2>3
  <1>9. /\ tokens' \in Seq(Tokens) /\ Len(tokens') = n + 1 /\ tokens'[n + 1] = new
        /\ \A t \in 1..n : tokens'[t] = f[t]
    BY <1>2, <1>5, <1>8
  <1> HIDE DEF n
  <1> QED BY <1>5, <1>6, <1>9 DEF n

LEMMA RotateStep ==
  ASSUME SessionInv, NEW s \in Slots, GenerateRefreshToken(s)
  PROVE  SessionInv'
  <1> DEFINE r == req[s]
             n == Len(tokens)
             next == [r EXCEPT !.at = "answer", !.new = n + 1]
  <1>1. r \in Requests /\ RequestOK(r, user, tokens) /\ n \in Nat /\ TokensOK
    BY DEF SessionInv, RequestsOK, TokensOK
  <1>2. /\ r.at = "rotate" /\ req' = [req EXCEPT ![s] = next]
        /\ UNCHANGED <<user, device, meant>> /\ ops' = ops /\ faults' = faults /\ mishap' = mishap
    BY DEF GenerateRefreshToken, At, history
  <1>3. DOMAIN tokens = 1..n /\ \A t \in 1..n : tokens[t] \in Tokens
    BY <1>1 DEF TokensOK
  <1>4. r.rt \in Nat /\ r.rt <= n
    BY <1>1, <1>2 DEF RequestOK, Requests
  <1>5. /\ tokens'[n + 1].from = r.rt /\ ~tokens'[n + 1].late /\ ~tokens'[n + 1].ended
    BY RotatedTokens
  <1>6. \A t \in 1..n : /\ tokens'[t].owner = tokens[t].owner /\ tokens'[t].from = tokens[t].from
                        /\ tokens'[t].ended = tokens[t].ended /\ tokens'[t].late = tokens[t].late
                        /\ tokens[t].revoked => tokens'[t].revoked
                        /\ t = r.rt => tokens'[t].revoked
    BY RotatedTokens
  <1>9. tokens' \in Seq(Tokens) /\ Len(tokens') = n + 1
    BY RotatedTokens
  <1>10. TokensOK'
    <2>1. DOMAIN tokens' = 1..(n + 1)
      BY <1>9
    <2> HIDE DEF n
    <2>2. \A t \in 1..n : Spent(t)' => Spent(t) \/ t = r.rt
      <3> SUFFICES ASSUME NEW t \in 1..n, Spent(t)', t # r.rt PROVE Spent(t)
        OBVIOUS
      <3>1. CASE tokens'[t].ended
        BY <1>6, <1>9, <3>1 DEF Spent
      <3>2. CASE \E c \in 1..(n + 1) : tokens'[c].from = t
        <4>1. PICK c \in 1..(n + 1) : tokens'[c].from = t
          BY <3>2
        <4>2. c # n + 1
          BY <1>5, <1>9, <4>1
        <4>3. c \in 1..n
          BY <1>1, <4>2
        <4>4. tokens[c].from = t
          BY <1>6, <1>9, <4>1, <4>3
        <4> QED BY <1>3, <4>3, <4>4 DEF Spent
      <3> QED BY <2>1, <3>1, <3>2 DEF Spent
    <2>3. \A c \in 1..(n + 1) : tokens'[c].from < c
      <3> TAKE c \in 1..(n + 1)
      <3>1. CASE c = n + 1
        BY <1>1, <1>4, <1>5, <1>9, <3>1
      <3>2. CASE c # n + 1
        <4>1. c \in 1..n
          BY <1>1, <3>2
        <4>2. tokens[c].from < c
          BY <1>1, <4>1 DEF TokensOK, n
        <4> QED BY <1>6, <1>9, <4>1, <4>2
      <3> QED BY <3>1, <3>2
    <2>4. \A t : t = n + 1 => ~Spent(t)'
      <3>1. ~tokens'[n + 1].ended
        BY <1>5, <1>9
      <3>2. \A c \in 1..(n + 1) : tokens'[c].from # n + 1
        <4> TAKE c \in 1..(n + 1)
        <4>1. tokens'[c] \in Tokens
          BY <1>9, <2>1
        <4>2. tokens'[c].from \in Nat /\ tokens'[c].from < c
          BY <2>3, <4>1 DEF Tokens
        <4> QED BY <1>1, <4>2
      <3> QED BY <1>1, <2>1, <3>1, <3>2 DEF Spent
    <2>5. \A t \in 1..(n + 1) : ~tokens'[t].late /\ (Spent(t)' => tokens'[t].revoked)
      <3> TAKE t \in 1..(n + 1)
      <3>1. CASE t = n + 1
        BY <1>5, <1>9, <2>4, <3>1
      <3>2. CASE t # n + 1
        <4>1. t \in 1..n
          BY <1>1, <3>2
        <4>2. ~tokens[t].late /\ (Spent(t) => tokens[t].revoked)
          BY <1>1, <4>1 DEF TokensOK, n
        <4> QED BY <1>6, <1>9, <2>2, <4>1, <4>2
      <3> QED BY <3>1, <3>2
    <2> QED BY <1>9, <2>3, <2>5 DEF TokensOK
  <1>11. Grows(tokens, tokens')
    BY <1>1, <1>6, <1>9 DEF Grows
  <1>12. next \in Requests /\ RequestOK(next, user, tokens')
    <2> DEFINE o == next
    <2>1. /\ o.rt = r.rt /\ o.new = n + 1 /\ o.had = r.had /\ o.op = r.op /\ o.n = r.n /\ o.dirty = r.dirty
          /\ o.late = r.late /\ o.ok = r.ok /\ o.id = r.id /\ o.copy = r.copy /\ o.at = "answer"
      BY <1>1 DEF Requests
    <2>2. o \in Requests
      <3>1. "answer" \in Steps /\ n + 1 \in Nat
        BY <1>1 DEF Steps
      <3> HIDE DEF n
      <3> QED BY <1>1, <3>1 DEF Requests
    <2>3. r.had \in Nat
      BY <1>1 DEF Requests
    <2> HIDE DEF o, next, n
    <2>4. RequestOK(o, user, tokens')
      BY <1>1, <1>2, <1>4, <1>9, <2>1, <2>3 DEF RequestOK, Writers, SaveOps, Pairs, n
    <2> QED BY <2>2, <2>4 DEF o
  <1>13. HeldTokens'
    <2>1. \A d \in Devices : device[d].rt \in Nat /\ device[d].rt <= n
      BY DEF SessionInv, HeldTokens
    <2>2. \A d \in Devices : device[d].rt <= n + 1
      BY <1>1, <2>1
    <2>3. device' = device /\ Len(tokens') = n + 1
      BY <1>2, <1>9
    <2> HIDE DEF n
    <2> QED BY <2>2, <2>3 DEF SessionInv, HeldTokens
  <1>14. Counters'
    <2>1. ops' = ops /\ faults' = faults /\ mishap' = mishap
      BY <1>2
    <2> QED BY <2>1 DEF SessionInv, Counters
  <1>15. req' = [req EXCEPT ![s] = next] /\ UNCHANGED <<user, meant>>
    BY <1>2
  <1> HIDE DEF next, r
  <1> QED BY <1>10, <1>11, <1>12, <1>13, <1>14, <1>15, TokenStep

LEMMA AnswerStep ==
  ASSUME SessionInv, NEW s \in Slots, Answer(s)
  PROVE  SessionInv'
  <1> DEFINE r == req[s]
             n == Len(tokens)
             over(t) == r.new = 0 /\ r.ok /\ t <= r.had /\ tokens[t].owner = r.id
             f == IF r.new = 0 /\ r.ok
                  THEN [t \in DOMAIN tokens |-> IF t <= r.had /\ tokens[t].owner = r.id
                                                THEN [tokens[t] EXCEPT !.ended = TRUE] ELSE tokens[t]]
                  ELSE tokens
  <1>1. r \in Requests /\ RequestOK(r, user, tokens) /\ n \in Nat /\ TokensOK
    BY DEF SessionInv, RequestsOK, TokensOK
  <1>2. /\ r.at = "answer" /\ tokens' = f /\ req' = [req EXCEPT ![s] = Idle]
        /\ UNCHANGED <<user, meant>> /\ ops' = ops /\ faults' = faults /\ mishap' = mishap
    BY DEF Answer, At, Ends, history
  <1>3. DOMAIN tokens = 1..n /\ \A t \in 1..n : tokens[t] \in Tokens
    BY <1>1 DEF TokensOK
  <1>4. \A t \in 1..n : /\ f[t] \in Tokens
                        /\ f[t].owner = tokens[t].owner /\ f[t].from = tokens[t].from
                        /\ f[t].revoked = tokens[t].revoked /\ f[t].late = tokens[t].late
                        /\ f[t].ended => tokens[t].ended \/ over(t)
    BY <1>3 DEF Tokens
  <1>5. f = [t \in 1..n |-> f[t]]
    <2>1. CASE r.new = 0 /\ r.ok
      BY <1>3, <2>1
    <2>2. CASE ~(r.new = 0 /\ r.ok)
      <3>1. f = tokens /\ tokens = [t \in 1..n |-> tokens[t]]
        BY <1>1, <1>3, <2>2 DEF TokensOK
      <3> HIDE DEF f, n
      <3> QED BY <3>1
    <2> QED BY <2>1, <2>2
  <1> HIDE DEF f
  <1>6. f \in Seq(Tokens) /\ Len(f) = n
    <2> HIDE DEF n
    <2>1. [t \in 1..n |-> f[t]] \in Seq(Tokens)
      BY <1>1, <1>4
    <2>2. f \in Seq(Tokens)
      BY <1>5, <2>1
    <2>3. DOMAIN f = 1..n
      BY <1>5
    <2> QED BY <1>1, <2>2, <2>3
  <1>7. \A t \in 1..n : over(t) => tokens[t].revoked
    BY <1>1, <1>2 DEF RequestOK
  <1> HIDE DEF over
  <1>8. TokensOK'
    <2>1. DOMAIN tokens' = 1..n /\ Len(tokens') = n /\ tokens' = f
      BY <1>2, <1>6
    <2> HIDE DEF n
    <2>2. \A t \in 1..n : Spent(t)' => Spent(t) \/ over(t)
      BY <1>3, <1>4, <2>1 DEF Spent
    <2>3. \A t \in 1..n : ~tokens[t].late /\ tokens[t].from < t /\ (Spent(t) => tokens[t].revoked)
      BY DEF SessionInv, TokensOK, n
    <2>4. \A t \in 1..n : ~tokens'[t].late /\ tokens'[t].from < t /\ (Spent(t)' => tokens'[t].revoked)
      BY <1>4, <1>7, <2>1, <2>2, <2>3
    <2> QED BY <1>6, <2>1, <2>4 DEF TokensOK
  <1>9. Grows(tokens, tokens')
    BY <1>1, <1>2, <1>4, <1>6 DEF Grows
  <1>10. HeldTokens'
    <2>1. Len(tokens') = n /\ r.new \in Nat /\ r.n \in Nat /\ r.new <= n
      BY <1>1, <1>2, <1>6 DEF RequestOK, Requests
    <2>2. device' = IF r.new # 0 THEN [device EXCEPT ![r.dev] = [jwt |-> r.n, rt |-> r.new]]
                    ELSE IF r.op = "logout" THEN [device EXCEPT ![r.dev] = [jwt |-> 0, rt |-> 0]] ELSE device
      BY DEF Answer
    <2>3. device \in [Devices -> [jwt : Nat, rt : Nat]] /\ \A d \in Devices : device[d].rt <= n
      BY DEF SessionInv, HeldTokens
    <2> HIDE DEF n, r
    <2>4. device' \in [Devices -> [jwt : Nat, rt : Nat]]
      BY <2>1, <2>2, <2>3
    <2>5. \A d \in Devices : device'[d].rt \in {device[d].rt, r.new, 0}
      BY <2>1, <2>2, <2>3
    <2>6. \A d \in Devices : device'[d].rt <= n
      BY <1>1, <2>1, <2>3, <2>5
    <2> QED BY <2>1, <2>4, <2>6 DEF HeldTokens
  <1>11. Counters'
    <2>1. ops' = ops /\ faults' = faults /\ mishap' = mishap
      BY <1>2
    <2> QED BY <2>1 DEF SessionInv, Counters
  <1>12. RequestOK(Idle, user, tokens') /\ Idle \in Requests
    BY <1>1, <1>2, <1>6, IdleOK, IdleRequest
  <1>13. req' = [req EXCEPT ![s] = Idle] /\ UNCHANGED <<user, meant>>
    BY <1>2
  <1> QED BY <1>8, <1>9, <1>10, <1>11, <1>12, <1>13, TokenStep

(* What a request intends to write is what it means to write.              *)
LEMMA SaveSteps ==
  ASSUME SessionInv, NEW s \in Slots, SaveRow(s) \/ RestoreUser(s) \/ CreateUser(s)
  PROVE  SessionInv'
  <1> DEFINE r == req[s]
  <1>1. r \in Requests /\ RequestOK(r, user, tokens) /\ user \in Rows /\ user = meant /\ Len(tokens) \in Nat
        /\ Counters /\ RequestsOK
    BY DEF SessionInv, RequestsOK, Columns, TokensOK, ColumnsKept
  <1>2. CASE SaveRow(s)
    <2> DEFINE next == IF r.op = "reset" THEN Onto(s, "answer") ELSE Idle
    <2>1. /\ r.at = "save" /\ user' = Intends(s, r.copy) /\ Overtake(s, next)
          /\ meant' = IF r.dirty THEN user' ELSE Intends(s, meant)
          /\ UNCHANGED <<tokens, device, ops, faults, mishap>>
      BY <1>2 DEF SaveRow, At
    <2>2. ~r.dirty => r.copy = user
      BY <1>1, <2>1 DEF RequestOK
    <2>3. meant' = user'
      BY <1>1, <2>1, <2>2
    <2>4. user' \in Rows
      <3>1. r.copy \in Rows /\ r.n \in Nat /\ r.guest \in BOOLEAN /\ r.expired \in BOOLEAN
        BY <1>1 DEF Requests
      <3> HIDE DEF r
      <3>2. Intends(s, r.copy) \in Rows
        BY <3>1 DEF Intends, Rows, r
      <3> QED BY <2>1, <3>2
    <2>5. next \in Requests /\ RequestOK(next, user', tokens)
      <3>1. CASE r.op = "reset"
        <4>1. RequestOK(Onto(s, "answer"), user', tokens) /\ Onto(s, "answer") \in Requests
          BY <1>1, <2>1, <3>1, OntoType DEF RequestOK, Writers, SaveOps, Steps, Pairs
        <4> QED BY <3>1, <4>1
      <3>2. CASE r.op # "reset"
        BY <1>1, <3>2, IdleOK, IdleRequest
      <3> QED BY <3>1, <3>2
    <2>6. Counters'
      BY <1>1, <2>1 DEF Counters
    <2> HIDE DEF next, r
    <2> QED BY <2>1, <2>3, <2>4, <2>5, <2>6, Writes
  <1>3. CASE RestoreUser(s)
    <2>1. user' = [user EXCEPT !.deleted = FALSE] /\ meant' = [meant EXCEPT !.deleted = FALSE]
          /\ Overtake(s, Idle) /\ UNCHANGED <<tokens, device, ops, faults, mishap>>
      BY <1>3 DEF RestoreUser
    <2>2. user' \in Rows /\ meant' = user'
      BY <1>1, <2>1 DEF Rows
    <2>3. RequestOK(Idle, user', tokens) /\ Idle \in Requests /\ Counters'
      BY <1>1, <2>1, IdleOK, IdleRequest DEF Counters
    <2> QED BY <2>1, <2>2, <2>3, Writes
  <1>4. CASE CreateUser(s)
    <2>1. UNCHANGED <<tokens, device>> /\ Counters'
      BY <1>1, <1>4 DEF CreateUser, Counters
    <2>2. RequestOK(Idle, user', tokens) /\ Idle \in Requests
      BY <1>1, IdleOK, IdleRequest
    <2>3. CASE user.there
      <3>1. req' = [req EXCEPT ![s] = Idle] /\ UNCHANGED <<user, meant>>
        BY <1>4, <2>3 DEF CreateUser, Ends
      <3> QED BY <2>1, <2>2, <3>1, Alone
    <2>4. CASE ~user.there
      <3> DEFINE pin == IF r.guest THEN r.n ELSE 0
      <3>1. user' = NewRow(user.id + 1, r.guest, pin) /\ meant' = user' /\ Overtake(s, Idle)
        BY <1>4, <2>4 DEF CreateUser
      <3>2. user.id + 1 \in Nat /\ r.guest \in BOOLEAN /\ pin \in Nat
        <4>1. user.id \in Nat
          BY <1>1 DEF Rows
        <4>2. r.guest \in BOOLEAN /\ r.n \in Nat
          BY <1>1 DEF Requests
        <4> QED BY <4>1, <4>2
      <3> HIDE DEF pin, r
      <3>3. \A id \in Nat, guest \in BOOLEAN, p \in Nat : NewRow(id, guest, p) \in Rows
        <4> TAKE id \in Nat, guest \in BOOLEAN, p \in Nat
        <4> DEFINE named == [NoRow EXCEPT !.id = id]
                   there == [named EXCEPT !.there = TRUE]
                   known == [there EXCEPT !.guest = guest]
        <4>1. named \in Rows
          BY IdleRequest DEF Rows
        <4>2. there \in Rows
          BY <4>1 DEF Rows
        <4>3. known \in Rows
          BY <4>2 DEF Rows
        <4>4. [known EXCEPT !.pin = p] \in Rows
          BY <4>3 DEF Rows
        <4> QED BY <4>4 DEF NewRow
      <3>4. user' \in Rows
        BY <3>1, <3>2, <3>3
      <3> QED BY <2>1, <2>2, <3>1, <3>4, Writes
    <2> QED BY <2>3, <2>4
  <1> QED BY <1>2, <1>3, <1>4

LEMMA ReadStep ==
  ASSUME SessionInv, NEW s \in Slots, RefreshUser(s)
  PROVE  SessionInv'
  <1> DEFINE r == req[s]
             next == [r EXCEPT !.at = "jwt", !.dirty = FALSE]
  <1>1. r \in Requests /\ RequestOK(r, user, tokens) /\ Len(tokens) \in Nat /\ r.at = "user"
    BY DEF SessionInv, RequestsOK, TokensOK, RefreshUser, At
  <1>2. UNCHANGED <<user, tokens, device, meant>> /\ Counters'
    BY DEF RefreshUser, history, SessionInv, Counters
  <1>3. CASE Live /\ user.id = r.id /\ ~user.locked
    <2>1. /\ next \in Requests
          /\ next.rt = r.rt /\ next.new = r.new /\ next.had = r.had /\ next.op = r.op /\ next.n = r.n
          /\ next.late = r.late /\ next.ok = r.ok /\ next.id = r.id /\ next.copy = r.copy /\ next.at = "jwt"
      <3>1. "jwt" \in Steps
        BY DEF Steps
      <3> QED BY <1>1, <3>1 DEF Requests
    <2>2. req' = [req EXCEPT ![s] = next]
      BY <1>3 DEF RefreshUser
    <2> HIDE DEF next
    <2>3. RequestOK(next, user, tokens)
      BY <1>1, <1>3, <2>1 DEF RequestOK, Writers, SaveOps, Live
    <2> QED BY <1>2, <2>1, <2>2, <2>3, Alone
  <1>4. CASE ~(Live /\ user.id = r.id /\ ~user.locked)
    <2>1. req' = [req EXCEPT ![s] = Idle]
      BY <1>4 DEF RefreshUser, Ends
    <2> QED BY <1>1, <1>2, <2>1, Alone, IdleOK, IdleRequest
  <1> QED BY <1>3, <1>4

LEMMA FaultSteps ==
  ASSUME SessionInv, NEW s \in Slots, StatementFails(s) \/ AnswerLost(s)
  PROVE  SessionInv'
  <1> DEFINE r == req[s]
             goes(at) == [r EXCEPT !.at = at]
             gives(at) == [r EXCEPT !.at = at, !.ok = FALSE]
  <1>1. r \in Requests /\ RequestOK(r, user, tokens) /\ Len(tokens) \in Nat
    BY DEF SessionInv, RequestsOK, TokensOK
  <1>2. UNCHANGED <<user, tokens, device, meant>> /\ Counters'
    <2>1. faults' = faults + 1 /\ ops' = ops /\ mishap' \in BOOLEAN /\ UNCHANGED <<user, tokens, device, meant>>
      BY DEF StatementFails, AnswerLost, history, SessionInv, Counters
    <2> QED BY <2>1 DEF SessionInv, Counters
  <1>3. CASE StatementFails(s)
    <2>1. r.at # "answer"
      BY <1>3 DEF StatementFails
    <2>2. r.new = 0
      BY <1>1, <2>1 DEF RequestOK
    <2>3. \/ r.at = "record" /\ req' = [req EXCEPT ![s] = goes("jwt")]
          \/ r.at = "jwt" /\ req' = [req EXCEPT ![s] = gives("rotate")]
          \/ r.at = "clear" /\ r.op = "logout" /\ req' = [req EXCEPT ![s] = goes("rows")]
          \/ r.at = "rows" /\ r.op = "reset" /\ req' = [req EXCEPT ![s] = gives("save")]
          \/ r.at \in {"rows", "alarm"} /\ req' = [req EXCEPT ![s] = gives("answer")]
          \/ req' = [req EXCEPT ![s] = Idle]
      BY <1>3 DEF StatementFails
    <2>4. \A at \in Steps :
             /\ goes(at) \in Requests /\ gives(at) \in Requests
             /\ LET o == goes(at) IN
                /\ o.rt = r.rt /\ o.new = r.new /\ o.had = r.had /\ o.op = r.op /\ o.n = r.n /\ o.dirty = r.dirty
                /\ o.late = r.late /\ o.ok = r.ok /\ o.id = r.id /\ o.copy = r.copy /\ o.at = at
             /\ LET o == gives(at) IN
                /\ o.rt = r.rt /\ o.new = r.new /\ o.had = r.had /\ o.op = r.op /\ o.n = r.n /\ o.dirty = r.dirty
                /\ o.late = r.late /\ o.ok = FALSE /\ o.id = r.id /\ o.copy = r.copy /\ o.at = at
      BY <1>1 DEF Requests
    <2> HIDE DEF goes, gives
    <2>5. {"jwt", "rotate", "rows", "save", "answer"} \subseteq Steps
      BY DEF Steps
    <2>6. CASE r.at = "record" /\ req' = [req EXCEPT ![s] = goes("jwt")]
      <3>1. goes("jwt") \in Requests /\ RequestOK(goes("jwt"), user, tokens)
        BY <1>1, <2>2, <2>4, <2>5, <2>6 DEF RequestOK, Writers, SaveOps
      <3> QED BY <1>2, <2>6, <3>1, Alone
    <2>7. CASE r.at = "jwt" /\ req' = [req EXCEPT ![s] = gives("rotate")]
      <3>1. gives("rotate") \in Requests /\ RequestOK(gives("rotate"), user, tokens)
        BY <1>1, <2>2, <2>4, <2>5, <2>7 DEF RequestOK, Writers, SaveOps
      <3> QED BY <1>2, <2>7, <3>1, Alone
    <2>8. CASE r.at = "clear" /\ r.op = "logout" /\ req' = [req EXCEPT ![s] = goes("rows")]
      <3>1. goes("rows") \in Requests /\ RequestOK(goes("rows"), user, tokens)
        BY <1>1, <2>2, <2>4, <2>5, <2>8 DEF RequestOK, Writers, SaveOps, Pairs
      <3> QED BY <1>2, <2>8, <3>1, Alone
    <2>9. CASE r.at = "rows" /\ r.op = "reset" /\ req' = [req EXCEPT ![s] = gives("save")]
      <3>1. gives("save") \in Requests /\ RequestOK(gives("save"), user, tokens)
        BY <1>1, <2>2, <2>4, <2>5, <2>9 DEF RequestOK, Writers, SaveOps, Pairs
      <3> QED BY <1>2, <2>9, <3>1, Alone
    <2>10. CASE r.at \in {"rows", "alarm"} /\ req' = [req EXCEPT ![s] = gives("answer")]
      <3>1. gives("answer") \in Requests /\ RequestOK(gives("answer"), user, tokens)
        BY <1>1, <2>2, <2>4, <2>5, <2>10 DEF RequestOK, Writers, SaveOps, Pairs
      <3> QED BY <1>2, <2>10, <3>1, Alone
    <2>11. CASE req' = [req EXCEPT ![s] = Idle]
      BY <1>1, <1>2, <2>11, Alone, IdleOK, IdleRequest
    <2> QED BY <2>3, <2>6, <2>7, <2>8, <2>9, <2>10, <2>11
  <1>4. CASE AnswerLost(s)
    <2>1. req' = [req EXCEPT ![s] = Idle]
      BY <1>4 DEF AnswerLost, Ends
    <2> QED BY <1>1, <1>2, <2>1, Alone, IdleOK, IdleRequest
  <1> QED BY <1>3, <1>4

(* No request is under way when rows are purged: no copy is of the row.    *)
LEMMA PurgeStep ==
  ASSUME SessionInv, PurgeDeletedUsers
  PROVE  SessionInv'
  <1>1. /\ user' = [NoRow EXCEPT !.id = user.id] /\ meant' = user'
        /\ UNCHANGED <<tokens, req, device, ops, faults, mishap>> /\ \A s \in Slots : req[s].op = "idle"
    BY DEF PurgeDeletedUsers
  <1>2. user' \in Rows
    BY <1>1, IdleRequest DEF SessionInv, Columns, Rows
  <1>3. \A s \in Slots : RequestOK(req[s], user', tokens)
    <2> TAKE s \in Slots
    <2>1. RequestOK(req[s], user, tokens) /\ req[s].op = "idle"
      BY <1>1 DEF SessionInv, RequestsOK
    <2> QED BY <2>1 DEF RequestOK, Writers, SaveOps, Pairs
  <1>4. RequestsOK'
    BY <1>1, <1>3 DEF SessionInv, RequestsOK
  <1> QED BY <1>1, <1>2, <1>4 DEF SessionInv, Columns, Counters, HeldTokens, TokensOK, Spent, ColumnsKept

-----------------------------------------------------------------------------
LEMMA StepSession == SessionInv /\ [Next]_vars => SessionInv'
  <1> SUFFICES ASSUME SessionInv, [Next]_vars PROVE SessionInv'
    OBVIOUS
  <1>1. ASSUME NEW s \in Slots, AuthStep(s) PROVE SessionInv'
    BY <1>1, RowSteps, RotateStep, ReadStep, RevokeStep, AnswerStep DEF AuthStep
  <1>2. ASSUME NEW s \in Slots, AdminStep(s) PROVE SessionInv'
    BY <1>2, RowSteps, SaveSteps DEF AdminStep
  <1>3. CASE UNCHANGED vars
    BY <1>3 DEF vars, SessionInv, Columns, Counters, HeldTokens, RequestsOK, TokensOK, Spent, ColumnsKept
  <1> QED BY <1>1, <1>2, <1>3, DeviceStarts, AdminStarts, FaultSteps, PurgeStep DEF Next

(* The row, the tokens, the requests and the devices keep their types, and *)
(* no token comes from one that was spent when it was presented            *)
(* (auth.go:419): it is revoked then, and the request goes to the alarm.   *)
THEOREM NoSessionFromASpentTokenHolds == Spec => []NoSessionFromASpentToken
  <1>1. SessionInv => NoSessionFromASpentToken
    <2> SUFFICES ASSUME SessionInv PROVE NoSessionFromASpentToken
      OBVIOUS
    <2> USE DEF SessionInv
    <2>1. tokens \in Seq(Tokens) /\ DOMAIN tokens = 1..Len(tokens)
      BY DEF TokensOK
    <2>2. req \in [Slots -> Requests] /\ \A s \in Slots : req[s].rt <= Len(tokens) /\ req[s].new <= Len(tokens)
      BY DEF RequestsOK, RequestOK
    <2>3. TypeOK
      BY <2>1, <2>2 DEF TypeOK, Columns, Counters, HeldTokens
    <2>4. \A t \in DOMAIN tokens : ~tokens[t].late
      BY <2>1 DEF TokensOK
    <2> QED BY <2>3, <2>4 DEF NoSessionFromASpentToken
  <1> QED BY <1>1, InitSession, StepSession, PTL DEF Spec

(* Every column of the account holds what the last request meant to write, *)
(* unless an overtaken Save put an older value back (admin_users.go:524).  *)
THEOREM ColumnsKeptHolds == Spec => []ColumnsKept
  <1>1. SessionInv => ColumnsKept
    BY DEF SessionInv
  <1> QED BY <1>1, InitSession, StepSession, PTL DEF Spec

(* A pair that reaches a device with its own token stored, and without     *)
(* another write of the account, is accepted (auth.go:99).                 *)
THEOREM FreshPairIsAcceptedHolds == Spec => FreshPairIsAccepted
  <1> DEFINE Fresh == \A s \in Slots, d \in Devices :
                        At(s, "answer") /\ req[s].dev = d /\ req[s].new # 0 /\ ~req[s].dirty /\ req[s].ok
                          /\ ~At(s, "answer")' /\ device'[d] # device[d] => Accepted(d)'
  <1>1. SessionInv /\ [Next]_vars => [Fresh]_vars
    <2> SUFFICES ASSUME SessionInv, [Next]_vars, NEW s \in Slots, NEW d \in Devices,
                        At(s, "answer"), req[s].dev = d, req[s].new # 0, ~req[s].dirty, req[s].ok,
                        ~At(s, "answer")', device'[d] # device[d]
                 PROVE  Accepted(d)'
      OBVIOUS
    <2>1. \E t \in Slots : Answer(t)
      BY DEF Next, DeviceRequest, AdminRequest, AuthStep, AdminStep, vars, history, PurgeDeletedUsers,
             StartLogin, StartPINLogin, StartRefresh, StartLogout, StartColumn, StartRegeneratePIN, StartMailLink,
             StartUpdateUser, StartSave, StartReset, StartRestore, StartCreate, RecordLogin, IssueJWT,
             GenerateRefreshToken, RefreshUser, RevokeRows, ClearColumns, LockUser, DeleteUser, SaveRow,
             RestoreUser, CreateUser, StatementFails, AnswerLost
    <2>2. Answer(s)
      BY <2>1 DEF Answer, At, Ends, SessionInv, RequestsOK
    <2>3. device' = [device EXCEPT ![d] = [jwt |-> req[s].n, rt |-> req[s].new]] /\ user' = user
      BY <2>2 DEF Answer
    <2>4. device'[d].jwt = req[s].n
      BY <2>3 DEF SessionInv, HeldTokens
    <2>5. /\ user.there /\ ~user.deleted /\ ~user.locked /\ user.jwt = req[s].n /\ req[s].n > 0
      BY DEF SessionInv, RequestsOK, RequestOK, At
    <2> QED BY <2>3, <2>4, <2>5 DEF Accepted, Live
  <1> QED BY <1>1, InitSession, StepSession, PTL DEF Spec, FreshPairIsAccepted

-----------------------------------------------------------------------------
(* The alarm.                                                              *)

(* As long as no answer was lost, no device refreshed twice at a time and  *)
(* no sessions were ended, no two devices hold one token, each new token   *)
(* is on its way to one device, a token is presented by the device that    *)
(* holds it only, and that device holds a revoked token only while the     *)
(* refresh that exchanged it is about to answer.                           *)
Apart ==
  /\ \A s \in Slots : req[s].at # "alarm"
  /\ \A d, e \in Devices : d # e /\ device[d].rt # 0 => device[d].rt # device[e].rt
  /\ \A s \in Slots : req[s].new # 0 =>
       /\ ~tokens[req[s].new].revoked
       /\ \A d \in Devices : device[d].rt # req[s].new
       /\ \A t \in Slots : req[t].rt # req[s].new /\ (t # s => req[t].new # req[s].new)
  /\ \A s \in Slots : req[s].op = "refresh" =>
       /\ req[s].rt # 0
       /\ \A d \in Devices : d # req[s].dev => device[d].rt # req[s].rt
       /\ \A t \in Slots : t # s /\ req[t].op = "refresh" => req[t].dev # req[s].dev /\ req[t].rt # req[s].rt
  /\ \A d \in Devices : device[d].rt # 0 /\ tokens[device[d].rt].revoked =>
       \E s \in Slots : req[s].op = "refresh" /\ req[s].dev = d /\ req[s].new # 0

Honest == ~mishap => Apart

(* What Apart looks at in a request has not changed.                       *)
Same(t) ==
  /\ req'[t].op = req[t].op /\ req'[t].at = req[t].at /\ req'[t].dev = req[t].dev
  /\ req'[t].rt = req[t].rt /\ req'[t].new = req[t].new

(* A request that has no new token yet begins, goes on or ends.            *)
LEMMA ApartStep ==
  ASSUME Apart, NEW s \in Slots, UNCHANGED <<tokens, device>>,
         \A t \in Slots : t # s => Same(t),
         req[s].new = 0, req'[s].new = 0, req'[s].at # "alarm",
         req[s].rt = 0 => req'[s].rt = 0,
         req'[s].rt \in {0, req[s].rt},
         req'[s].op = "refresh" => req[s].op = "refresh" /\ req'[s].dev = req[s].dev /\ req'[s].rt = req[s].rt
  PROVE  Apart'
  <1>1. \A t \in Slots : req'[t].new = req[t].new /\ (req'[t].rt = req[t].rt \/ req'[t].rt = 0)
    BY DEF Same
  <1>2. \A t \in Slots : req'[t].op = "refresh" =>
          req[t].op = "refresh" /\ req'[t].dev = req[t].dev /\ req'[t].rt = req[t].rt
    BY DEF Same
  <1>3. \A t \in Slots : req[t].op = "refresh" /\ req[t].new # 0 =>
          req'[t].op = "refresh" /\ req'[t].dev = req[t].dev
    BY DEF Same
  <1>4. \A t \in Slots : req'[t].at # "alarm"
    BY DEF Same, Apart
  <1>5. \A t \in Slots : req'[t].new # 0 =>
       /\ ~tokens'[req'[t].new].revoked
       /\ \A d \in Devices : device'[d].rt # req'[t].new
       /\ \A u \in Slots : req'[u].rt # req'[t].new /\ (u # t => req'[u].new # req'[t].new)
    BY <1>1 DEF Apart
  <1>6. \A t \in Slots : req'[t].op = "refresh" =>
       /\ req'[t].rt # 0
       /\ \A d \in Devices : d # req'[t].dev => device'[d].rt # req'[t].rt
       /\ \A u \in Slots : u # t /\ req'[u].op = "refresh" => req'[u].dev # req'[t].dev /\ req'[u].rt # req'[t].rt
    BY <1>2 DEF Apart
  <1>7. \A d \in Devices : device'[d].rt # 0 /\ tokens'[device'[d].rt].revoked =>
       \E t \in Slots : req'[t].op = "refresh" /\ req'[t].dev = d /\ req'[t].new # 0
    <2> TAKE d \in Devices
    <2> HAVE device'[d].rt # 0 /\ tokens'[device'[d].rt].revoked
    <2>1. PICK t \in Slots : req[t].op = "refresh" /\ req[t].dev = d /\ req[t].new # 0
      BY DEF Apart
    <2> QED BY <1>1, <1>3, <2>1
  <1>8. \A d, e \in Devices : d # e /\ device'[d].rt # 0 => device'[d].rt # device'[e].rt
    BY DEF Apart
  <1> QED BY <1>4, <1>5, <1>6, <1>7, <1>8 DEF Apart

LEMMA HonestStarts ==
  ASSUME SessionInv, Apart, NEW s \in Slots,
         \/ AdminRequest(s)
         \/ \E d \in Devices : StartLogin(s, d) \/ StartPINLogin(s, d) \/ StartLogout(s, d)
  PROVE  Apart'
  <1>1. req[s].op = "idle" /\ UNCHANGED <<tokens, device>>
    BY DEF AdminRequest, StartLogin, StartPINLogin, StartLogout, StartColumn, StartRegeneratePIN, StartMailLink,
           StartUpdateUser, StartSave, StartReset, StartRestore, StartCreate, Begin
  <1>2. req[s].new = 0 /\ req[s].rt = 0
    BY <1>1 DEF SessionInv, RequestsOK, RequestOK, Pairs
  <1>3. \A op, at, r : Begin(s, op, at, r) => \A t \in Slots : t # s => Same(t)
    BY DEF Begin, Same, SessionInv, RequestsOK
  <1> DEFINE Plain == req'[s].new = 0 /\ req'[s].rt = 0 /\ req'[s].at # "alarm" /\ req'[s].op # "refresh"
  <1>4. req \in [Slots -> Requests]
    BY DEF SessionInv, RequestsOK
  <1> DEFINE Began == \E o, at, r : Begin(s, o, at, r)
  <1>5. ASSUME NEW d \in Devices, StartLogin(s, d) \/ StartPINLogin(s, d) \/ StartLogout(s, d)
        PROVE  Plain /\ Began
    <2>1. CASE StartLogin(s, d) \/ StartPINLogin(s, d)
      <3>1. Begin(s, "login", "record", [Idle EXCEPT !.dev = d, !.id = user.id])
        BY <2>1 DEF StartLogin, StartPINLogin
      <3> QED BY <1>4, <3>1 DEF Begin, Idle
    <2>2. CASE StartLogout(s, d)
      <3>1. Begin(s, "logout", "clear", [Idle EXCEPT !.dev = d, !.id = user.id, !.had = Len(tokens)])
        BY <2>2 DEF StartLogout
      <3> QED BY <1>4, <3>1 DEF Begin, Idle
    <2> QED BY <1>5, <2>1, <2>2
  <1>6. ASSUME NEW op \in ColumnOps, StartColumn(s, op)
        PROVE  Plain /\ Began
    <2>1. Begin(s, op, op, [Idle EXCEPT !.id = user.id])
      BY <1>6 DEF StartColumn
    <2> QED BY <1>4, <2>1 DEF Begin, Idle, ColumnOps
  <1>7. ASSUME StartRegeneratePIN(s) \/ StartMailLink(s) \/ StartUpdateUser(s)
        PROVE  Plain /\ Began
    <2>1. CASE StartUpdateUser(s)
      <3>1. PICK guest, expired \in BOOLEAN :
              StartSave(s, "update", [Idle EXCEPT !.guest = guest, !.expired = expired])
        BY <2>1 DEF StartUpdateUser
      <3>2. Begin(s, "update", "save", [[Idle EXCEPT !.guest = guest, !.expired = expired] EXCEPT !.id = user.id, !.copy = user])
        BY <3>1 DEF StartSave
      <3> QED BY <1>4, <3>2 DEF Begin, Idle
    <2>2. CASE StartRegeneratePIN(s) \/ StartMailLink(s)
      <3>1. PICK op \in {"pin", "mail"} : Begin(s, op, "save", [Idle EXCEPT !.id = user.id, !.copy = user])
        BY <2>2 DEF StartRegeneratePIN, StartMailLink, StartSave
      <3> QED BY <1>4, <3>1 DEF Begin, Idle
    <2> QED BY <1>7, <2>1, <2>2
  <1>8. ASSUME StartReset(s) \/ StartRestore(s) \/ StartCreate(s)
        PROVE  Plain /\ Began
    <2>1. CASE StartReset(s)
      <3>1. Begin(s, "reset", "rows", [Idle EXCEPT !.id = user.id, !.copy = user, !.had = Len(tokens)])
        BY <2>1 DEF StartReset
      <3> QED BY <1>4, <3>1 DEF Begin, Idle
    <2>2. CASE StartRestore(s)
      <3>1. Begin(s, "restore", "restore", [Idle EXCEPT !.id = user.id])
        BY <2>2 DEF StartRestore
      <3> QED BY <1>4, <3>1 DEF Begin, Idle
    <2>3. CASE StartCreate(s)
      <3>1. PICK guest \in BOOLEAN : Begin(s, "create", "insert", [Idle EXCEPT !.guest = guest])
        BY <2>3 DEF StartCreate
      <3> QED BY <1>4, <3>1 DEF Begin, Idle
    <2> QED BY <1>8, <2>1, <2>2, <2>3
  <1>9. Plain /\ Began
    BY <1>5, <1>6, <1>7, <1>8 DEF AdminRequest
  <1>10. \A t \in Slots : t # s => Same(t)
    BY <1>3, <1>9
  <1> HIDE DEF Plain
  <1> QED BY <1>1, <1>2, <1>9, <1>10, ApartStep DEF Plain

(* A request that only moves on, or ends.                                  *)
Onward(s) ==
  \/ req'[s] = Idle
  \/ /\ req'[s].at \notin {"alarm"} /\ req'[s].op = req[s].op /\ req'[s].dev = req[s].dev
     /\ req'[s].rt = req[s].rt /\ req'[s].new = req[s].new

LEMMA OvertakenSame ==
  ASSUME RequestsOK, NEW s \in Slots, NEW r, Overtake(s, r)
  PROVE  req'[s] = r /\ \A t \in Slots : t # s => Same(t)
  <1>1. \A t \in Slots : req[t] \in Requests
    BY DEF RequestsOK
  <1> QED BY <1>1 DEF Overtake, Same, Requests

LEMMA ColumnsSame ==
  ASSUME RequestsOK, NEW s \in Slots, NEW row, NEW wished, NEW r, SetColumns(s, row, wished, r)
  PROVE  req'[s] = r /\ \A t \in Slots : t # s => Same(t)
  <1>1. CASE Overtake(s, r)
    BY <1>1, OvertakenSame
  <1>2. CASE req' = [req EXCEPT ![s] = r]
    BY <1>2 DEF RequestsOK, Same
  <1> QED BY <1>1, <1>2 DEF SetColumns

LEMMA HonestGoesOn ==
  ASSUME SessionInv, Apart, NEW s \in Slots,
         \/ RecordLogin(s) \/ IssueJWT(s) \/ ClearColumns(s) \/ RefreshUser(s) \/ StatementFails(s)
         \/ AdminStep(s)
  PROVE  Apart'
  <1>1. req[s] \in Requests /\ RequestOK(req[s], user, tokens) /\ RequestsOK /\ req \in [Slots -> Requests]
    BY DEF SessionInv, RequestsOK
  <1>2. req[s].at # "answer" /\ UNCHANGED <<tokens, device>>
    BY DEF RecordLogin, IssueJWT, ClearColumns, RefreshUser, StatementFails, AdminStep, LockUser, DeleteUser,
           SaveRow, RestoreUser, CreateUser, At
  <1>3. req[s].new = 0
    BY <1>1, <1>2 DEF RequestOK
  <1>4. \A at \in Steps : LET o == Onto(s, at) IN
          o.at = at /\ o.op = req[s].op /\ o.dev = req[s].dev /\ o.rt = req[s].rt /\ o.new = req[s].new
    BY <1>1 DEF Onto, Requests
  <1>5. {"jwt", "rotate", "rows", "answer"} \subseteq Steps \ {"alarm"}
    BY DEF Steps
  <1> DEFINE Good == Onward(s) /\ \A t \in Slots : t # s => Same(t)
  <1>6. ASSUME RecordLogin(s) PROVE Good
    BY <1>1, <1>4, <1>5, <1>6, ColumnsSame DEF RecordLogin, Onward
  <1>7. ASSUME IssueJWT(s) PROVE Good
    BY <1>1, <1>4, <1>5, <1>7, ColumnsSame DEF IssueJWT, Onward
  <1>8. ASSUME ClearColumns(s) PROVE Good
    BY <1>1, <1>4, <1>5, <1>8, ColumnsSame DEF ClearColumns, Onward
  <1>9. ASSUME LockUser(s) \/ DeleteUser(s) PROVE Good
    BY <1>1, <1>9, ColumnsSame DEF LockUser, DeleteUser, Onward
  <1>10. ASSUME SaveRow(s) PROVE Good
    BY <1>1, <1>4, <1>5, <1>10, OvertakenSame DEF SaveRow, Onward
  <1>11. ASSUME RestoreUser(s) PROVE Good
    BY <1>1, <1>11, OvertakenSame DEF RestoreUser, Onward
  <1>12. ASSUME CreateUser(s) PROVE Good
    BY <1>1, <1>12, OvertakenSame DEF CreateUser, Ends, Same, Onward
  <1>13. ASSUME RefreshUser(s) PROVE Good
    BY <1>1, <1>13 DEF RefreshUser, Ends, Same, Onward, Requests
  <1>14. ASSUME StatementFails(s) PROVE Good
    BY <1>1, <1>14 DEF StatementFails, Same, Onward, Requests
  <1>15. Good
    BY <1>6, <1>7, <1>8, <1>9, <1>10, <1>11, <1>12, <1>13, <1>14 DEF AdminStep
  <1>16. Idle.new = 0 /\ Idle.rt = 0 /\ Idle.op # "refresh" /\ Idle.at # "alarm"
    BY DEF Idle
  <1> QED BY <1>2, <1>3, <1>15, <1>16, ApartStep DEF Onward

LEMMA HonestRefresh ==
  ASSUME SessionInv, Honest, NEW s \in Slots, NEW d \in Devices, StartRefresh(s, d)
  PROVE  Honest'
  <1> SUFFICES ASSUME ~mishap' PROVE Apart'
    BY DEF Honest
  <1> DEFINE t == device[d].rt
  <1>1. Apart /\ req \in [Slots -> Requests]
    BY DEF Honest, StartRefresh, SessionInv, RequestsOK
  <1>2. \A o \in Slots : ~(req[o].op = "refresh" /\ req[o].dev = d)
    BY DEF StartRefresh
  <1>3. t # 0 /\ ~tokens[t].revoked
    BY <1>1, <1>2 DEF StartRefresh, Apart
  <1>4. /\ req'[s].op = "refresh" /\ req'[s].at = "user" /\ req'[s].dev = d /\ req'[s].rt = t /\ req'[s].new = 0
        /\ \A o \in Slots : o # s => Same(o)
    BY <1>1, <1>3 DEF StartRefresh, Begin, Idle, Same
  <1>5. req[s].op = "idle" /\ UNCHANGED <<tokens, device>>
    BY DEF StartRefresh, Begin
  <1>6. \A o \in Slots : req'[o].new = IF o = s THEN 0 ELSE req[o].new
    BY <1>4 DEF Same
  <1>7. \A o \in Slots : o # s => req'[o].rt = req[o].rt /\ req'[o].op = req[o].op /\ req'[o].dev = req[o].dev
                                  /\ req'[o].at = req[o].at
    BY <1>4 DEF Same
  <1> HIDE DEF t
  <1>8. \A o \in Slots : req'[o].at # "alarm"
    BY <1>1, <1>4, <1>7 DEF Apart
  <1>9. \A e, g \in Devices : e # g /\ device'[e].rt # 0 => device'[e].rt # device'[g].rt
    BY <1>1, <1>5 DEF Apart
  <1>10. \A o \in Slots : req'[o].new # 0 =>
       /\ ~tokens'[req'[o].new].revoked
       /\ \A e \in Devices : device'[e].rt # req'[o].new
       /\ \A u \in Slots : req'[u].rt # req'[o].new /\ (u # o => req'[u].new # req'[o].new)
    BY <1>1, <1>4, <1>5, <1>6, <1>7 DEF Apart, t
  <1>11. \A o \in Slots : req'[o].op = "refresh" =>
       /\ req'[o].rt # 0
       /\ \A e \in Devices : e # req'[o].dev => device'[e].rt # req'[o].rt
       /\ \A u \in Slots : u # o /\ req'[u].op = "refresh" => req'[u].dev # req'[o].dev /\ req'[u].rt # req'[o].rt
    BY <1>1, <1>2, <1>3, <1>4, <1>5, <1>7 DEF Apart, t
  <1>12. \A e \in Devices : device'[e].rt # 0 /\ tokens'[device'[e].rt].revoked =>
       \E o \in Slots : req'[o].op = "refresh" /\ req'[o].dev = e /\ req'[o].new # 0
    <2> TAKE e \in Devices
    <2> HAVE device'[e].rt # 0 /\ tokens'[device'[e].rt].revoked
    <2>1. PICK o \in Slots : req[o].op = "refresh" /\ req[o].dev = e /\ req[o].new # 0
      BY <1>1, <1>5 DEF Apart
    <2>2. o # s
      BY <1>5, <2>1
    <2> QED BY <1>6, <1>7, <2>1, <2>2
  <1> QED BY <1>4, <1>8, <1>9, <1>10, <1>11, <1>12 DEF Apart

LEMMA HonestRotates ==
  ASSUME SessionInv, Apart, NEW s \in Slots, GenerateRefreshToken(s)
  PROVE  Apart'
  <1> DEFINE r == req[s]
             n == Len(tokens)
  <1>1. /\ r \in Requests /\ RequestOK(r, user, tokens) /\ n \in Nat /\ RequestsOK /\ req \in [Slots -> Requests]
        /\ \A t \in Slots : req[t].rt \in Nat /\ req[t].rt <= n /\ req[t].new \in Nat /\ req[t].new <= n
    <2>1. /\ n \in Nat /\ RequestsOK /\ req \in [Slots -> Requests]
          /\ \A t \in Slots : req[t] \in Requests /\ RequestOK(req[t], user, tokens)
      BY DEF SessionInv, RequestsOK, TokensOK
    <2>2. \A t \in Slots : req[t].rt \in Nat /\ req[t].new \in Nat
      BY <2>1 DEF Requests
    <2>3. \A t \in Slots : req[t].rt <= n /\ req[t].new <= n
      BY <2>1 DEF RequestOK
    <2> QED BY <2>1, <2>2, <2>3
  <1>2. r.at = "rotate" /\ req' = [req EXCEPT ![s].at = "answer", ![s].new = n + 1] /\ device' = device
    BY DEF GenerateRefreshToken, At
  <1>3. /\ req'[s].at = "answer" /\ req'[s].new = n + 1
        /\ req'[s].op = r.op /\ req'[s].dev = r.dev /\ req'[s].rt = r.rt
        /\ \A t \in Slots : t # s => Same(t)
    BY <1>1, <1>2 DEF Requests, Same
  <1>4. \A d \in Devices : device[d].rt \in Nat /\ device[d].rt <= n
    BY DEF SessionInv, HeldTokens
  <1>5. ~tokens'[n + 1].revoked /\ \A t \in 1..n : t # r.rt => tokens'[t] = tokens[t]
    BY RotatedTokens
  <1>6. r.op # "refresh" => r.rt = 0
    BY <1>1 DEF RequestOK
  <1>7. r.rt # 0 => r.op = "refresh"
    BY <1>6
  <1>8. \A t \in Slots : /\ req'[t].op = req[t].op /\ req'[t].dev = req[t].dev /\ req'[t].rt = req[t].rt
                         /\ req'[t].at # "alarm"
                         /\ req'[t].new = IF t = s THEN n + 1 ELSE req[t].new
    BY <1>3 DEF Same, Apart
  <1> HIDE DEF n, r
  <1>9. \A d, e \in Devices : d # e /\ device'[d].rt # 0 => device'[d].rt # device'[e].rt
    BY <1>2 DEF Apart
  <1>10. \A o \in Slots : req'[o].new # 0 =>
       /\ ~tokens'[req'[o].new].revoked
       /\ \A d \in Devices : device'[d].rt # req'[o].new
       /\ \A t \in Slots : req'[t].rt # req'[o].new /\ (t # o => req'[t].new # req'[o].new)
    <2> TAKE o \in Slots
    <2> HAVE req'[o].new # 0
    <2>1. CASE o = s
      <3>1. req'[o].new = n + 1
        BY <1>8, <2>1
      <3>2. \A d \in Devices : device'[d].rt # n + 1
        BY <1>1, <1>2, <1>4
      <3>3. \A t \in Slots : req'[t].rt # n + 1 /\ (t # o => req'[t].new # n + 1)
        BY <1>1, <1>8, <2>1
      <3> QED BY <1>5, <3>1, <3>2, <3>3
    <2>2. CASE o # s
      <3>1. req'[o].new = req[o].new /\ req[o].new \in 1..n /\ req[o].new # r.rt
        BY <1>1, <1>8, <2>2 DEF Apart, r
      <3>2. tokens'[req'[o].new] = tokens[req[o].new]
        BY <1>5, <3>1
      <3>3. \A t \in Slots : t # o => req'[t].new # req'[o].new
        <4> SUFFICES ASSUME NEW t \in Slots, t # o PROVE req'[t].new # req'[o].new
          OBVIOUS
        <4>1. CASE t = s
          BY <1>1, <1>8, <3>1, <4>1
        <4>2. CASE t # s
          BY <1>8, <3>1, <4>2 DEF Apart
        <4> QED BY <4>1, <4>2
      <3>4. \A d \in Devices : device[d].rt # req[o].new
        BY <3>1 DEF Apart
      <3>5. \A t \in Slots : req[t].rt # req[o].new
        BY <3>1 DEF Apart
      <3>6. ~tokens[req[o].new].revoked
        BY <3>1 DEF Apart
      <3>7. device' = device /\ \A t \in Slots : req'[t].rt = req[t].rt
        BY <1>2, <1>8
      <3> QED BY <3>1, <3>2, <3>3, <3>4, <3>5, <3>6, <3>7
    <2> QED BY <2>1, <2>2
  <1>11. \A o \in Slots : req'[o].op = "refresh" =>
       /\ req'[o].rt # 0
       /\ \A d \in Devices : d # req'[o].dev => device'[d].rt # req'[o].rt
       /\ \A t \in Slots : t # o /\ req'[t].op = "refresh" => req'[t].dev # req'[o].dev /\ req'[t].rt # req'[o].rt
    <2>1. device' = device
      BY <1>2
    <2>2. \A t \in Slots : req'[t].op = req[t].op /\ req'[t].dev = req[t].dev /\ req'[t].rt = req[t].rt
      BY <1>8
    <2>3. \A o \in Slots : req[o].op = "refresh" =>
            /\ req[o].rt # 0
            /\ \A d \in Devices : d # req[o].dev => device[d].rt # req[o].rt
            /\ \A t \in Slots : t # o /\ req[t].op = "refresh" => req[t].dev # req[o].dev /\ req[t].rt # req[o].rt
      BY DEF Apart
    <2> QED BY <2>1, <2>2, <2>3
  <1>12. \A d \in Devices : device'[d].rt # 0 /\ tokens'[device'[d].rt].revoked =>
       \E o \in Slots : req'[o].op = "refresh" /\ req'[o].dev = d /\ req'[o].new # 0
    <2> TAKE d \in Devices
    <2> HAVE device'[d].rt # 0 /\ tokens'[device'[d].rt].revoked
    <2>1. device[d].rt \in 1..n
      BY <1>1, <1>2, <1>4
    <2>2. CASE device[d].rt = r.rt
      <3>1. r.op = "refresh" /\ r.dev = d
        BY <1>7, <2>1, <2>2 DEF Apart, r
      <3> QED BY <1>1, <1>8, <3>1 DEF r
    <2>3. CASE device[d].rt # r.rt
      <3>1. tokens[device[d].rt].revoked
        BY <1>2, <1>5, <2>1, <2>3
      <3>2. PICK o \in Slots : req[o].op = "refresh" /\ req[o].dev = d /\ req[o].new # 0
        BY <2>1, <3>1 DEF Apart
      <3> QED BY <1>1, <1>8, <3>2
    <2> QED BY <2>2, <2>3
  <1> QED BY <1>8, <1>9, <1>10, <1>11, <1>12 DEF Apart

LEMMA HonestAnswers ==
  ASSUME SessionInv, Apart, NEW s \in Slots, Answer(s)
  PROVE  Apart'
  <1> DEFINE r == req[s]
             n == Len(tokens)
  <1>1. /\ r \in Requests /\ RequestOK(r, user, tokens) /\ n \in Nat /\ req \in [Slots -> Requests]
        /\ DOMAIN tokens = 1..n /\ \A t \in 1..n : tokens[t] \in Tokens
        /\ \A t \in Slots : req[t].new \in Nat /\ req[t].new <= n
    BY DEF SessionInv, RequestsOK, TokensOK, RequestOK, Requests
  <1>2. \A t \in 1..n : tokens'[t].revoked = tokens[t].revoked
    BY <1>1 DEF Answer, Tokens
  <1>3. /\ req'[s] = Idle /\ \A t \in Slots : t # s => req'[t] = req[t]
        /\ device' = IF r.new # 0 THEN [device EXCEPT ![r.dev] = [jwt |-> r.n, rt |-> r.new]]
                     ELSE IF r.op = "logout" THEN [device EXCEPT ![r.dev] = [jwt |-> 0, rt |-> 0]]
                     ELSE device
    BY <1>1 DEF Answer, Ends
  <1>4. device \in [Devices -> [jwt : Nat, rt : Nat]] /\ \A d \in Devices : device[d].rt \in Nat /\ device[d].rt <= n
    BY DEF SessionInv, HeldTokens
  <1> HIDE DEF n, r
  <1>5. \A d \in Devices : \/ device'[d].rt \in {device[d].rt, 0}
                           \/ device'[d].rt = r.new /\ r.new # 0 /\ d = r.dev
    BY <1>3, <1>4
  <1>6. \A t \in Slots : \/ t # s /\ req'[t] = req[t]
                         \/ t = s /\ req'[t].op = "idle" /\ req'[t].at = "idle" /\ req'[t].rt = 0 /\ req'[t].new = 0
    BY <1>3 DEF Idle
  <1>7. r.new # 0 =>
       /\ ~tokens[r.new].revoked /\ \A d \in Devices : device[d].rt # r.new
       /\ \A t \in Slots : req[t].rt # r.new /\ (t # s => req[t].new # r.new)
    BY DEF Apart, r
  <1>8. \A o \in Slots : req'[o].at # "alarm"
    BY <1>6 DEF Apart
  <1>9. \A d, e \in Devices : d # e /\ device'[d].rt # 0 => device'[d].rt # device'[e].rt
    BY <1>5, <1>7 DEF Apart
  <1>10. \A o \in Slots : req'[o].new # 0 =>
       /\ ~tokens'[req'[o].new].revoked
       /\ \A d \in Devices : device'[d].rt # req'[o].new
       /\ \A t \in Slots : req'[t].rt # req'[o].new /\ (t # o => req'[t].new # req'[o].new)
    <2> TAKE o \in Slots
    <2> HAVE req'[o].new # 0
    <2>1. o # s /\ req'[o] = req[o] /\ req[o].new \in 1..n /\ req[o].new # r.new
      BY <1>1, <1>6 DEF Apart, r
    <2>2. ~tokens'[req'[o].new].revoked
      BY <1>2, <2>1 DEF Apart
    <2>3. \A d \in Devices : device'[d].rt # req'[o].new
      BY <1>5, <2>1 DEF Apart
    <2>4. \A t \in Slots : req'[t].rt # req'[o].new /\ (t # o => req'[t].new # req'[o].new)
      BY <1>6, <2>1 DEF Apart
    <2> QED BY <2>2, <2>3, <2>4
  <1>11. \A o \in Slots : req'[o].op = "refresh" =>
       /\ req'[o].rt # 0
       /\ \A d \in Devices : d # req'[o].dev => device'[d].rt # req'[o].rt
       /\ \A t \in Slots : t # o /\ req'[t].op = "refresh" => req'[t].dev # req'[o].dev /\ req'[t].rt # req'[o].rt
    BY <1>5, <1>6, <1>7 DEF Apart
  <1>12. \A d \in Devices : device'[d].rt # 0 /\ tokens'[device'[d].rt].revoked =>
       \E o \in Slots : req'[o].op = "refresh" /\ req'[o].dev = d /\ req'[o].new # 0
    <2> TAKE d \in Devices
    <2> HAVE device'[d].rt # 0 /\ tokens'[device'[d].rt].revoked
    <2>1. CASE device'[d].rt = r.new /\ r.new # 0
      BY <1>1, <1>2, <1>7, <2>1 DEF r
    <2>2. CASE device'[d].rt = device[d].rt /\ ~(r.new # 0 /\ d = r.dev)
      <3>1. tokens[device[d].rt].revoked
        BY <1>2, <1>4, <2>2
      <3>2. PICK o \in Slots : req[o].op = "refresh" /\ req[o].dev = d /\ req[o].new # 0
        BY <2>2, <3>1 DEF Apart
      <3>3. o # s
        BY <2>2, <3>2 DEF r
      <3> QED BY <1>6, <3>2, <3>3
    <2>3. CASE r.new # 0 /\ d = r.dev
      BY <1>3, <1>4, <2>1, <2>3
    <2> QED BY <1>5, <2>1, <2>2, <2>3
  <1> QED BY <1>8, <1>9, <1>10, <1>11, <1>12 DEF Apart

LEMMA StepHonest == SessionInv /\ Honest /\ [Next]_vars => Honest'
  <1> SUFFICES ASSUME SessionInv, Honest, [Next]_vars, ~mishap' PROVE Apart'
    BY DEF Honest
  <1>1. CASE UNCHANGED vars
    BY <1>1 DEF vars, Honest, Apart
  <1>2. CASE Next
    <2>1. ~mishap
      BY <1>2 DEF Next, DeviceRequest, AdminRequest, AuthStep, AdminStep, vars, history, PurgeDeletedUsers,
             StartLogin, StartPINLogin, StartRefresh, StartLogout, StartColumn, StartRegeneratePIN, StartMailLink,
             StartUpdateUser, StartSave, StartReset, StartRestore, StartCreate, RecordLogin, IssueJWT,
             GenerateRefreshToken, RefreshUser, RevokeRows, ClearColumns, Answer, LockUser, DeleteUser, SaveRow,
             RestoreUser, CreateUser, StatementFails, AnswerLost
    <2>2. Apart
      BY <2>1 DEF Honest
    <2>3. ASSUME NEW s \in Slots, DeviceRequest(s) PROVE Apart'
      BY <2>2, <2>3, HonestStarts, HonestRefresh DEF DeviceRequest, Honest
    <2>4. ASSUME NEW s \in Slots, AdminRequest(s) PROVE Apart'
      BY <2>2, <2>4, HonestStarts
    <2>5. ASSUME NEW s \in Slots, RevokeRows(s) PROVE Apart'
      BY <2>2, <2>5 DEF RevokeRows, Apart, At
    <2>6. ASSUME NEW s \in Slots, AuthStep(s) PROVE Apart'
      BY <2>2, <2>5, <2>6, HonestGoesOn, HonestRotates, HonestAnswers DEF AuthStep
    <2>7. ASSUME NEW s \in Slots, AdminStep(s) \/ StatementFails(s) PROVE Apart'
      BY <2>2, <2>7, HonestGoesOn
    <2>8. ASSUME NEW s \in Slots, AnswerLost(s) PROVE Apart'
      BY <2>8 DEF AnswerLost
    <2>9. CASE PurgeDeletedUsers
      BY <2>2, <2>9 DEF PurgeDeletedUsers, Apart
    <2> QED BY <1>2, <2>3, <2>4, <2>6, <2>7, <2>8, <2>9 DEF Next
  <1> QED BY <1>1, <1>2

(* The alarm of the reuse of a token (auth.go:425) has a cause: a lost     *)
(* answer, two refreshes at a time of one device, or the end of all        *)
(* sessions; whatever the administrator does, and whichever other requests *)
(* overlap.                                                                *)
THEOREM NoAlarmWithoutCauseHolds == Spec => NoAlarmWithoutCause
  <1> DEFINE Caused == \A s \in Slots : req[s].at # "alarm" /\ req'[s].at = "alarm" => mishap'
  <1>1. Init => Honest
    BY DEF Init, Honest, Apart, Idle
  <1>2. SessionInv /\ Honest /\ Honest' /\ [Next]_vars => [Caused]_vars
    BY DEF Honest, Apart
  <1> QED BY <1>1, <1>2, InitSession, StepSession, StepHonest, PTL DEF Spec, NoAlarmWithoutCause
===============================================================================
