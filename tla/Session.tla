-------------------------------- MODULE Session --------------------------------
(***************************************************************************)
(* Sessions and the administration of one account: handlers/auth.go,       *)
(* handlers/admin_users.go and middleware/jwt.go.                          *)
(*                                                                         *)
(* The row of the account holds the hash of its one current access token;  *)
(* the table refresh_tokens has a row per refresh token ever issued. The   *)
(* devices of the user log in, exchange their refresh token for a new pair *)
(* and log out; an administrator changes, locks, deletes, restores the     *)
(* account or asks for a new PIN or password. Each SQL statement is an     *)
(* action (a transaction is one), so that requests overlap in every way.   *)
(* Some requests UPDATE single columns, others Save a copy of the row.     *)
(*                                                                         *)
(* Abstractions: a request has a number, which also names the access       *)
(* token, the link, the password or the role it makes; a request that is   *)
(* refused before its first write leaves no trace and is no action; the    *)
(* administrator is another account, which may do everything asked; the    *)
(* legacy column refresh_token is left out, for nothing reads it.          *)
(***************************************************************************)
EXTENDS Naturals, Sequences, SequencesExt

CONSTANTS
  Devices,     (* the devices of the user                                     *)
  Slots,       (* the requests that may be served at a time                   *)
  NoDevice,
  MaxOps,      (* bound on the requests of a behaviour                        *)
  MaxFaults    (* bound on the failing statements and lost answers            *)

ASSUME SessionAssumption ==
  NoDevice \notin Devices /\ MaxOps \in Nat /\ MaxFaults \in Nat

VARIABLES
  user,        (* the row of the account                                      *)
  tokens,      (* the table refresh_tokens, in the order of the inserts       *)
  req,         (* the requests being served                                   *)
  device,      (* the pair of tokens each device keeps                        *)
  ops,         (* the requests so far                                         *)
  faults,      (* the failures so far                                         *)
  meant,       (* history: the columns as the requests meant to leave them    *)
  mishap       (* history: a device may have come to hold a spent token       *)

vars == <<user, tokens, req, device, ops, faults, meant, mishap>>
history == <<meant, mishap>>

(* id counts the accounts of the address: a purged one may be made anew.   *)
NoRow == [id |-> 0, there |-> FALSE, deleted |-> FALSE, locked |-> FALSE, guest |-> FALSE, expired |-> FALSE,
          password |-> 0, pin |-> 0, jwt |-> 0, link |-> 0, logins |-> 0]
NewRow(id, guest, pin) == [NoRow EXCEPT !.id = id, !.there = TRUE, !.guest = guest, !.pin = pin]

Idle == [op |-> "idle", at |-> "idle", n |-> 0, dev |-> NoDevice, id |-> 0, copy |-> NoRow,
         rt |-> 0, new |-> 0, had |-> 0, guest |-> FALSE, expired |-> FALSE, ok |-> TRUE, dirty |-> FALSE,
         late |-> FALSE]

Init ==
  /\ user = NewRow(1, FALSE, 0) /\ meant = user
  /\ tokens = <<>>
  /\ req = [s \in Slots |-> Idle]
  /\ device = [d \in Devices |-> [jwt |-> 0, rt |-> 0]]
  /\ ops = 0 /\ faults = 0 /\ mishap = FALSE

Live == user.there /\ ~user.deleted

(* A token is spent once another was issued for it, or a request answered  *)
(* that all that existed when it began are revoked.                        *)
Spent(t) == tokens[t].ended \/ \E c \in DOMAIN tokens : tokens[c].from = t

-----------------------------------------------------------------------------
(* How a request goes on.                                                  *)

Begin(s, op, at, r) ==
  /\ req[s].op = "idle" /\ ops < MaxOps
  /\ ops' = ops + 1
  /\ req' = [req EXCEPT ![s] = [r EXCEPT !.op = op, !.at = at, !.n = ops + 1]]

Goto(s, at) == req' = [req EXCEPT ![s].at = at]
Ends(s) == req' = [req EXCEPT ![s] = Idle]

SaveOps == {"pin", "update", "mail"}
MindsOvertaking == SaveOps \cup {"reset", "login", "refresh"}

(* A write of the row: r is what becomes of request s, and every other     *)
(* request under way has been overtaken.                                   *)
Overtake(s, r) ==
  req' = [t \in Slots |-> IF t = s THEN r
                          ELSE [req[t] EXCEPT !.dirty = @ \/ req[t].op \in MindsOvertaking]]

(* UPDATE of single columns of the row with the id of the request: GORM    *)
(* adds "deleted_at IS NULL".                                              *)
SetColumns(s, row, wished, r) ==
  IF Live /\ user.id = req[s].id
  THEN user' = row /\ meant' = wished /\ Overtake(s, r)
  ELSE UNCHANGED <<user, meant>> /\ req' = [req EXCEPT ![s] = r]

At(s, at) == req[s].at = at
Onto(s, at) == [req[s] EXCEPT !.at = at]

Revoked(owner) ==
  [t \in DOMAIN tokens |-> IF tokens[t].owner = owner THEN [tokens[t] EXCEPT !.revoked = TRUE] ELSE tokens[t]]

-----------------------------------------------------------------------------
(* Logging in and refreshing.                                              *)

(* The account is found, not locked, and the password is right.            *)
StartLogin(s, d) ==
  /\ Live /\ ~user.locked
  /\ Begin(s, "login", "record", [Idle EXCEPT !.dev = d, !.id = user.id])
  /\ UNCHANGED <<user, tokens, device, faults, history>>

(* The account is found by the address, the name or the PIN: a guest whose *)
(* access has not expired.                                                 *)
StartPINLogin(s, d) ==
  /\ Live /\ ~user.locked /\ user.guest /\ ~user.expired /\ user.pin # 0
  /\ Begin(s, "login", "record", [Idle EXCEPT !.dev = d, !.id = user.id])
  /\ UNCHANGED <<user, tokens, device, faults, history>>

RecordLogin(s) ==
  /\ At(s, "record")
  /\ SetColumns(s, [user EXCEPT !.logins = @ + 1], [meant EXCEPT !.logins = @ + 1], Onto(s, "jwt"))
  /\ UNCHANGED <<tokens, device, ops, faults, mishap>>

IssueJWT(s) ==
  /\ At(s, "jwt")
  /\ SetColumns(s, [user EXCEPT !.jwt = req[s].n], [meant EXCEPT !.jwt = req[s].n], Onto(s, "rotate"))
  /\ UNCHANGED <<tokens, device, ops, faults, mishap>>

(* Mutant: the old token stays good.                                       *)
GenerateRefreshTokenKeepsOld(s) ==
  /\ At(s, "rotate")
  /\ tokens' = Append(tokens, [owner |-> req[s].id, revoked |-> FALSE, from |-> req[s].rt, ended |-> FALSE,
                               late |-> req[s].late])
  /\ req' = [req EXCEPT ![s].at = "answer", ![s].new = Len(tokens) + 1]
  /\ UNCHANGED <<user, device, ops, faults, history>>

(* Mutant: every token of the account is revoked at each rotation.         *)
GenerateRefreshTokenRevokesAll(s) ==
  /\ At(s, "rotate")
  /\ tokens' = Append(Revoked(req[s].id), [owner |-> req[s].id, revoked |-> FALSE, from |-> req[s].rt,
                                           ended |-> FALSE, late |-> req[s].late])
  /\ req' = [req EXCEPT ![s].at = "answer", ![s].new = Len(tokens) + 1]
  /\ UNCHANGED <<user, device, ops, faults, history>>

(* The token the request presented is revoked and a new row inserted, in   *)
(* one transaction; nothing looks at the account again.                    *)
GenerateRefreshToken(s) ==
  LET old == req[s].rt IN
  /\ At(s, "rotate")
  /\ tokens' = Append([t \in DOMAIN tokens |-> IF t = old THEN [tokens[t] EXCEPT !.revoked = TRUE] ELSE tokens[t]],
                      [owner |-> req[s].id, revoked |-> FALSE, from |-> old, ended |-> FALSE, late |-> req[s].late])
  /\ req' = [req EXCEPT ![s].at = "answer", ![s].new = Len(tokens) + 1]
  /\ UNCHANGED <<user, device, ops, faults, history>>

(* The row of the token is read: a revoked one means that it is presented  *)
(* for the second time. (It may also have expired: the request is refused.)*)
StartRefresh(s, d) ==
  LET t == device[d].rt
      twice == \E o \in Slots : req[o].op = "refresh" /\ req[o].dev = d
      known == [Idle EXCEPT !.dev = d, !.rt = t, !.id = tokens[t].owner, !.had = Len(tokens), !.late = Spent(t)]
  IN  /\ t # 0
      /\ Begin(s, "refresh", IF tokens[t].revoked THEN "alarm" ELSE "user", known)
      /\ mishap' = (mishap \/ twice)
      /\ UNCHANGED <<user, tokens, device, faults, meant>>

(* Mutant: the lock is not looked at.                                      *)
RefreshUserUnlocked(s) ==
  /\ At(s, "user")
  /\ IF Live /\ user.id = req[s].id
     THEN req' = [req EXCEPT ![s].at = "jwt", ![s].dirty = FALSE]
     ELSE Ends(s)
  /\ UNCHANGED <<user, tokens, device, ops, faults, history>>

(* The account the token belongs to is read.                               *)
RefreshUser(s) ==
  /\ At(s, "user")
  /\ IF Live /\ user.id = req[s].id /\ ~user.locked
     THEN req' = [req EXCEPT ![s].at = "jwt", ![s].dirty = FALSE]
     ELSE Ends(s)
  /\ UNCHANGED <<user, tokens, device, ops, faults, history>>

(* UPDATE refresh_tokens SET is_revoked = true WHERE user_id = ...         *)
RevokeRows(s) ==
  /\ req[s].at \in {"alarm", "rows"}
  /\ tokens' = Revoked(req[s].id)
  /\ Goto(s, IF req[s].op = "reset" THEN "save" ELSE "answer")
  /\ mishap' = (mishap \/ At(s, "rows"))
  /\ UNCHANGED <<user, device, ops, faults, meant>>

-----------------------------------------------------------------------------
(* Logging out, and a new password by the link that was mailed.            *)

(* JWTAuth: the token of the device is the one in the row.                 *)
Accepted(d) == Live /\ ~user.locked /\ user.jwt # 0 /\ device[d].jwt = user.jwt

StartLogout(s, d) ==
  /\ Accepted(d)
  /\ Begin(s, "logout", "clear", [Idle EXCEPT !.dev = d, !.id = user.id, !.had = Len(tokens)])
  /\ UNCHANGED <<user, tokens, device, faults, history>>

(* The columns with the tokens are emptied; RevokeTokens does no more.     *)
ClearColumns(s) ==
  /\ At(s, "clear")
  /\ SetColumns(s, [user EXCEPT !.jwt = 0], [meant EXCEPT !.jwt = 0],
                IF req[s].op = "logout" THEN Onto(s, "rows") ELSE Idle)
  /\ UNCHANGED <<tokens, device, ops, faults, mishap>>

StartReset(s) ==
  /\ Live /\ user.link # 0
  /\ Begin(s, "reset", "rows", [Idle EXCEPT !.id = user.id, !.copy = user, !.had = Len(tokens)])
  /\ UNCHANGED <<user, tokens, device, faults, history>>

(* The answer reaches the device. That of a login or of a refresh brings   *)
(* the new pair.                                                           *)
Answer(s) ==
  LET r == req[s] IN
  /\ At(s, "answer")
  /\ device' = IF r.new # 0 THEN [device EXCEPT ![r.dev] = [jwt |-> r.n, rt |-> r.new]]
               ELSE IF r.op = "logout" THEN [device EXCEPT ![r.dev] = [jwt |-> 0, rt |-> 0]]
               ELSE device
  /\ tokens' = IF r.new = 0 /\ r.ok
               THEN [t \in DOMAIN tokens |-> IF t <= r.had /\ tokens[t].owner = r.id
                                             THEN [tokens[t] EXCEPT !.ended = TRUE] ELSE tokens[t]]
               ELSE tokens
  /\ Ends(s)
  /\ UNCHANGED <<user, ops, faults, history>>

-----------------------------------------------------------------------------
(* The administrator.                                                      *)

ColumnOps == {"lock", "unlock", "delete", "clear"}

(* The account is read by its id: just to be found, or a copy to be saved. *)
StartColumn(s, op) ==
  /\ Live
  /\ Begin(s, op, op, [Idle EXCEPT !.id = user.id])
  /\ UNCHANGED <<user, tokens, device, faults, history>>

StartSave(s, op, wish) ==
  /\ Live
  /\ Begin(s, op, "save", [wish EXCEPT !.id = user.id, !.copy = user])
  /\ UNCHANGED <<user, tokens, device, faults, history>>

StartRegeneratePIN(s) == user.guest /\ StartSave(s, "pin", Idle)
StartMailLink(s) == StartSave(s, "mail", Idle)

(* A role, or a day from which the access of a guest has expired.          *)
StartUpdateUser(s) ==
  \E guest, expired \in BOOLEAN : StartSave(s, "update", [Idle EXCEPT !.guest = guest, !.expired = expired])

LockUser(s) ==
  /\ req[s].at \in {"lock", "unlock"}
  /\ LET on == req[s].op = "lock"
     IN  SetColumns(s, [user EXCEPT !.locked = on], [meant EXCEPT !.locked = on], Idle)
  /\ UNCHANGED <<tokens, device, ops, faults, mishap>>

DeleteUser(s) ==
  /\ At(s, "delete")
  /\ SetColumns(s, [user EXCEPT !.deleted = TRUE], [meant EXCEPT !.deleted = TRUE], Idle)
  /\ UNCHANGED <<tokens, device, ops, faults, mishap>>

(* What a request that saves the row sets in a row: a new PIN, role, link  *)
(* or password.                                                            *)
Intends(s, row) ==
  LET n == req[s].n IN
  CASE req[s].op = "pin" -> [row EXCEPT !.pin = n, !.jwt = 0]
    [] req[s].op = "update" -> [row EXCEPT !.guest = req[s].guest, !.expired = req[s].expired]
    [] req[s].op = "mail" -> [row EXCEPT !.link = n]
    [] OTHER -> [row EXCEPT !.password = n, !.link = 0, !.jwt = 0]

(* Mutant: the row is built from the request, which does not have the lock.*)
SaveRowUnlocks(s) ==
  LET r == req[s] IN
  /\ At(s, "save") /\ user.there /\ user.id = r.id
  /\ user' = [Intends(s, r.copy) EXCEPT !.locked = FALSE]
  /\ meant' = IF r.dirty THEN user' ELSE Intends(s, meant)
  /\ Overtake(s, IF r.op = "reset" THEN Onto(s, "answer") ELSE Idle)
  /\ UNCHANGED <<tokens, device, ops, faults, mishap>>

(* Save writes every column of the copy. An UPDATE that matches no row     *)
(* becomes an INSERT ... ON CONFLICT (id) DO UPDATE: a row that was        *)
(* deleted meanwhile comes back.                                           *)
SaveRow(s) ==
  LET r == req[s] IN
  /\ At(s, "save") /\ user.there /\ user.id = r.id
  /\ user' = Intends(s, r.copy)
  /\ meant' = IF r.dirty THEN user' ELSE Intends(s, meant)
  /\ Overtake(s, IF r.op = "reset" THEN Onto(s, "answer") ELSE Idle)
  /\ UNCHANGED <<tokens, device, ops, faults, mishap>>

(* The row is found among the deleted ones, and deleted_at emptied.        *)
StartRestore(s) ==
  /\ user.there /\ user.deleted
  /\ Begin(s, "restore", "restore", [Idle EXCEPT !.id = user.id])
  /\ UNCHANGED <<user, tokens, device, faults, history>>

RestoreUser(s) ==
  /\ At(s, "restore") /\ user.there /\ user.id = req[s].id
  /\ user' = [user EXCEPT !.deleted = FALSE] /\ meant' = [meant EXCEPT !.deleted = FALSE]
  /\ Overtake(s, Idle)
  /\ UNCHANGED <<tokens, device, ops, faults, mishap>>

(* Rows deleted for 30 days go for good: no request lasts that long.       *)
PurgeDeletedUsers ==
  /\ user.there /\ user.deleted /\ \A s \in Slots : req[s].op = "idle"
  /\ user' = [NoRow EXCEPT !.id = user.id] /\ meant' = user'
  /\ UNCHANGED <<tokens, req, device, ops, faults, mishap>>

(* No account with the address is found, deleted ones apart.               *)
StartCreate(s) ==
  /\ ~Live
  /\ \E guest \in BOOLEAN : Begin(s, "create", "insert", [Idle EXCEPT !.guest = guest])
  /\ UNCHANGED <<user, tokens, device, faults, history>>

(* The unique index on the address knows the deleted ones too.             *)
CreateUser(s) ==
  /\ At(s, "insert")
  /\ IF user.there
     THEN Ends(s) /\ UNCHANGED <<user, meant>>
     ELSE user' = NewRow(user.id + 1, req[s].guest, IF req[s].guest THEN req[s].n ELSE 0) /\ meant' = user' /\ Overtake(s, Idle)
  /\ UNCHANGED <<tokens, device, ops, faults, mishap>>

-----------------------------------------------------------------------------
(* Failures: a statement fails, or an answer is lost. Four statements of   *)
(* auth.go ignore their error; the others end the request.                 *)

StatementFails(s) ==
  LET r == req[s] IN
  /\ r.op # "idle" /\ r.at # "answer" /\ faults < MaxFaults
  /\ faults' = faults + 1
  /\ req' = [req EXCEPT ![s] =
       CASE r.at = "record" -> [r EXCEPT !.at = "jwt"]
         [] r.at = "jwt" -> [r EXCEPT !.at = "rotate", !.ok = FALSE]
         [] r.at = "clear" /\ r.op = "logout" -> [r EXCEPT !.at = "rows"]
         [] r.at = "rows" -> [r EXCEPT !.at = IF r.op = "reset" THEN "save" ELSE "answer", !.ok = FALSE]
         [] r.at = "alarm" -> [r EXCEPT !.at = "answer", !.ok = FALSE]
         [] OTHER -> Idle]
  /\ UNCHANGED <<user, tokens, device, ops, history>>

AnswerLost(s) ==
  /\ At(s, "answer") /\ faults < MaxFaults
  /\ faults' = faults + 1
  /\ mishap' = TRUE
  /\ Ends(s)
  /\ UNCHANGED <<user, tokens, device, ops, meant>>

-----------------------------------------------------------------------------
DeviceRequest(s) == \E d \in Devices : StartLogin(s, d) \/ StartPINLogin(s, d) \/ StartRefresh(s, d)
                                    \/ StartLogout(s, d)
AdminRequest(s) ==
  \/ \E op \in ColumnOps : StartColumn(s, op)
  \/ StartRegeneratePIN(s) \/ StartUpdateUser(s) \/ StartMailLink(s) \/ StartReset(s) \/ StartRestore(s) \/ StartCreate(s)
AuthStep(s) ==
  \/ RecordLogin(s) \/ IssueJWT(s) \/ GenerateRefreshToken(s) \/ RefreshUser(s)
  \/ RevokeRows(s) \/ ClearColumns(s) \/ Answer(s)
AdminStep(s) == LockUser(s) \/ DeleteUser(s) \/ SaveRow(s) \/ RestoreUser(s) \/ CreateUser(s)

Next ==
  \/ \E s \in Slots : \/ DeviceRequest(s) \/ AdminRequest(s) \/ AuthStep(s) \/ AdminStep(s)
                      \/ StatementFails(s) \/ AnswerLost(s)
  \/ PurgeDeletedUsers

Spec == Init /\ [][Next]_vars

-----------------------------------------------------------------------------
Steps == {"idle", "record", "jwt", "rotate", "answer", "user", "alarm", "rows", "clear", "save", "lock", "unlock",
          "delete", "restore", "insert"}
Ops == {"idle", "login", "refresh", "logout", "reset", "restore", "create"} \cup ColumnOps \cup SaveOps
Rows == [id : Nat, there : BOOLEAN, deleted : BOOLEAN, locked : BOOLEAN, guest : BOOLEAN, expired : BOOLEAN,
         password : Nat, pin : Nat, jwt : Nat, link : Nat, logins : Nat]
Tokens == [owner : Nat, revoked : BOOLEAN, from : Nat, ended : BOOLEAN, late : BOOLEAN]
Requests == [op : Ops, at : Steps, n : Nat, dev : Devices \cup {NoDevice}, id : Nat, copy : Rows, rt : Nat,
             new : Nat, had : Nat, guest : BOOLEAN, expired : BOOLEAN, ok : BOOLEAN, dirty : BOOLEAN, late : BOOLEAN]

(* Rows and requests keep their types; a device only holds, and a request  *)
(* only presents, tokens that were stored.                                 *)
TypeOK ==
  /\ user \in Rows /\ meant \in Rows
  /\ tokens \in Seq(Tokens)
  /\ req \in [Slots -> Requests] /\ \A s \in Slots : req[s].rt <= Len(tokens) /\ req[s].new <= Len(tokens)
  /\ device \in [Devices -> [jwt : Nat, rt : Nat]] /\ \A d \in Devices : device[d].rt <= Len(tokens)
  /\ ops \in Nat /\ faults \in Nat /\ mishap \in BOOLEAN

(* No session comes from a spent token: a refresh that starts after its    *)
(* token was exchanged by another one, or after a logout, a new password   *)
(* or an alarm answered that all tokens are revoked, stores no new token.  *)
(* (Two refreshes that read the token before either has exchanged it both  *)
(* get one, auth.go:419.)                                                  *)
NoSessionFromASpentToken == TypeOK /\ \A t \in DOMAIN tokens : ~tokens[t].late

(* Every column of the account holds what the last request that meant to   *)
(* change it wrote, unless a Save overtaken by another write put an older  *)
(* value back: lock, deletion, role, expiry, password, PIN, link, access   *)
(* token and counter of logins.                                            *)
ColumnsKept == user = meant

(* The alarm about a token presented twice is only raised after a lost     *)
(* answer, two refreshes at a time of one device, or the end of all        *)
(* sessions by a logout or a new password; not by devices that refresh in  *)
(* turn, whatever the administrator does.                                  *)
NoAlarmWithoutCause ==
  [][\A s \in Slots : req[s].at # "alarm" /\ req'[s].at = "alarm" => mishap']_vars

(* A pair of tokens that reaches the device without another write of the   *)
(* account, and with its own stored, is accepted at once.                  *)
FreshPairIsAccepted ==
  [][\A s \in Slots, d \in Devices :
       At(s, "answer") /\ req[s].dev = d /\ req[s].new # 0 /\ ~req[s].dirty /\ req[s].ok
         /\ ~At(s, "answer")' /\ device'[d] # device[d]
         => Accepted(d)']_vars
===============================================================================
