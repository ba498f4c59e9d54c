---------------------------- MODULE RouterNetProofs ----------------------------
(***************************************************************************)
(* Theorems about RouterNet, for any callers, lifetimes, times and bounds. *)
(***************************************************************************)
EXTENDS RouterNet, SequenceTheorems, TLAPS

Active(c) == at[c] \notin {"idle", "done"}
Call(c) == Head(todo[c])

(* What is left of a script.                                               *)
Scripts ==
  {<<>>, HostsCalls, <<"list", "logout">>, <<"logout">>, SetValueCalls, <<"set", "logout">>,
   <<"login", "list", "logout", "login", "set", "logout">>,
   <<"list", "logout", "login", "set", "logout">>, <<"logout", "login", "set", "logout">>}

LEMMA ScriptSteps ==
  ASSUME NEW q \in Scripts
  PROVE  /\ q \in Seq({"login", "list", "set", "logout"})
         /\ q # <<>> =>
              /\ Head(q) \in {"login", "list", "set", "logout"} /\ Tail(q) \in Scripts
              /\ Head(q) = "login" => Tail(q) # <<>> /\ Head(Tail(q)) \in {"list", "set"}
              /\ Head(q) \in {"list", "set"} => Tail(q) # <<>> /\ Head(Tail(q)) = "logout"
              /\ Head(q) = "logout" /\ Tail(q) # <<>> => Head(Tail(q)) = "login"
  <1>1. CASE q = <<>>
    BY <1>1
  <1>2. CASE q = HostsCalls
    BY <1>2 DEF Scripts, HostsCalls
  <1>3. CASE q = <<"list", "logout">>
    BY <1>3 DEF Scripts
  <1>4. CASE q = <<"logout">>
    BY <1>4 DEF Scripts
  <1>5. CASE q = SetValueCalls
    BY <1>5 DEF Scripts, SetValueCalls
  <1>6. CASE q = <<"set", "logout">>
    BY <1>6 DEF Scripts
  <1>7. CASE q = <<"login", "list", "logout", "login", "set", "logout">>
    BY <1>7 DEF Scripts
  <1>8. CASE q = <<"list", "logout", "login", "set", "logout">>
    BY <1>8 DEF Scripts
  <1>9. CASE q = <<"logout", "login", "set", "logout">>
    <2>1. Tail(q) = <<"login", "set", "logout">>
      BY <1>9
    <2>2. Tail(q) \in Scripts
      <3>1. Tail(q) = SetValueCalls
        BY <2>1 DEF SetValueCalls
      <3> QED BY <3>1 DEF Scripts
    <2>3. Head(Tail(q)) = "login"
      <3>1. Head(<<"login", "set", "logout">>) = "login"
        OBVIOUS
      <3> QED BY <2>1, <3>1, Zenon
    <2>4. q \in Seq({"login", "list", "set", "logout"})
      BY <1>9
    <2>5. q # <<>> /\ Head(q) = "logout"
      BY <1>9
    <2>6. Head(q) # "login" /\ Head(q) \notin {"list", "set"} /\ Head(q) \in {"login", "list", "set", "logout"}
      BY <2>5
    <2> QED BY <2>2, <2>3, <2>4, <2>5, <2>6, Zenon
  <1> QED BY <1>1, <1>2, <1>3, <1>4, <1>5, <1>6, <1>7, <1>8, <1>9 DEF Scripts

LEMMA ScriptStarts ==
  /\ {HostsCalls, BlockCalls} \subseteq Scripts \ {<<>>}
  /\ Head(HostsCalls) = "login" /\ Head(BlockCalls) = "login"
  /\ Len(HostsCalls) \in Nat /\ Len(BlockCalls) \in Nat
  <1>1. HostsCalls \o SetValueCalls = <<"login", "list", "logout", "login", "set", "logout">>
    <2> DEFINE a == <<"login", "list", "logout">>
               b == <<"login", "set", "logout">>
               ab == <<"login", "list", "logout", "login", "set", "logout">>
    <2>1. a \in Seq({"login", "list", "set", "logout"}) /\ b \in Seq({"login", "list", "set", "logout"}) /\ Len(a) = 3 /\ Len(b) = 3
      OBVIOUS
    <2>2. Len(a \o b) = 6
      BY <2>1
    <2>3. \A i \in 1..6 : (a \o b)[i] = ab[i]
      <3>1. (a \o b)[1] = "login" /\ (a \o b)[2] = "list" /\ (a \o b)[3] = "logout"
        BY <2>1
      <3>2. (a \o b)[4] = "login" /\ (a \o b)[5] = "set" /\ (a \o b)[6] = "logout"
        BY <2>1
      <3> QED BY <3>1, <3>2
    <2>4. a \o b \in Seq({"login", "list", "set", "logout"}) /\ ab \in Seq({"login", "list", "set", "logout"}) /\ Len(ab) = 6
      BY <2>1
    <2>5. a \o b = ab
      <3> HIDE DEF a, b, ab
      <3> QED BY <2>2, <2>3, <2>4, SeqEqual
    <2> QED BY <2>5 DEF HostsCalls, SetValueCalls
  <1>2. /\ HostsCalls # <<>> /\ SetValueCalls # <<>>
        /\ Head(HostsCalls) = "login" /\ Head(SetValueCalls) = "login"
        /\ Len(HostsCalls) = 3 /\ Len(SetValueCalls) = 3
    BY DEF HostsCalls, SetValueCalls
  <1>3. CASE ByUid
    <2>1. BlockCalls = <<"login", "list", "logout", "login", "set", "logout">>
      BY <1>1, <1>3 DEF BlockCalls
    <2>2. BlockCalls # <<>> /\ Head(BlockCalls) = "login" /\ Len(BlockCalls) = 6
      BY <2>1
    <2> QED BY <1>2, <2>1, <2>2 DEF Scripts
  <1>4. CASE ~ByUid
    <2>1. BlockCalls = SetValueCalls
      BY <1>4 DEF BlockCalls
    <2> QED BY <1>2, <2>1 DEF Scripts
  <1> QED BY <1>3, <1>4, RouterAssumption

(* Types, and the place of a caller in its script.                         *)
Types ==
  /\ clock \in 0..MaxTime /\ cache \in [at : Never..MaxTime, read : Never..MaxTime]
  /\ opened \in Nat /\ open \subseteq 1..opened /\ blamed \subseteq 1..opened
  /\ client \in [session : None..opened, nonce : None..opened]
  /\ at \in [Callers -> Places] /\ todo \in [Callers -> Scripts]
  /\ msg \in [Callers -> [session : None..opened, nonce : None..opened]]
  /\ reply \in [Callers -> [ok : BOOLEAN, session : None..opened, read : None..MaxTime]]
  /\ got \in [Callers -> None..MaxTime] /\ start \in [Callers -> 0..MaxTime]
  /\ calls \in 0..MaxCalls /\ failures \in 0..MaxFaults
  /\ mine \in [Callers -> 0..opened] /\ blurred \in [Callers -> BOOLEAN]
  /\ \A c \in Callers : Active(c) => todo[c] # <<>>
  /\ \A c \in Callers : at[c] \in {"reset", "nonce"} => Call(c) = "login"

LEMMA InitTypes == Init => Types
  <1> USE DEF Init, NoMsg, NoReply, None, Never
  <1> SUFFICES ASSUME Init PROVE Types
    OBVIOUS
  <1>1. clock \in 0..MaxTime /\ cache \in [at : Never..MaxTime, read : Never..MaxTime]
    BY RouterAssumption
  <1>2. opened \in Nat /\ open \subseteq 1..opened /\ blamed \subseteq 1..opened
        /\ client \in [session : None..opened, nonce : None..opened]
    OBVIOUS
  <1>3. at \in [Callers -> Places] /\ todo \in [Callers -> Scripts]
    BY DEF Places, Scripts
  <1>4. msg \in [Callers -> [session : None..opened, nonce : None..opened]]
    OBVIOUS
  <1>5. reply \in [Callers -> [ok : BOOLEAN, session : None..opened, read : None..MaxTime]]
    BY RouterAssumption
  <1>6. got \in [Callers -> None..MaxTime] /\ start \in [Callers -> 0..MaxTime]
    BY RouterAssumption
  <1>7. calls \in 0..MaxCalls /\ failures \in 0..MaxFaults
    BY RouterAssumption
  <1>8. mine \in [Callers -> 0..opened] /\ blurred \in [Callers -> BOOLEAN]
    OBVIOUS
  <1>9. \A c \in Callers : at[c] = "idle"
    OBVIOUS
  <1> QED BY <1>1, <1>2, <1>3, <1>4, <1>5, <1>6, <1>7, <1>8, <1>9 DEF Types, Active

(* A caller begins a script.                                               *)
LEMMA EnterTypes ==
  ASSUME Types, NEW c \in Callers, NEW script \in {HostsCalls, BlockCalls}, Enter(c, script),
         UNCHANGED <<clock, cache, client, open, opened, msg, reply, got, failures, mine, blamed>>
  PROVE  Types'
  <1>1. script \in Scripts /\ script # <<>> /\ Head(script) = "login" /\ Len(script) \in Nat
    BY ScriptStarts
  <1>2. at' = [at EXCEPT ![c] = "reset"] /\ todo' = [todo EXCEPT ![c] = script]
    BY <1>1 DEF Enter
  <1>3. at' \in [Callers -> Places] /\ todo' \in [Callers -> Scripts]
    BY <1>1, <1>2 DEF Types, Places
  <1>4. calls' \in 0..MaxCalls
    BY <1>1, RouterAssumption DEF Types, Enter
  <1>5. start' \in [Callers -> 0..MaxTime] /\ blurred' \in [Callers -> BOOLEAN]
    BY RouterAssumption DEF Types, Enter
  <1>6. \A d \in Callers : Active(d)' => todo'[d] # <<>>
    BY <1>1, <1>2 DEF Types, Active
  <1>7. \A d \in Callers : at'[d] \in {"reset", "nonce"} => Call(d)' = "login"
    BY <1>1, <1>2 DEF Types, Call
  <1> QED BY <1>3, <1>4, <1>5, <1>6, <1>7 DEF Types

(* A caller goes on to the rest of its script.                             *)
LEMMA GoesOn ==
  ASSUME Types, NEW c \in Callers, NEW rest \in Scripts, Goes(c, rest)
  PROVE  /\ at' \in [Callers -> Places] /\ todo' \in [Callers -> Scripts]
         /\ reply' = [reply EXCEPT ![c] = NoReply]
         /\ \A d \in Callers : Active(d)' => todo'[d] # <<>>
         /\ \A d \in Callers : at'[d] \in {"reset", "nonce"} => Call(d)' = "login"
         /\ at'[c] \in {"done", "reset", "build"} /\ todo'[c] = rest
         /\ at'[c] = "done" <=> rest = <<>>
         /\ at'[c] = "reset" <=> rest # <<>> /\ Head(rest) = "login"
         /\ \A d \in Callers \ {c} : at'[d] = at[d] /\ todo'[d] = todo[d]
  <1> DEFINE a == IF rest = <<>> THEN "done" ELSE IF Head(rest) = "login" THEN "reset" ELSE "build"
  <1>1. at' = [at EXCEPT ![c] = a] /\ todo' = [todo EXCEPT ![c] = rest]
        /\ reply' = [reply EXCEPT ![c] = NoReply]
    BY DEF Goes
  <1>2. a \in {"done", "reset", "build"} /\ (a = "done" <=> rest = <<>>)
        /\ (a = "reset" <=> rest # <<>> /\ Head(rest) = "login")
    OBVIOUS
  <1> HIDE DEF a
  <1>3. at \in [Callers -> Places] /\ todo \in [Callers -> Scripts]
    BY DEF Types
  <1>4. at'[c] = a /\ todo'[c] = rest /\ \A d \in Callers \ {c} : at'[d] = at[d] /\ todo'[d] = todo[d]
    BY <1>1, <1>3
  <1>5. at' \in [Callers -> Places] /\ todo' \in [Callers -> Scripts]
    BY <1>1, <1>2, <1>3 DEF Places
  <1>6. \A d \in Callers : Active(d)' => todo'[d] # <<>>
    BY <1>2, <1>4 DEF Types, Active
  <1>7. \A d \in Callers : at'[d] \in {"reset", "nonce"} => Call(d)' = "login"
    <2>1. \A d \in Callers \ {c} : at'[d] \in {"reset", "nonce"} => Call(d)' = "login"
      BY <1>4 DEF Types, Call
    <2>2. at'[c] \in {"reset", "nonce"} => Call(c)' = "login"
      BY <1>2, <1>4 DEF Call
    <2> QED BY <2>1, <2>2
  <1> QED BY <1>1, <1>2, <1>4, <1>5, <1>6, <1>7

LEMMA NoReplyTypes ==
  ASSUME NEW o \in Nat
  PROVE  /\ NoReply \in [ok : BOOLEAN, session : None..o, read : None..MaxTime]
         /\ NoMsg \in [session : None..o, nonce : None..o]
  BY RouterAssumption DEF NoReply, NoMsg, None

LEMMA GivesUpTypes ==
  ASSUME Types, NEW c \in Callers, GivesUp(c), opened' = opened
  PROVE  blamed' \subseteq 1..opened' /\ mine' \in [Callers -> 0..opened'] /\ blurred' = blurred
  <1>1. mine[c] \in 0..opened /\ mine \in [Callers -> 0..opened] /\ opened \in Nat /\ blamed \subseteq 1..opened
    BY DEF Types
  <1>2. {mine[c]} \ {0} \subseteq 1..opened
    BY <1>1
  <1>3. blamed' \subseteq 1..opened
    BY <1>1, <1>2 DEF GivesUp
  <1>4. mine' \in [Callers -> 0..opened] /\ blurred' = blurred
    BY <1>1 DEF GivesUp
  <1> QED BY <1>3, <1>4

(* The answer of the router.                                               *)
LEMMA HandleTypes ==
  ASSUME Types, NEW c \in Callers, Handle(c)
  PROVE  Types'
  <1> DEFINE good == IF Head(todo[c]) = "login" THEN msg[c].session = 0 /\ msg[c].nonce = 0
                     ELSE msg[c].session \in open /\ msg[c].nonce = msg[c].session
             opens == good /\ Head(todo[c]) = "login"
             r == [ok |-> good, session |-> IF opens THEN opened + 1 ELSE None,
                   read |-> IF good /\ Head(todo[c]) = "list" THEN ListedAt(c) ELSE None]
  <1>1. /\ opened' = IF opens THEN opened + 1 ELSE opened
        /\ open' = IF opens THEN open \cup {opened + 1}
                   ELSE IF good /\ Head(todo[c]) = "logout" THEN open \ {msg[c].session} ELSE open
        /\ reply' = [reply EXCEPT ![c] = r]
        /\ msg' = [msg EXCEPT ![c] = NoMsg]
        /\ mine' = IF opens THEN [mine EXCEPT ![c] = opened + 1] ELSE mine
        /\ at' = [at EXCEPT ![c] = "answered"] /\ at[c] = "sent"
        /\ UNCHANGED <<clock, cache, client, todo, got, start, calls, failures, blurred, blamed>>
    BY DEF Handle
  <1>2. /\ opened \in Nat /\ open \subseteq 1..opened /\ blamed \subseteq 1..opened
        /\ clock \in 0..MaxTime /\ MaxTime \in Nat
    BY RouterAssumption DEF Types
  <1>3. opens \in BOOLEAN /\ good \in BOOLEAN
    OBVIOUS
  <1>4. r.ok = good /\ r.session = (IF opens THEN opened + 1 ELSE None)
        /\ r.read = (IF good /\ Head(todo[c]) = "list" THEN ListedAt(c) ELSE None)
        /\ r \in [ok : {good}, session : {r.session}, read : {r.read}]
    OBVIOUS
  <1>5. ListedAt(c) \in 0..MaxTime
    BY <1>2 DEF ListedAt
  <1> HIDE DEF r, opens, good
  <1>6. opened' \in Nat /\ opened <= opened' /\ open' \subseteq 1..opened'
    <2>1. opened' \in Nat /\ opened <= opened' /\ (opens => opened + 1 = opened')
      BY <1>1, <1>2, <1>3
    <2>2. open' \subseteq open \cup (IF opens THEN {opened + 1} ELSE {})
      BY <1>1
    <2>3. 1..opened \subseteq 1..opened'
      BY <1>2, <2>1
    <2>4. (IF opens THEN {opened + 1} ELSE {}) \subseteq 1..opened'
      BY <1>2, <2>1
    <2> QED BY <1>2, <2>1, <2>2, <2>3, <2>4
  <1>61. None..opened \subseteq None..opened' /\ 0..opened \subseteq 0..opened'
    BY <1>2, <1>6 DEF None
  <1>7. blamed' \subseteq 1..opened'
    BY <1>1, <1>2, <1>6
  <1>8. client' \in [session : None..opened', nonce : None..opened']
    BY <1>1, <1>2, <1>6 DEF Types, None
  <1>9. msg' \in [Callers -> [session : None..opened', nonce : None..opened']]
    <2>1. NoMsg \in [session : None..opened', nonce : None..opened']
      BY <1>6, NoReplyTypes
    <2>2. \A d \in Callers : msg[d] \in [session : None..opened', nonce : None..opened']
      <3>1. \A d \in Callers : msg[d] \in [session : None..opened, nonce : None..opened]
        BY DEF Types
      <3> QED BY <3>1, <1>61
    <2> QED BY <1>1, <2>1, <2>2 DEF Types
  <1>10. reply' \in [Callers -> [ok : BOOLEAN, session : None..opened', read : None..MaxTime]]
    <2>1. r \in [ok : BOOLEAN, session : None..opened', read : None..MaxTime]
      BY <1>1, <1>2, <1>3, <1>4, <1>5, <1>6 DEF None
    <2>2. \A d \in Callers : reply[d] \in [ok : BOOLEAN, session : None..opened', read : None..MaxTime]
      <3>1. \A d \in Callers : reply[d] \in [ok : BOOLEAN, session : None..opened, read : None..MaxTime]
        BY DEF Types
      <3> QED BY <3>1, <1>61
    <2> QED BY <1>1, <2>1, <2>2 DEF Types
  <1>11. mine' \in [Callers -> 0..opened']
    <2>1. mine \in [Callers -> 0..opened']
      BY <1>61 DEF Types
    <2>2. opens => opened + 1 \in 0..opened'
      BY <1>1, <1>2
    <2> QED BY <1>1, <2>1, <2>2
  <1>12. at' \in [Callers -> Places]
    BY <1>1 DEF Types, Places
  <1>13. \A d \in Callers : Active(d)' => todo'[d] # <<>>
    BY <1>1 DEF Types, Active
  <1>14. \A d \in Callers : at'[d] \in {"reset", "nonce"} => Call(d)' = "login"
    BY <1>1 DEF Types, Call
  <1> QED BY <1>1, <1>6, <1>7, <1>8, <1>9, <1>10, <1>11, <1>12, <1>13, <1>14 DEF Types

LEMMA CallTypes ==
  ASSUME Types, NEW c \in Callers, CallStep(c) \/ CallFails(c)
  PROVE  Types'
  <1>0. /\ opened \in Nat /\ None = -1 /\ Never = -1 /\ MaxTime \in Nat /\ clock \in 0..MaxTime
        /\ at \in [Callers -> Places] /\ todo \in [Callers -> Scripts]
    BY RouterAssumption DEF Types, None, Never
  <1>1. CASE Reset(c)
    <2>1. client' \in [session : None..opened', nonce : None..opened']
      BY <1>0, <1>1 DEF Reset
    <2>2. at' \in [Callers -> Places]
      BY <1>0, <1>1 DEF Reset, Places
    <2>3. \A d \in Callers : Active(d)' => todo'[d] # <<>>
      BY <1>1 DEF Types, Active, Reset
    <2>4. \A d \in Callers : at'[d] \in {"reset", "nonce"} => Call(d)' = "login"
      BY <1>1 DEF Types, Call, Reset
    <2> QED BY <1>1, <2>1, <2>2, <2>3, <2>4 DEF Types, Reset, history
  <1>2. CASE Build(c)
    <2>1. msg' \in [Callers -> [session : None..opened', nonce : None..opened']]
      BY <1>0, <1>2 DEF Build, Types
    <2>2. at' \in [Callers -> Places]
      BY <1>0, <1>2 DEF Build, Places
    <2>3. \A d \in Callers : Active(d)' => todo'[d] # <<>>
      BY <1>2 DEF Types, Active, Build
    <2>4. \A d \in Callers : at'[d] \in {"reset", "nonce"} => Call(d)' = "login"
      BY <1>2 DEF Types, Call, Build
    <2> QED BY <1>2, <2>1, <2>2, <2>3, <2>4 DEF Types, Build, history
  <1>3. CASE Handle(c)
    BY <1>3, HandleTypes
  <1>4. CASE LoginFails(c)
    <2>1. Goes(c, <<>>) /\ <<>> \in Scripts /\ GivesUp(c) /\ opened' = opened
      BY <1>4 DEF LoginFails, Scripts
    <2>2. reply' \in [Callers -> [ok : BOOLEAN, session : None..opened', read : None..MaxTime]]
      BY <1>0, <2>1, NoReplyTypes DEF Goes, Types
    <2> QED BY <1>4, <2>1, <2>2, GoesOn, GivesUpTypes DEF LoginFails, Types
  <1>5. CASE StoreSession(c)
    <2>1. client' \in [session : None..opened', nonce : None..opened']
      BY <1>0, <1>5 DEF StoreSession, Types
    <2>2. at' \in [Callers -> Places]
      BY <1>0, <1>5 DEF StoreSession, Places
    <2>3. \A d \in Callers : Active(d)' => todo'[d] # <<>>
      BY <1>5 DEF Types, Active, StoreSession
    <2>4. \A d \in Callers : at'[d] \in {"reset", "nonce"} => Call(d)' = "login"
      BY <1>5 DEF Types, Call, StoreSession
    <2> QED BY <1>5, <2>1, <2>2, <2>3, <2>4 DEF Types, StoreSession, history
  <1>6. CASE StoreNonce(c)
    <2>1. client' \in [session : None..opened', nonce : None..opened']
      BY <1>0, <1>6 DEF StoreNonce, Types
    <2>2. Goes(c, Tail(todo[c])) /\ Tail(todo[c]) \in Scripts /\ opened' = opened
      BY <1>0, <1>6, ScriptSteps DEF StoreNonce, Types, Active
    <2>3. reply' \in [Callers -> [ok : BOOLEAN, session : None..opened', read : None..MaxTime]]
      BY <1>0, <2>2, NoReplyTypes DEF Goes, Types
    <2> QED BY <1>6, <2>1, <2>2, <2>3, GoesOn DEF StoreNonce, Types, history
  <1>7. CASE Requested(c)
    <2>1. got' \in [Callers -> None..MaxTime]
      BY <1>0, <1>7 DEF Requested, Types
    <2>2. Goes(c, Tail(todo[c])) /\ Tail(todo[c]) \in Scripts /\ opened' = opened
      BY <1>0, <1>7, ScriptSteps DEF Requested, Types, Active
    <2>3. reply' \in [Callers -> [ok : BOOLEAN, session : None..opened', read : None..MaxTime]]
      BY <1>0, <2>2, NoReplyTypes DEF Goes, Types
    <2> QED BY <1>7, <2>1, <2>2, <2>3, GoesOn DEF Requested, Types, history
  <1>8. CASE Logout(c)
    <2>1. client' \in [session : None..opened', nonce : None..opened']
      BY <1>0, <1>8 DEF Logout
    <2>2. PICK rest \in Scripts : Goes(c, rest)
      <3>1. <<>> \in Scripts /\ Tail(todo[c]) \in Scripts
        BY <1>0, <1>8, ScriptSteps DEF Logout, Types, Active, Scripts
      <3> QED BY <1>8, <3>1 DEF Logout
    <2>3. GivesUp(c) /\ opened' = opened
      BY <1>8 DEF Logout
    <2>4. reply' \in [Callers -> [ok : BOOLEAN, session : None..opened', read : None..MaxTime]]
      BY <1>0, <2>2, <2>3, NoReplyTypes DEF Goes, Types
    <2> QED BY <1>8, <2>1, <2>2, <2>3, <2>4, GoesOn, GivesUpTypes DEF Logout, Types
  <1>9. CASE Store(c) \/ Blocked(c)
    <2>1. Ends(c) /\ UNCHANGED <<clock, client, open, opened, calls, failures, blamed>>
      BY <1>9 DEF Store, Blocked
    <2>2. cache' \in [at : Never..MaxTime, read : Never..MaxTime]
      <3>1. CASE Blocked(c)
        BY <3>1 DEF Blocked, Types
      <3>2. CASE Store(c)
        <4>1. got[c] \in -1..MaxTime
          BY <1>0 DEF Types
        <4>2. (IF got[c] = None THEN clock ELSE got[c]) \in -1..MaxTime /\ clock \in -1..MaxTime
          BY <1>0, <4>1
        <4> QED BY <1>0, <3>2, <4>2 DEF Store
      <3> QED BY <1>9, <3>1, <3>2
    <2>3. at' \in [Callers -> Places] /\ got' \in [Callers -> None..MaxTime] /\ start' \in [Callers -> 0..MaxTime]
      BY <1>0, <2>1 DEF Ends, Types, Places
    <2>4. blurred' \in [Callers -> BOOLEAN]
      BY <2>1 DEF Ends, Types
    <2>5. \A d \in Callers : Active(d)' => todo'[d] # <<>>
      BY <2>1 DEF Types, Active, Ends
    <2>6. \A d \in Callers : at'[d] \in {"reset", "nonce"} => Call(d)' = "login"
      BY <2>1 DEF Types, Call, Ends
    <2> QED BY <2>1, <2>2, <2>3, <2>4, <2>5, <2>6 DEF Types, Ends
  <1>10. CASE CallFails(c)
    <2>1. /\ reply' \in [Callers -> [ok : BOOLEAN, session : None..opened', read : None..MaxTime]]
          /\ msg' \in [Callers -> [session : None..opened', nonce : None..opened']]
      BY <1>0, <1>10, NoReplyTypes DEF CallFails, Types
    <2>2. at' \in [Callers -> Places] /\ blurred' \in [Callers -> BOOLEAN]
      BY <1>0, <1>10 DEF CallFails, Types, Places
    <2>3. failures' \in 0..MaxFaults
      BY <1>10, RouterAssumption DEF CallFails, Types
    <2>4. \A d \in Callers : Active(d)' => todo'[d] # <<>>
      BY <1>10 DEF Types, Active, CallFails
    <2>5. \A d \in Callers : at'[d] \in {"reset", "nonce"} => Call(d)' = "login"
      BY <1>10 DEF Types, Call, CallFails
    <2> QED BY <1>10, <2>1, <2>2, <2>3, <2>4, <2>5 DEF Types, CallFails
  <1> QED BY <1>1, <1>2, <1>3, <1>4, <1>5, <1>6, <1>7, <1>8, <1>9, <1>10 DEF CallStep

LEMMA StepTypes ==
  ASSUME Types, [Next]_vars
  PROVE  Types'
  <1>1. ASSUME NEW c \in Callers, Refresh(c) \/ BlockDevice(c)
        PROVE  Types'
    <2>1. CASE Refresh(c)
      BY <2>1, EnterTypes DEF Refresh
    <2>2. CASE BlockDevice(c)
      BY <2>2, EnterTypes DEF BlockDevice
    <2> QED BY <1>1, <2>1, <2>2
  <1>2. CASE Tick
    <2>1. clock' \in 0..MaxTime
      BY <1>2, RouterAssumption DEF Tick, Types
    <2> QED BY <1>2, <2>1 DEF Tick, Types, Active, Call, local, history
  <1>3. CASE UNCHANGED vars
    BY <1>3 DEF vars, Types, Active, Call, local, history
  <1> QED BY <1>1, <1>2, <1>3, CallTypes DEF Next

-----------------------------------------------------------------------------
(* The times of a reader: it began no longer ago than a refresh may take,  *)
(* and what it has read was read since.                                    *)
TimesOf(now, place, began, read, answer) ==
  /\ place # "idle" => began <= now /\ now - began <= MaxFetch
  /\ read # None => place # "idle" /\ began <= read /\ read <= now
  /\ answer # None => place \in {"answered", "nonce"} /\ began <= answer /\ answer <= now

CacheTimes(now, box) ==
  box.at # Never => box.read <= box.at /\ box.at <= now /\ box.at - box.read <= MaxFetch

Times ==
  /\ \A c \in Readers : TimesOf(clock, at[c], start[c], got[c], reply[c].read)
  /\ CacheTimes(clock, cache)

(* A step of one caller leaves the times of the others alone.              *)
LEMMA OthersTimes ==
  ASSUME Times, NEW c \in Callers, clock' = clock, cache' = cache,
         \A d \in Readers \ {c} : at'[d] = at[d] /\ start'[d] = start[d] /\ got'[d] = got[d] /\ reply'[d] = reply[d],
         c \in Readers => TimesOf(clock, at'[c], start'[c], got'[c], reply'[c].read)
  PROVE  Times'
  <1>1. ASSUME NEW d \in Readers \ {c} PROVE TimesOf(clock, at'[d], start'[d], got'[d], reply'[d].read)
    BY DEF Times
  <1>2. \A d \in Readers : TimesOf(clock', at'[d], start'[d], got'[d], reply'[d].read)
    BY <1>1
  <1> QED BY <1>2 DEF Times, CacheTimes

LEMMA EnterTimes ==
  ASSUME Types, Times, NEW c \in Callers, NEW script \in {HostsCalls, BlockCalls}, Enter(c, script), at[c] = "idle",
         UNCHANGED <<clock, cache, reply, got>>
  PROVE  Times'
  <1>1. Head(script) = "login"
    BY ScriptStarts
  <1>2. at' = [at EXCEPT ![c] = "reset"] /\ start' = [start EXCEPT ![c] = IF c \in Readers THEN clock ELSE 0]
    BY <1>1 DEF Enter
  <1>3. \A d \in Readers \ {c} : at'[d] = at[d] /\ start'[d] = start[d] /\ got'[d] = got[d] /\ reply'[d] = reply[d]
    BY <1>2 DEF Types, Callers
  <1>4. ASSUME c \in Readers PROVE TimesOf(clock, at'[c], start'[c], got'[c], reply'[c].read)
    <2>1. at'[c] = "reset" /\ start'[c] = clock /\ got'[c] = got[c] /\ reply'[c] = reply[c]
      BY <1>2, <1>4 DEF Types
    <2>2. got[c] = None /\ reply[c].read = None
      BY <1>4 DEF Times, TimesOf
    <2>3. clock \in Nat /\ MaxFetch \in Nat
      BY RouterAssumption DEF Types
    <2> QED BY <2>1, <2>2, <2>3 DEF TimesOf
  <1> QED BY <1>3, <1>4, OthersTimes

(* A step that keeps the start and what is read, of a caller still under   *)
(* way.                                                                    *)
LEMMA SameTimes ==
  ASSUME Types, Times, NEW c \in Callers, clock' = clock, cache' = cache, start' = start,
         \A d \in Readers \ {c} : at'[d] = at[d] /\ got'[d] = got[d] /\ reply'[d] = reply[d],
         at[c] # "idle", at'[c] # "idle", got'[c] \in {got[c], reply[c].read},
         \/ reply'[c].read = None
         \/ reply'[c] = reply[c] /\ at'[c] \in {"answered", "nonce"}
         \/ reply'[c] = reply[c] /\ at[c] \notin {"answered", "nonce"}
         \/ reply'[c].read = ListedAt(c) /\ at'[c] \in {"answered", "nonce"}
  PROVE  Times'
  <1>1. ASSUME c \in Readers PROVE TimesOf(clock, at'[c], start'[c], got'[c], reply'[c].read)
    <2>1. TimesOf(clock, at[c], start[c], got[c], reply[c].read)
      BY <1>1 DEF Times
    <2>2. ListedAt(c) = clock /\ clock \in Nat /\ start[c] \in Nat
      BY <1>1 DEF ListedAt, Types
    <2> QED BY <2>1, <2>2 DEF TimesOf
  <1> QED BY <1>1, OthersTimes

LEMMA GoesTimes ==
  ASSUME Types, Times, NEW c \in Callers, NEW rest \in Scripts, Goes(c, rest), at[c] # "idle",
         clock' = clock, cache' = cache, start' = start,
         got' = [got EXCEPT ![c] = reply[c].read] \/ got' = got
  PROVE  Times'
  <1>0. /\ reply' = [reply EXCEPT ![c] = NoReply] /\ at'[c] \in {"done", "reset", "build"}
        /\ \A d \in Callers \ {c} : at'[d] = at[d]
    BY GoesOn
  <1>1. \A d \in Readers \ {c} : at'[d] = at[d] /\ reply'[d] = reply[d]
    BY <1>0 DEF Types, Callers
  <1>2. reply'[c].read = None /\ at'[c] # "idle"
    BY <1>0 DEF Types, NoReply
  <1>3. /\ got'[c] \in {got[c], reply[c].read}
        /\ \A d \in Readers \ {c} : got'[d] = got[d]
    BY DEF Types, Callers
  <1> QED BY <1>1, <1>2, <1>3, SameTimes

LEMMA CallTimes ==
  ASSUME Types, Times, NEW c \in Callers, CallStep(c) \/ CallFails(c)
  PROVE  Times'
  <1>1. CASE Reset(c) \/ Build(c)
    <2>1. at' = [at EXCEPT ![c] = at'[c]] /\ at'[c] \in {"build", "sent"} /\ at[c] \in {"reset", "build"}
          /\ UNCHANGED <<clock, cache, start, got, reply>>
      BY <1>1 DEF Reset, Build, Types
    <2> QED BY <2>1, SameTimes DEF Types, Callers
  <1>2. CASE Handle(c)
    <2>1. /\ at' = [at EXCEPT ![c] = "answered"] /\ at[c] = "sent"
          /\ UNCHANGED <<clock, cache, start, got>>
          /\ \A d \in Callers \ {c} : reply'[d] = reply[d]
          /\ reply'[c].read \in {None, ListedAt(c)}
      BY <1>2 DEF Handle, Types
    <2> QED BY <2>1, SameTimes DEF Types, Callers
  <1>3. CASE LoginFails(c)
    <2>1. <<>> \in Scripts
      BY DEF Scripts
    <2> QED BY <1>3, <2>1, GoesTimes DEF LoginFails
  <1>4. CASE StoreSession(c)
    <2>1. at' = [at EXCEPT ![c] = "nonce"] /\ at[c] = "answered" /\ UNCHANGED <<clock, cache, start, got, reply>>
      BY <1>4 DEF StoreSession
    <2> QED BY <2>1, SameTimes DEF Types, Callers
  <1>5. CASE StoreNonce(c)
    <2>1. Tail(todo[c]) \in Scripts
      BY <1>5, ScriptSteps DEF StoreNonce, Types, Active
    <2> QED BY <1>5, <2>1, GoesTimes DEF StoreNonce
  <1>6. CASE Requested(c)
    <2>1. Tail(todo[c]) \in Scripts
      BY <1>6, ScriptSteps DEF Requested, Types, Active
    <2>2. got' = [got EXCEPT ![c] = reply[c].read] \/ got' = got
      BY <1>6 DEF Requested, Types
    <2> QED BY <1>6, <2>1, <2>2, GoesTimes DEF Requested
  <1>7. CASE Logout(c)
    <2>1. <<>> \in Scripts /\ Tail(todo[c]) \in Scripts
      BY <1>7, ScriptSteps DEF Logout, Types, Active, Scripts
    <2>2. PICK rest \in Scripts : Goes(c, rest)
      BY <1>7, <2>1 DEF Logout
    <2> QED BY <1>7, <2>2, GoesTimes DEF Logout
  <1>8. CASE CallFails(c)
    <2>1. /\ at' = [at EXCEPT ![c] = "answered"] /\ at[c] \in {"sent", "answered"}
          /\ UNCHANGED <<clock, cache, start, got>>
          /\ \A d \in Callers \ {c} : reply'[d] = reply[d]
          /\ reply'[c].read = None
      BY <1>8 DEF CallFails, Types, NoReply
    <2> QED BY <2>1, SameTimes DEF Types, Callers
  <1>9. CASE Store(c) \/ Blocked(c)
    <2>1. /\ at[c] = "done" /\ clock' = clock /\ reply' = reply
          /\ at' = [at EXCEPT ![c] = "idle"] /\ got' = [got EXCEPT ![c] = None] /\ start' = [start EXCEPT ![c] = 0]
      BY <1>9 DEF Store, Blocked, Ends
    <2>2. \A d \in Readers \ {c} : TimesOf(clock', at'[d], start'[d], got'[d], reply'[d].read)
      BY <2>1 DEF Types, Callers, Times
    <2>3. ASSUME c \in Readers PROVE TimesOf(clock', at'[c], start'[c], got'[c], reply'[c].read)
      <3>1. TimesOf(clock, at[c], start[c], got[c], reply[c].read)
        BY <2>3 DEF Times
      <3> QED BY <2>1, <3>1 DEF TimesOf, Types
    <2>4. CacheTimes(clock', cache')
      <3>1. CASE Blocked(c)
        BY <2>1, <3>1 DEF Blocked, Times, CacheTimes
      <3>2. CASE Store(c)
        <4>1. TimesOf(clock, at[c], start[c], got[c], reply[c].read)
          BY <3>2 DEF Store, Times
        <4>2. clock \in Nat /\ MaxFetch \in Nat /\ start[c] \in Nat /\ got[c] \in -1..MaxTime /\ MaxTime \in Nat
          BY RouterAssumption DEF Types, None
        <4>3. cache'.at = clock /\ cache'.read = IF got[c] = None THEN clock ELSE got[c]
          BY <3>2 DEF Store
        <4>4. cache'.read <= clock /\ clock - cache'.read <= MaxFetch
          BY <2>1, <4>1, <4>2, <4>3 DEF TimesOf, None
        <4> QED BY <2>1, <4>2, <4>3, <4>4 DEF CacheTimes
      <3> QED BY <1>9, <3>1, <3>2
    <2> QED BY <2>2, <2>3, <2>4 DEF Times
  <1> QED BY <1>1, <1>2, <1>3, <1>4, <1>5, <1>6, <1>7, <1>8, <1>9 DEF CallStep

LEMMA StepTimes ==
  ASSUME Types, Times, [Next]_vars
  PROVE  Times'
  <1>1. ASSUME NEW c \in Callers, Refresh(c) \/ BlockDevice(c)
        PROVE  Times'
    <2>1. CASE Refresh(c)
      BY <2>1, EnterTimes DEF Refresh
    <2>2. CASE BlockDevice(c)
      BY <2>2, EnterTimes DEF BlockDevice
    <2> QED BY <1>1, <2>1, <2>2
  <1>2. CASE Tick
    <2>1. clock' = clock + 1 /\ cache' = cache /\ at' = at /\ start' = start /\ got' = got /\ reply' = reply
          /\ \A c \in Readers : at[c] = "idle" \/ clock - start[c] < MaxFetch
      BY <1>2 DEF Tick, local
    <2>2. clock \in Nat /\ MaxFetch \in Nat /\ MaxTime \in Nat /\ None = -1 /\ Never = -1
      BY RouterAssumption DEF Types, None, Never
    <2>3. ASSUME NEW c \in Readers PROVE TimesOf(clock', at'[c], start'[c], got'[c], reply'[c].read)
      <3>1. TimesOf(clock, at[c], start[c], got[c], reply[c].read)
        BY DEF Times
      <3>2. start[c] \in Nat /\ got[c] \in -1..MaxTime /\ reply[c].read \in -1..MaxTime
        BY <2>2 DEF Types, Callers
      <3> QED BY <2>1, <2>2, <3>1, <3>2 DEF TimesOf
    <2>4. CacheTimes(clock', cache')
      <3>1. cache.at \in -1..MaxTime /\ cache.read \in -1..MaxTime
        BY <2>2 DEF Types
      <3> QED BY <2>1, <2>2, <3>1 DEF Times, CacheTimes
    <2> QED BY <2>3, <2>4 DEF Times
  <1>3. CASE UNCHANGED vars
    BY <1>3 DEF vars, Times, CacheTimes, local
  <1> QED BY <1>1, <1>2, <1>3, CallTimes DEF Next

LEMMA InitTimes == Init => Times
  BY DEF Init, Times, TimesOf, CacheTimes, NoReply, None, Never, Callers

(* Whatever two readers do, an answer from the cache is at most its        *)
(* lifetime and one refresh old (netinfo.go:111).                          *)
THEOREM ServedIsRecentHolds == Spec => []ServedIsRecent
  <1>1. Types /\ Times => ServedIsRecent
    <2> SUFFICES ASSUME Types, Times, ~Stale PROVE clock - cache.read <= TTL + MaxFetch
      BY DEF ServedIsRecent
    <2>1. cache.at # Never /\ ~(clock - cache.at > TTL)
      BY DEF Stale
    <2>2. clock \in Int /\ cache.at \in Int /\ cache.read \in Int /\ TTL \in Nat /\ MaxFetch \in Nat
      BY RouterAssumption DEF Types, Never
    <2>3. cache.at - cache.read <= MaxFetch
      BY <2>1 DEF Times, CacheTimes
    <2> QED BY <2>1, <2>2, <2>3
  <1>2. Types /\ Times /\ [Next]_vars => Types' /\ Times'
    BY StepTypes, StepTimes
  <1> QED BY <1>1, <1>2, InitTypes, InitTimes, PTL DEF Spec

-----------------------------------------------------------------------------
(* Callers under way at the same time are blurred.                         *)
Overlap == \A c, d \in Callers : c # d /\ Active(c) /\ Active(d) => blurred[c]

(* A caller has no session before the router has answered its login, nor   *)
(* after it gave its session up.                                           *)
NoSession(place, call) ==
  place \in {"idle", "done", "reset"} \/ (place \in {"build", "sent"} /\ call = "login")
Mine == \A c \in Callers : NoSession(at[c], Call(c)) => mine[c] = 0

Pair(s) == [session |-> s, nonce |-> s]

(* What a caller that is not blurred finds: s is its session.              *)
Clean(place, call, m, r, s, fields, opens) ==
  /\ place = "build" /\ call = "login" => fields = Pair(0)
  /\ place = "sent" /\ call = "login" => m = Pair(0)
  /\ place = "answered" /\ call = "login" => r.ok /\ r.session = s /\ s \in opens
  /\ place = "nonce" => r.session = s /\ fields.session = s /\ s \in opens
  /\ place = "build" /\ call # "login" => fields = Pair(s) /\ s \in opens
  /\ place = "sent" /\ call # "login" => m = Pair(s) /\ s \in opens /\ (call # "logout" => fields = Pair(s))
  /\ place = "answered" /\ call \in {"list", "set"} => r.ok /\ fields = Pair(s) /\ s \in opens
  /\ place = "answered" /\ call = "logout" => r.ok /\ s \notin opens

CleanOf(c) == Clean(at[c], Call(c), msg[c], reply[c], mine[c], client, open)
Alone == \A c \in Callers : Active(c) /\ ~blurred[c] => CleanOf(c)

Leaks == \A s \in open : s \in blamed \/ \E c \in Callers : mine[c] = s

(* A step of a caller under way leaves the others where they are.          *)
LEMMA OneMoves ==
  ASSUME Types, NEW c \in Callers, CallStep(c) \/ CallFails(c)
  PROVE  /\ \A d \in Callers \ {c} : at'[d] = at[d] /\ todo'[d] = todo[d] /\ msg'[d] = msg[d] /\ reply'[d] = reply[d]
              /\ mine'[d] = mine[d] /\ blurred'[d] = blurred[d]
         /\ Active(c)' => Active(c) /\ (blurred[c] => blurred'[c])
         /\ ~Active(c) => UNCHANGED <<client, open, mine, blamed>> /\ at'[c] = "idle"
  <1> DEFINE Others == \A d \in Callers \ {c} :
               /\ at'[d] = at[d] /\ todo'[d] = todo[d] /\ msg'[d] = msg[d] /\ reply'[d] = reply[d]
               /\ mine'[d] = mine[d] /\ blurred'[d] = blurred[d]
  <1>1. CASE Reset(c) \/ Build(c) \/ StoreSession(c)
    <2>1. Others
      BY <1>1 DEF Reset, Build, StoreSession, history, Types
    <2>2. Active(c) /\ blurred' = blurred
      BY <1>1 DEF Reset, Build, StoreSession, history, Active
    <2> QED BY <2>1, <2>2
  <1>2. CASE Handle(c)
    <2>1. Others
      <3>1. mine' = mine \/ mine' = [mine EXCEPT ![c] = opened + 1]
        BY <1>2 DEF Handle
      <3>2. at' = [at EXCEPT ![c] = "answered"] /\ msg' = [msg EXCEPT ![c] = NoMsg]
            /\ (\A d \in Callers \ {c} : reply'[d] = reply[d]) /\ UNCHANGED <<todo, blurred>>
        BY <1>2 DEF Handle, Types
      <3> QED BY <3>1, <3>2 DEF Types
    <2>2. Active(c) /\ blurred' = blurred
      BY <1>2 DEF Handle, Active
    <2> QED BY <2>1, <2>2
  <1>3. CASE LoginFails(c) \/ StoreNonce(c) \/ Requested(c) \/ Logout(c)
    <2>1. PICK rest \in {<<>>, Tail(todo[c])} : Goes(c, rest)
      BY <1>3 DEF LoginFails, StoreNonce, Requested, Logout
    <2>2. mine' \in {mine, [mine EXCEPT ![c] = 0]} /\ blurred' = blurred /\ msg' = msg
      BY <1>3 DEF LoginFails, StoreNonce, Requested, Logout, GivesUp, history
    <2>3. Others
      <3>1. \A d \in Callers \ {c} : at'[d] = at[d] /\ todo'[d] = todo[d] /\ reply'[d] = reply[d]
        BY <2>1 DEF Goes, Types
      <3> QED BY <2>2, <3>1 DEF Types
    <2>4. Active(c)
      BY <1>3 DEF LoginFails, StoreNonce, Requested, Logout, Active
    <2> QED BY <2>2, <2>3, <2>4
  <1>4. CASE Store(c) \/ Blocked(c)
    <2>1. Ends(c) /\ at[c] = "done" /\ UNCHANGED <<client, open, blamed>>
      BY <1>4 DEF Store, Blocked
    <2>2. Others
      BY <2>1 DEF Ends, Types
    <2>3. at'[c] = "idle" /\ ~Active(c)' /\ mine' = mine
      BY <2>1 DEF Ends, Types, Active
    <2> QED BY <2>1, <2>2, <2>3
  <1>5. CASE CallFails(c)
    <2>1. Others
      BY <1>5 DEF CallFails, Types
    <2>2. Active(c) /\ (blurred[c] => blurred'[c])
      BY <1>5 DEF CallFails, Active, Types
    <2> QED BY <2>1, <2>2
  <1> QED BY <1>1, <1>2, <1>3, <1>4, <1>5 DEF CallStep

LEMMA CallOverlap ==
  ASSUME Types, Overlap, NEW c \in Callers, CallStep(c) \/ CallFails(c)
  PROVE  Overlap'
  <1>1. \A d \in Callers : Active(d)' => Active(d) /\ (blurred[d] => blurred'[d])
    BY OneMoves DEF Active
  <1> QED BY <1>1 DEF Overlap

LEMMA EnterKeeps ==
  ASSUME Types, Overlap, Mine, Alone, Leaks,
         NEW c \in Callers, NEW script \in {HostsCalls, BlockCalls}, Enter(c, script), at[c] = "idle",
         UNCHANGED <<client, open, msg, reply, mine, blamed>>
  PROVE  Overlap' /\ Mine' /\ Alone' /\ Leaks'
  <1> DEFINE others == {d \in Callers : at[d] \notin {"idle", "done"}}
  <1>1. Head(script) = "login"
    BY ScriptStarts
  <1>2. /\ at' = [at EXCEPT ![c] = "reset"] /\ todo' = [todo EXCEPT ![c] = script]
        /\ blurred' = [d \in Callers |-> blurred[d] \/ (others # {} /\ d \in others \cup {c})]
    BY <1>1 DEF Enter
  <1>3. \A d \in Callers \ {c} : at'[d] = at[d] /\ todo'[d] = todo[d]
    BY <1>2 DEF Types
  <1>4. at'[c] = "reset"
    BY <1>2 DEF Types
  <1>5. \A d \in Callers \ {c} : Active(d) => d \in others /\ others # {} /\ blurred'[d] /\ blurred'[c]
    BY <1>2 DEF Active
  <1>6. Overlap'
    <2>1. \A d \in Callers \ {c} : Active(d)' => Active(d)
      BY <1>3 DEF Active
    <2> QED BY <1>5, <2>1 DEF Overlap
  <1>7. Mine'
    BY <1>3, <1>4 DEF Mine, NoSession, Call
  <1>8. Alone'
    <2>1. ASSUME NEW d \in Callers \ {c}, Active(d)', ~blurred'[d] PROVE CleanOf(d)'
      BY <1>3, <1>5, <2>1 DEF Active
    <2>2. CleanOf(c)'
      BY <1>4 DEF CleanOf, Clean
    <2> QED BY <2>1, <2>2 DEF Alone
  <1>9. Leaks'
    BY DEF Leaks
  <1> QED BY <1>6, <1>7, <1>8, <1>9

(* Where a caller under way is in its script.                              *)
LEMMA CallSorts ==
  ASSUME Types, NEW c \in Callers, Active(c)
  PROVE  /\ Call(c) \in {"login", "list", "set", "logout"} /\ Tail(todo[c]) \in Scripts
         /\ Call(c) = "login" => Tail(todo[c]) # <<>> /\ Head(Tail(todo[c])) \in {"list", "set"}
         /\ Call(c) \in {"list", "set"} => Tail(todo[c]) # <<>> /\ Head(Tail(todo[c])) = "logout"
         /\ Call(c) = "logout" /\ Tail(todo[c]) # <<>> => Head(Tail(todo[c])) = "login"
  BY ScriptSteps DEF Types, Call

(* What a caller finds, and whether it has a session, after a step of its  *)
(* own.                                                                    *)
LEMMA ResetClean ==
  ASSUME Types, Mine, NEW c \in Callers, Reset(c)
  PROVE  CleanOf(c)' /\ (NoSession(at[c], Call(c))' => mine'[c] = 0)
  <1>1. at[c] = "reset" /\ at'[c] = "build" /\ Call(c)' = Call(c) /\ Call(c) = "login" /\ mine' = mine
        /\ client' = Pair(0)
    BY DEF Reset, Types, Call, history, Pair
  <1> QED BY <1>1 DEF CleanOf, Clean, Mine, NoSession

LEMMA BuildClean ==
  ASSUME Types, Mine, NEW c \in Callers, Build(c)
  PROVE  (CleanOf(c) => CleanOf(c)') /\ (NoSession(at[c], Call(c))' => mine'[c] = 0)
  <1>1. at[c] = "build" /\ at'[c] = "sent" /\ Call(c)' = Call(c) /\ UNCHANGED <<mine, client, open>> /\ msg'[c] = client
    BY DEF Build, Types, Call, history
  <1> QED BY <1>1 DEF CleanOf, Clean, Mine, NoSession

LEMMA HandleClean ==
  ASSUME Types, Mine, NEW c \in Callers, Handle(c)
  PROVE  (CleanOf(c) => CleanOf(c)') /\ ~NoSession(at[c], Call(c))'
  <1> DEFINE good == IF Call(c) = "login" THEN msg[c].session = 0 /\ msg[c].nonce = 0
                     ELSE msg[c].session \in open /\ msg[c].nonce = msg[c].session
             opening == good /\ Call(c) = "login"
  <1>1. /\ at[c] = "sent" /\ at'[c] = "answered" /\ Call(c)' = Call(c) /\ client' = client
        /\ reply'[c].ok = good /\ (opening => reply'[c].session = opened + 1)
        /\ open' = IF opening THEN open \cup {opened + 1}
                   ELSE IF good /\ Call(c) = "logout" THEN open \ {msg[c].session} ELSE open
        /\ mine'[c] = IF opening THEN opened + 1 ELSE mine[c]
    BY DEF Handle, Types, Call
  <1>2. Call(c) \in {"login", "list", "set", "logout"}
    BY <1>1, CallSorts DEF Active
  <1>3. ASSUME CleanOf(c) PROVE CleanOf(c)'
    <2>1. CASE Call(c) = "login"
      <3>1. msg[c] = Pair(0)
        BY <1>1, <1>3, <2>1 DEF CleanOf, Clean
      <3>2. good /\ opening
        BY <2>1, <3>1 DEF Pair
      <3>3. reply'[c].ok /\ reply'[c].session = mine'[c] /\ mine'[c] \in open'
        BY <1>1, <3>2
      <3> QED BY <1>1, <2>1, <3>3 DEF CleanOf, Clean
    <2>2. CASE Call(c) # "login"
      <3>1. msg[c] = Pair(mine[c]) /\ mine[c] \in open /\ (Call(c) # "logout" => client = Pair(mine[c]))
        BY <1>1, <1>3, <2>2 DEF CleanOf, Clean
      <3>2. good /\ ~opening
        BY <2>2, <3>1 DEF Pair
      <3>3. msg[c].session = mine[c]
        BY <3>1 DEF Pair
      <3> HIDE DEF good, opening
      <3>4. reply'[c].ok /\ mine'[c] = mine[c]
        BY <1>1, <3>2
      <3>5. open' = IF Call(c) = "logout" THEN open \ {mine[c]} ELSE open
        BY <1>1, <3>2, <3>3
      <3> QED BY <1>1, <1>2, <2>2, <3>1, <3>3, <3>4, <3>5 DEF CleanOf, Clean
    <2> QED BY <2>1, <2>2
  <1>4. ~NoSession(at[c], Call(c))'
    BY <1>1 DEF NoSession
  <1> QED BY <1>3, <1>4

LEMMA StoreSessionClean ==
  ASSUME Types, NEW c \in Callers, StoreSession(c)
  PROVE  (CleanOf(c) => CleanOf(c)') /\ ~NoSession(at[c], Call(c))'
  <1>1. /\ at[c] = "answered" /\ at'[c] = "nonce" /\ Call(c)' = Call(c) /\ Call(c) = "login" /\ reply' = reply
        /\ UNCHANGED <<mine, open>> /\ client'.session = reply[c].session
    BY DEF StoreSession, Types, Call, history
  <1> QED BY <1>1 DEF CleanOf, Clean, NoSession

LEMMA StoreNonceClean ==
  ASSUME Types, NEW c \in Callers, StoreNonce(c)
  PROVE  (CleanOf(c) => CleanOf(c)') /\ ~NoSession(at[c], Call(c))'
  <1>1. at[c] = "nonce" /\ Goes(c, Tail(todo[c])) /\ client' = [client EXCEPT !.nonce = reply[c].session]
        /\ UNCHANGED <<mine, open>> /\ client \in [session : None..opened, nonce : None..opened]
    BY DEF StoreNonce, history, Types
  <1>2. Call(c) = "login" /\ Active(c)
    BY <1>1 DEF Types, Active
  <1>3. Tail(todo[c]) # <<>> /\ Head(Tail(todo[c])) \in {"list", "set"} /\ Tail(todo[c]) \in Scripts
    BY <1>2, CallSorts
  <1>4. at'[c] = "build" /\ Call(c)' \in {"list", "set"}
    BY <1>1, <1>3, GoesOn DEF Call
  <1>5. ASSUME CleanOf(c) PROVE client' = Pair(mine[c]) /\ mine[c] \in open
    BY <1>1, <1>5 DEF CleanOf, Clean, Pair
  <1> QED BY <1>1, <1>4, <1>5 DEF CleanOf, Clean, NoSession

LEMMA RequestedClean ==
  ASSUME Types, NEW c \in Callers, Requested(c)
  PROVE  (CleanOf(c) => CleanOf(c)') /\ ~NoSession(at[c], Call(c))'
  <1>1. at[c] = "answered" /\ Goes(c, Tail(todo[c])) /\ Call(c) \in {"list", "set"} /\ UNCHANGED <<client, mine, open>>
    BY DEF Requested, history, Call
  <1>3. Tail(todo[c]) # <<>> /\ Head(Tail(todo[c])) = "logout" /\ Tail(todo[c]) \in Scripts
    BY <1>1, CallSorts DEF Active
  <1>4. at'[c] = "build" /\ Call(c)' = "logout"
    BY <1>1, <1>3, GoesOn DEF Call
  <1> QED BY <1>1, <1>4 DEF CleanOf, Clean, NoSession

(* LoginFails and Logout give the session up.                              *)
LEMMA GivenUp ==
  ASSUME Types, NEW c \in Callers, LoginFails(c) \/ Logout(c)
  PROVE  at'[c] \in {"done", "reset"} /\ mine'[c] = 0
  <1>1. GivesUp(c)
    BY DEF LoginFails, Logout
  <1>2. CASE LoginFails(c)
    <2>1. Goes(c, <<>>) /\ <<>> \in Scripts
      BY <1>2 DEF LoginFails, Scripts
    <2>2. at'[c] \in {"done", "reset"}
      BY <2>1, GoesOn
    <2> QED BY <1>1, <2>2 DEF GivesUp, Types
  <1>3. CASE Logout(c)
    <2>1. Call(c) = "logout" /\ Active(c)
      BY <1>3 DEF Logout, Call, Active
    <2>2. PICK rest \in {<<>>, Tail(todo[c])} : Goes(c, rest)
      BY <1>3 DEF Logout
    <2>3. rest \in Scripts /\ (rest # <<>> => Head(rest) = "login")
      BY <2>1, CallSorts DEF Scripts
    <2>4. at'[c] \in {"done", "reset"}
      BY <2>2, <2>3, GoesOn
    <2> QED BY <1>1, <2>4 DEF GivesUp, Types
  <1> QED BY <1>2, <1>3

LEMMA CallMine ==
  ASSUME Types, Mine, NEW c \in Callers, CallStep(c) \/ CallFails(c)
  PROVE  Mine'
  <1>1. \A d \in Callers \ {c} : NoSession(at[d], Call(d))' => mine'[d] = 0
    BY OneMoves DEF Mine, Call
  <1>2. NoSession(at[c], Call(c))' => mine'[c] = 0
    <2>1. CASE LoginFails(c) \/ Logout(c)
      BY <2>1, GivenUp
    <2>2. CASE Store(c) \/ Blocked(c)
      BY <2>2 DEF Store, Blocked, Ends, Mine, NoSession
    <2>3. CASE CallFails(c)
      BY <2>3 DEF CallFails, NoSession, Types
    <2> QED BY <2>1, <2>2, <2>3, ResetClean, BuildClean, HandleClean, StoreSessionClean, StoreNonceClean,
              RequestedClean DEF CallStep
  <1> QED BY <1>1, <1>2 DEF Mine

LEMMA CallAlone ==
  ASSUME Types, Overlap, Mine, Alone, NEW c \in Callers, CallStep(c) \/ CallFails(c)
  PROVE  Alone'
  <1>1. ASSUME NEW d \in Callers \ {c}, Active(d)', ~blurred'[d] PROVE CleanOf(d)'
    <2>1. Active(d) /\ ~blurred[d]
      BY <1>1, OneMoves DEF Active
    <2>2. ~Active(c)
      BY <2>1 DEF Overlap
    <2>3. UNCHANGED <<client, open>>
      BY <2>2, OneMoves
    <2>4. at'[d] = at[d] /\ todo'[d] = todo[d] /\ msg'[d] = msg[d] /\ reply'[d] = reply[d] /\ mine'[d] = mine[d]
      BY OneMoves
    <2> QED BY <2>1, <2>3, <2>4 DEF Alone, CleanOf, Call
  <1>2. ASSUME Active(c)', ~blurred'[c] PROVE CleanOf(c)'
    <2>1. CleanOf(c)
      BY <1>2, OneMoves DEF Alone
    <2>2. CASE LoginFails(c) \/ Logout(c)
      <3>1. at'[c] \in {"done", "reset"}
        BY <2>2, GivenUp
      <3> QED BY <3>1 DEF CleanOf, Clean
    <2>3. CASE Store(c) \/ Blocked(c)
      BY <1>2, <2>3, OneMoves DEF Store, Blocked, Active
    <2>4. CASE CallFails(c)
      BY <1>2, <2>4 DEF CallFails, Types
    <2> QED BY <2>1, <2>2, <2>3, <2>4, ResetClean, BuildClean, HandleClean, StoreSessionClean, StoreNonceClean,
              RequestedClean DEF CallStep
  <1> QED BY <1>1, <1>2 DEF Alone

LEMMA CallLeaks ==
  ASSUME Types, Mine, Alone, Leaks, NEW c \in Callers, CallStep(c) \/ CallFails(c)
  PROVE  Leaks'
  <1>1. CASE UNCHANGED <<open, mine, blamed>>
    BY <1>1 DEF Leaks
  <1>2. CASE Handle(c)
    <2>1. PICK opens \in BOOLEAN :
            /\ open' \subseteq IF opens THEN open \cup {opened + 1} ELSE open
            /\ mine' = IF opens THEN [mine EXCEPT ![c] = opened + 1] ELSE mine
            /\ opens => at[c] = "sent" /\ Call(c) = "login"
            /\ blamed' = blamed
      BY <1>2 DEF Handle, Call
    <2>2. CASE ~opens
      BY <2>1, <2>2 DEF Leaks
    <2>3. CASE opens
      <3>1. mine[c] = 0 /\ mine'[c] = opened + 1 /\ \A d \in Callers \ {c} : mine'[d] = mine[d]
        BY <2>1, <2>3 DEF Types, Mine, NoSession
      <3>2. ASSUME NEW s \in open' PROVE s \in blamed' \/ \E d \in Callers : mine'[d] = s
        <4>1. CASE s = opened + 1
          BY <3>1, <4>1
        <4>2. CASE s \in open
          <5>1. s # 0
            BY <4>2 DEF Types
          <5> QED BY <2>1, <3>1, <4>2, <5>1 DEF Leaks
        <4> QED BY <2>1, <2>3, <4>1, <4>2
      <3> QED BY <3>2 DEF Leaks
    <2> QED BY <2>2, <2>3
  <1>3. CASE LoginFails(c) \/ Logout(c)
    <2>1. GivesUp(c) /\ open' = open
      BY <1>3 DEF LoginFails, Logout
    <2>2. mine'[c] = 0 /\ \A d \in Callers \ {c} : mine'[d] = mine[d]
      BY <2>1 DEF GivesUp, Types
    <2>3. mine[c] \in open => mine[c] \in blamed'
      <3>1. CASE blurred[c]
        <4>1. 0 \notin open
          BY DEF Types
        <4> QED BY <2>1, <3>1, <4>1 DEF GivesUp
      <3>2. CASE ~blurred[c]
        <4>1. at[c] = "answered" /\ (Call(c) = "login" => ~reply[c].ok) /\ Call(c) \in {"login", "logout"}
          BY <1>3 DEF LoginFails, Logout, Call
        <4>2. CleanOf(c)
          BY <3>2, <4>1 DEF Alone, Active
        <4> QED BY <4>1, <4>2 DEF CleanOf, Clean
      <3> QED BY <3>1, <3>2
    <2>4. blamed \subseteq blamed'
      BY <2>1 DEF GivesUp
    <2>5. ASSUME NEW s \in open' PROVE s \in blamed' \/ \E d \in Callers : mine'[d] = s
      <3>1. s \in open /\ (s \in blamed \/ \E d \in Callers : mine[d] = s)
        BY <2>1 DEF Leaks
      <3> QED BY <2>2, <2>3, <2>4, <3>1
    <2> QED BY <2>5 DEF Leaks
  <1>4. Reset(c) \/ Build(c) \/ StoreSession(c) \/ StoreNonce(c) \/ Requested(c) \/ Store(c) \/ Blocked(c) \/ CallFails(c)
        => UNCHANGED <<open, mine, blamed>>
    BY DEF Reset, Build, StoreSession, StoreNonce, Requested, Store, Blocked, Ends, CallFails, history
  <1> QED BY <1>1, <1>2, <1>3, <1>4 DEF CallStep

(* Every session of the router is blamed or is the session of a caller,    *)
(* and a caller that is not blurred finds its own session.                 *)
RouterInv == Types /\ Overlap /\ Mine /\ Alone /\ Leaks

LEMMA InitRouter == Init => RouterInv
  <1> SUFFICES ASSUME Init PROVE RouterInv
    OBVIOUS
  <1>1. \A c \in Callers : at[c] = "idle" /\ mine[c] = 0
    BY DEF Init
  <1>2. open = {}
    BY DEF Init
  <1> QED BY <1>1, <1>2, InitTypes DEF RouterInv, Overlap, Mine, Alone, Leaks, Active

LEMMA StepRouter == RouterInv /\ [Next]_vars => RouterInv'
  <1> SUFFICES ASSUME RouterInv, [Next]_vars PROVE RouterInv'
    OBVIOUS
  <1> USE DEF RouterInv
  <1>1. ASSUME NEW c \in Callers, CallStep(c) \/ CallFails(c)
        PROVE  Overlap' /\ Mine' /\ Alone' /\ Leaks'
    BY <1>1, CallOverlap, CallMine, CallAlone, CallLeaks
  <1>2. ASSUME NEW c \in Callers, Refresh(c) \/ BlockDevice(c)
        PROVE  Overlap' /\ Mine' /\ Alone' /\ Leaks'
    <2>1. CASE Refresh(c)
      BY <2>1, EnterKeeps DEF Refresh
    <2>2. CASE BlockDevice(c)
      BY <2>2, EnterKeeps DEF BlockDevice
    <2> QED BY <1>2, <2>1, <2>2
  <1>3. ASSUME Tick \/ UNCHANGED vars
        PROVE  Overlap' /\ Mine' /\ Alone' /\ Leaks'
    <2>1. UNCHANGED <<client, open, at, todo, msg, reply, mine, blurred, blamed>>
      BY <1>3 DEF Tick, vars, local, history
    <2>2. Overlap' /\ Leaks'
      BY <2>1 DEF Overlap, Leaks, Active
    <2>3. Mine'
      BY <2>1 DEF Mine, Call
    <2>4. Alone'
      <3> SUFFICES ASSUME NEW c \in Callers, Active(c)', ~blurred'[c] PROVE CleanOf(c)'
        BY DEF Alone
      <3>1. Active(c) /\ ~blurred[c]
        BY <2>1 DEF Active
      <3>2. Call(c)' = Call(c)
        BY <2>1 DEF Call
      <3>3. CleanOf(c)
        BY <3>1 DEF Alone
      <3> QED BY <2>1, <3>2, <3>3 DEF CleanOf
    <2> QED BY <2>2, <2>3, <2>4
  <1> QED BY <1>1, <1>2, <1>3, StepTypes DEF Next

LEMMA TypesAreRight == Types => TypeOK
  <1>1. Scripts \subseteq Seq({"login", "list", "set", "logout"})
    BY ScriptSteps
  <1> QED BY <1>1 DEF Types, TypeOK

(* For any callers, times and bounds, everything keeps its type, and a     *)
(* session that stays open on the router was opened by an operation that   *)
(* overlapped another one, or one of whose HTTP calls failed               *)
(* (sagemcom.go:109).                                                      *)
THEOREM SessionsLeakOnlyByOverlapHolds == Spec => []SessionsLeakOnlyByOverlap
  <1>1. RouterInv => SessionsLeakOnlyByOverlap
    BY TypesAreRight DEF RouterInv, Leaks, SessionsLeakOnlyByOverlap
  <1> QED BY <1>1, InitRouter, StepRouter, PTL DEF Spec

(* An operation that ran alone is never refused, whatever the operations   *)
(* before it left in the fields of the Client (sagemcom.go:164).           *)
THEOREM RefusedOnlyByOverlapHolds == Spec => []RefusedOnlyByOverlap
  <1>1. RouterInv => RefusedOnlyByOverlap
    <2> SUFFICES ASSUME RouterInv, NEW c \in Callers, at[c] = "answered", ~reply[c].ok, ~blurred[c]
                 PROVE  FALSE
      BY DEF RefusedOnlyByOverlap, RouterInv, Types
    <2>1. Active(c) /\ CleanOf(c)
      BY DEF RouterInv, Alone, Active
    <2>2. Call(c) \in {"login", "list", "set", "logout"}
      BY <2>1, CallSorts DEF RouterInv
    <2> QED BY <2>1, <2>2 DEF CleanOf, Clean
  <1> QED BY <1>1, InitRouter, StepRouter, PTL DEF Spec
================================================================================
