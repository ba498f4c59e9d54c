------------------------------- MODULE RouterNet -------------------------------
(***************************************************************************)
(* The client of the home router (router/sagemcom.go) and the cache of     *)
(* network information in front of it (handlers/netinfo.go).               *)
(*                                                                         *)
(* All goroutines share one Client, whose session id and server nonce are  *)
(* plain fields. A list of hosts, or the write of a value, logs in, makes  *)
(* its request and logs out: three HTTP calls, each signed with what the   *)
(* fields hold when it is built. The status handlers and the ticker look   *)
(* into the cache under a lock, but refresh it outside; a request to block *)
(* a device does not go through the cache.                                 *)
(*                                                                         *)
(* The fields are plain memory. login clears them and logout forgets them  *)
(* in one step each, and request reads them in one: a request that mixes   *)
(* the fields of two sessions is refused whichever of them it mixes. The   *)
(* request number is left out for the same reason: no answer depends on it *)
(* but a refusal. login stores what it got in two steps.                   *)
(*                                                                         *)
(* Abstractions: the nonce is named by the session it belongs to; the      *)
(* password is right; what the router lists is named by the time at which  *)
(* it answered. The router is modelled from what the client expects of it. *)
(***************************************************************************)
EXTENDS Integers, Sequences, FiniteSets

CONSTANTS
  Readers,     (* goroutines that ask for the network information             *)
  Blockers,    (* requests that block a device                                *)
  ByUid,       (* whether the configured path names the device by its uid     *)
  TTL,         (* netCacheTTL                                                 *)
  MaxFetch,    (* the time one refresh may take, by the timeouts of the calls *)
  MaxTime,     (* bound on the clock                                          *)
  MaxCalls,    (* bound on the HTTP calls of the client                       *)
  MaxFaults    (* bound on the HTTP calls that fail                           *)

Callers == Readers \cup Blockers

ASSUME RouterAssumption ==
  /\ Readers \cap Blockers = {} /\ ByUid \in BOOLEAN
  /\ TTL \in Nat /\ MaxFetch \in Nat /\ MaxTime \in Nat /\ MaxCalls \in Nat /\ MaxFaults \in Nat

VARIABLES
  clock,
  cache,       (* when it was stored, and the time its content was read       *)
  client,      (* the fields of the shared Client                             *)
  open,        (* the sessions the router has open                            *)
  opened,      (* how many it has opened                                      *)
  at,          (* where each caller is                                        *)
  todo,        (* the HTTP calls it still has to make                         *)
  msg,         (* the request it has built                                    *)
  reply,       (* the answer of the router                                    *)
  got,         (* the time of the list it has read, or None                   *)
  start,       (* when it began                                               *)
  calls,       (* the HTTP calls of the operations begun so far               *)
  failures,    (* the failed HTTP calls so far                                *)
  mine,        (* history: the session its login opened                       *)
  blurred,     (* history: its calls overlapped others, or one failed         *)
  blamed       (* history: the sessions of blurred calls                      *)

history == <<mine, blurred, blamed>>
local == <<at, todo, msg, reply, got, start>>
vars == <<clock, cache, client, open, opened, local, calls, failures, history>>

None == -1
Never == -1

(* The requests of Hosts, of SetValue, and of a BlockDevice.               *)
HostsCalls == <<"login", "list", "logout">>
SetValueCalls == <<"login", "set", "logout">>
BlockCalls == IF ByUid THEN HostsCalls \o SetValueCalls ELSE SetValueCalls

NoMsg == [session |-> None, nonce |-> None]
NoReply == [ok |-> FALSE, session |-> None, read |-> None]

Init ==
  /\ clock = 0 /\ cache = [at |-> Never, read |-> Never]
  /\ client = [session |-> 0, nonce |-> 0]
  /\ open = {} /\ opened = 0 /\ calls = 0 /\ failures = 0 /\ blamed = {}
  /\ at = [c \in Callers |-> "idle"] /\ todo = [c \in Callers |-> <<>>]
  /\ msg = [c \in Callers |-> NoMsg] /\ reply = [c \in Callers |-> NoReply]
  /\ got = [c \in Callers |-> None] /\ start = [c \in Callers |-> 0]
  /\ mine = [c \in Callers |-> 0] /\ blurred = [c \in Callers |-> FALSE]

-----------------------------------------------------------------------------
(* Mutant: a result is still served one unit of time past its lifetime.    *)
StaleLate == cache.at = Never \/ clock - cache.at > TTL + 1

Stale == cache.at = Never \/ clock - cache.at > TTL

(* A caller begins: whoever is under way as well can disturb it.           *)
Enter(c, script) ==
  LET others == {d \in Callers : at[d] \notin {"idle", "done"}} IN
  /\ calls' = calls + Len(script) /\ calls' <= MaxCalls
  /\ at' = [at EXCEPT ![c] = IF Head(script) = "login" THEN "reset" ELSE "build"]
  /\ todo' = [todo EXCEPT ![c] = script]
  /\ start' = [start EXCEPT ![c] = IF c \in Readers THEN clock ELSE 0]
  /\ blurred' = [d \in Callers |-> blurred[d] \/ (others # {} /\ d \in others \cup {c})]

(* The lock is held to look at the cache only: what is fresh is served     *)
(* from it, which changes nothing, and otherwise a refresh begins.         *)
Refresh(c) ==
  /\ c \in Readers /\ at[c] = "idle" /\ Stale
  /\ Enter(c, HostsCalls)
  /\ UNCHANGED <<clock, cache, client, open, opened, msg, reply, got, failures, mine, blamed>>

BlockDevice(c) ==
  /\ c \in Blockers /\ at[c] = "idle"
  /\ Enter(c, BlockCalls)
  /\ UNCHANGED <<clock, cache, client, open, opened, msg, reply, got, failures, mine, blamed>>

(* Mutant: login forgets the nonce, but not the session.                   *)
ResetNonceOnly(c) ==
  /\ at[c] = "reset"
  /\ client' = [client EXCEPT !.nonce = 0]
  /\ at' = [at EXCEPT ![c] = "build"]
  /\ UNCHANGED <<clock, cache, open, opened, todo, msg, reply, got, start, calls, failures, history>>

(* login forgets the session the fields hold, whoever is using it.         *)
Reset(c) ==
  /\ at[c] = "reset"
  /\ client' = [session |-> 0, nonce |-> 0]
  /\ at' = [at EXCEPT ![c] = "build"]
  /\ UNCHANGED <<clock, cache, open, opened, todo, msg, reply, got, start, calls, failures, history>>

(* Mutant: logout clears the fields before it makes its request.           *)
BuildLogoutCleared(c) ==
  /\ at[c] = "build"
  /\ msg' = [msg EXCEPT ![c] = IF Head(todo[c]) = "logout" THEN [session |-> -1, nonce |-> 0] ELSE client]
  /\ at' = [at EXCEPT ![c] = "sent"]
  /\ UNCHANGED <<clock, cache, client, open, opened, todo, reply, got, start, calls, failures, history>>

(* request signs with the fields as they are now.                          *)
Build(c) ==
  /\ at[c] = "build"
  /\ msg' = [msg EXCEPT ![c] = client]
  /\ at' = [at EXCEPT ![c] = "sent"]
  /\ UNCHANGED <<clock, cache, client, open, opened, todo, reply, got, start, calls, failures, history>>

(* The list a caller gets; when it was read matters to those who store it. *)
ListedAt(c) == IF c \in Readers THEN clock ELSE 0

(* The router: a login without a session opens one; other requests need an *)
(* open session and the nonce that belongs to it.                          *)
Handle(c) ==
  LET call == Head(todo[c])
      m == msg[c]
      good == IF call = "login" THEN m.session = 0 /\ m.nonce = 0
                                ELSE m.session \in open /\ m.nonce = m.session
      opens == good /\ call = "login"
  IN  /\ at[c] = "sent"
      /\ opened' = IF opens THEN opened + 1 ELSE opened
      /\ open' = IF opens THEN open \cup {opened + 1}
                 ELSE IF good /\ call = "logout" THEN open \ {m.session} ELSE open
      /\ reply' = [reply EXCEPT ![c] = [ok |-> good,
                     session |-> IF opens THEN opened + 1 ELSE None,
                     read |-> IF good /\ call = "list" THEN ListedAt(c) ELSE None]]
      /\ msg' = [msg EXCEPT ![c] = NoMsg]
      /\ mine' = IF opens THEN [mine EXCEPT ![c] = opened + 1] ELSE mine
      /\ at' = [at EXCEPT ![c] = "answered"]
      /\ UNCHANGED <<clock, cache, client, todo, got, start, calls, failures, blurred, blamed>>

(* An HTTP call fails before the router has it, or after.                  *)
CallFails(c) ==
  /\ at[c] \in {"sent", "answered"} /\ failures < MaxFaults
  /\ failures' = failures + 1
  /\ reply' = [reply EXCEPT ![c] = NoReply] /\ msg' = [msg EXCEPT ![c] = NoMsg]
  /\ blurred' = [blurred EXCEPT ![c] = TRUE]
  /\ at' = [at EXCEPT ![c] = "answered"]
  /\ UNCHANGED <<clock, cache, client, open, opened, todo, got, start, calls, mine, blamed>>

(* What a caller does with the remaining calls: the next one, or the end.  *)
Goes(c, rest) ==
  /\ reply' = [reply EXCEPT ![c] = NoReply]
  /\ todo' = [todo EXCEPT ![c] = rest]
  /\ at' = [at EXCEPT ![c] = IF rest = <<>> THEN "done"
                             ELSE IF Head(rest) = "login" THEN "reset" ELSE "build"]

(* A session is given up: it is blamed on the overlap if there was one.    *)
GivesUp(c) ==
  /\ blamed' = IF blurred[c] THEN blamed \cup ({mine[c]} \ {0}) ELSE blamed
  /\ mine' = [mine EXCEPT ![c] = 0]
  /\ UNCHANGED blurred

(* login without a session in the reply ends the operation.                *)
LoginFails(c) ==
  /\ at[c] = "answered" /\ Head(todo[c]) = "login" /\ ~reply[c].ok
  /\ Goes(c, <<>>) /\ GivesUp(c)
  /\ UNCHANGED <<clock, cache, client, open, opened, msg, got, start, calls, failures>>

(* The session id and the nonce are stored one after the other.            *)
StoreSession(c) ==
  /\ at[c] = "answered" /\ Head(todo[c]) = "login" /\ reply[c].ok
  /\ client' = [client EXCEPT !.session = reply[c].session]
  /\ at' = [at EXCEPT ![c] = "nonce"]
  /\ UNCHANGED <<clock, cache, open, opened, todo, msg, reply, got, start, calls, failures, history>>

StoreNonce(c) ==
  /\ at[c] = "nonce"
  /\ client' = [client EXCEPT !.nonce = reply[c].session]
  /\ Goes(c, Tail(todo[c]))
  /\ UNCHANGED <<clock, cache, open, opened, msg, got, start, calls, failures, history>>

(* The request of the operation is answered, well or not: logout follows.  *)
Requested(c) ==
  /\ at[c] = "answered" /\ Head(todo[c]) \in {"list", "set"}
  /\ got' = [got EXCEPT ![c] = IF Head(todo[c]) = "list" /\ reply[c].ok THEN reply[c].read ELSE @]
  /\ Goes(c, Tail(todo[c]))
  /\ UNCHANGED <<clock, cache, client, open, opened, msg, start, calls, failures, history>>

(* The answer of logout is not looked at. Without a list, or when the      *)
(* device is not on it, there is no uid and nothing to set.                *)
Logout(c) ==
  /\ at[c] = "answered" /\ Head(todo[c]) = "logout"
  /\ client' = [session |-> -1, nonce |-> 0]
  /\ \E listed \in BOOLEAN :
       Goes(c, IF c \in Blockers /\ ~(listed /\ got[c] # None) THEN <<>> ELSE Tail(todo[c]))
  /\ GivesUp(c)
  /\ UNCHANGED <<clock, cache, open, opened, msg, got, start, calls, failures>>

(* The caller is through, and may ask again.                               *)
Ends(c) ==
  /\ at' = [at EXCEPT ![c] = "idle"]
  /\ got' = [got EXCEPT ![c] = None] /\ start' = [start EXCEPT ![c] = 0]
  /\ blurred' = [blurred EXCEPT ![c] = FALSE]
  /\ UNCHANGED <<todo, msg, reply, mine>>

(* Without a list from the router the neighbours are read by arp. The lock *)
(* is taken again and the result stored, however old it is.                *)
Store(c) ==
  /\ at[c] = "done" /\ c \in Readers
  /\ cache' = [at |-> clock, read |-> IF got[c] = None THEN clock ELSE got[c]]
  /\ Ends(c)
  /\ UNCHANGED <<clock, client, open, opened, calls, failures, blamed>>

Blocked(c) ==
  /\ at[c] = "done" /\ c \in Blockers
  /\ Ends(c)
  /\ UNCHANGED <<clock, cache, client, open, opened, calls, failures, blamed>>

(* Time passes, but no refresh takes longer than its calls may.            *)
Tick ==
  /\ clock < MaxTime /\ \A c \in Readers : at[c] = "idle" \/ clock - start[c] < MaxFetch
  /\ clock' = clock + 1
  /\ UNCHANGED <<cache, client, open, opened, local, calls, failures, history>>

CallStep(c) ==
  \/ Reset(c) \/ Build(c) \/ Handle(c) \/ LoginFails(c) \/ StoreSession(c) \/ StoreNonce(c)
  \/ Requested(c) \/ Logout(c) \/ Store(c) \/ Blocked(c)

Next ==
  \/ \E c \in Callers : Refresh(c) \/ BlockDevice(c) \/ CallStep(c) \/ CallFails(c)
  \/ Tick

Spec == Init /\ [][Next]_vars

-----------------------------------------------------------------------------
Places == {"idle", "reset", "build", "sent", "answered", "nonce", "done"}

(* Times, sessions and places stay in their types, and the sessions that   *)
(* are open, stored or presented have been opened by the router.           *)
TypeOK ==
  /\ clock \in 0..MaxTime /\ cache \in [at : Never..MaxTime, read : Never..MaxTime]
  /\ opened \in Nat /\ open \subseteq 1..opened /\ blamed \subseteq 1..opened
  /\ client \in [session : None..opened, nonce : None..opened]
  /\ at \in [Callers -> Places] /\ todo \in [Callers -> Seq({"login", "list", "set", "logout"})]
  /\ msg \in [Callers -> [session : None..opened, nonce : None..opened]]
  /\ reply \in [Callers -> [ok : BOOLEAN, session : None..opened, read : None..MaxTime]]
  /\ got \in [Callers -> None..MaxTime] /\ start \in [Callers -> 0..MaxTime]
  /\ calls \in 0..MaxCalls /\ failures \in 0..MaxFaults
  /\ mine \in [Callers -> 0..opened] /\ blurred \in [Callers -> BOOLEAN]

(* The client closes every session it opens: one that stays open on the    *)
(* router, which has few, was opened by an operation during which another  *)
(* goroutine used the same Client, or an HTTP call failed.                 *)
SessionsLeakOnlyByOverlap ==
  TypeOK /\ \A s \in open : s \in blamed \/ \E c \in Callers : mine[c] = s

(* What the cache serves was read at most its lifetime and the duration of *)
(* a refresh ago, even when two refreshes overlap and the older result is  *)
(* stored last (netinfo.go:111).                                           *)
ServedIsRecent == ~Stale => clock - cache.read <= TTL + MaxFetch

(* An operation that ran alone is never refused, whatever the operations   *)
(* before it left in the fields: login starts from a clean Client.         *)
RefusedOnlyByOverlap == \A c \in Callers : at[c] = "answered" /\ ~reply[c].ok => blurred[c]
===============================================================================
