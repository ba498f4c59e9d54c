------------------------------- MODULE WsHubProofs -------------------------------
(***************************************************************************)
(* Theorems about WsHub, for any users, connections, rooms, messages and   *)
(* any capacity of the channels.                                           *)
(***************************************************************************)
EXTENDS WsHub, SequenceTheorems, TLAPS

(* The life of a connection: the run loop gets it once from each channel,  *)
(* and nothing is broadcast to it before it is in the map.                 *)
ConnLife ==
  \A k \in Conns :
    /\ cpc[k] \in {"new", "registering"} => hub[k] = "out"
    /\ cpc[k] \in {"reading", "unregistering"} => hub[k] \in {"adding", "in"}
    /\ hub[k] \in {"out", "adding"} =>
         /\ queued[k] = <<>> /\ shown[k] = <<>> /\ dropped[k] = {}
         /\ \A m \in Messages : k \notin aim[m]

(* A message is broadcast once, to connections that have its room.         *)
MessageLife ==
  \A m \in Messages :
    /\ npc[m] # "none" => mpc[m] = "sent"
    /\ mpc[m] = "new" => aim[m] = {}
    /\ mpc[m] # "sending" => todo[m] = {}
    /\ todo[m] \subseteq aim[m]
    /\ \A x \in prior[m] : mpc[x] = "sent"
    /\ \A k \in aim[m] : room[m] \in access[k]

(* While a message is on its way to be checked, the clients of its room    *)
(* are those it was broadcast to and those who joined late.                *)
AimedOrLate ==
  \A m \in Messages : \A k \in clients :
    room[m] \in access[k] =>
      /\ mpc[m] = "sending" => k \in aim[m]
      /\ mpc[m] = "sent" /\ npc[m] = "none" => k \in aim[m]
      /\ npc[m] = "started" => k \in aim[m] \/ Owner[k] \in late[m]

(* The goroutine is started when the broadcast is over.                    *)
Started == \A m \in Messages : mpc[m] = "sent" => npc[m] # "none"

Inv == TypeOK /\ ConnLife /\ MessageLife /\ AimedOrLate /\ Started

-----------------------------------------------------------------------------
LEMMA InitInv == Init => Inv
  <1> SUFFICES ASSUME Init PROVE Inv
    OBVIOUS
  <1> USE WsAssumption DEF Init
  <1>1. TypeOK
    BY DEF TypeOK
  <1>2. ConnLife
    BY DEF ConnLife
  <1>3. MessageLife
    BY DEF MessageLife
  <1>4. AimedOrLate
    BY DEF AimedOrLate, clients
  <1>5. Started
    BY DEF Started
  <1> QED BY <1>1, <1>2, <1>3, <1>4, <1>5 DEF Inv

LEMMA TypeStep == TypeOK /\ [Next]_vars => TypeOK'
  <1> SUFFICES ASSUME TypeOK, [Next]_vars PROVE TypeOK'
    OBVIOUS
  <1> USE DEF TypeOK, connVars, chanVars, castVars, noteVars
  <1>1. ASSUME NEW k \in Conns, Connect(k) PROVE TypeOK'
    BY <1>1 DEF Connect
  <1>2. ASSUME NEW k \in Conns, PeerGone(k) \/ ReadFails(k) PROVE TypeOK'
    <2>1. CASE PeerGone(k)
      <3>1. socket' \in [Conns -> BOOLEAN]
        BY <2>1 DEF PeerGone
      <3> QED BY <2>1, <3>1 DEF PeerGone
    <2>2. CASE ReadFails(k)
      <3>1. cpc' \in [Conns -> {"new", "registering", "reading", "unregistering", "off"}]
        BY <2>2 DEF ReadFails
      <3> QED BY <2>2, <3>1 DEF ReadFails
    <2> QED BY <1>2, <2>1, <2>2
  <1>3. ASSUME NEW k \in Conns, TakeRegister(k) \/ TakeUnregister(k) \/ Remove(k) PROVE TypeOK'
    <2>1. hub' \in [Conns -> {"out", "adding", "in", "removing", "gone"}]
      BY <1>3 DEF TakeRegister, TakeUnregister, Remove
    <2>2. cpc' \in [Conns -> {"new", "registering", "reading", "unregistering", "off"}]
      <3>1. cpc' \in {cpc, [cpc EXCEPT ![k] = "reading"], [cpc EXCEPT ![k] = "off"]}
        BY <1>3 DEF TakeRegister, TakeUnregister, Remove
      <3> QED BY <3>1
    <2>3. wpc' \in [Conns -> {"none", "writing", "ended"}]
      BY <1>3 DEF TakeRegister, TakeUnregister, Remove
    <2>4. UNCHANGED <<rooms, access, socket, chanVars, room, castVars, noteVars>>
      BY <1>3 DEF TakeRegister, TakeUnregister, Remove
    <2> QED BY <2>1, <2>2, <2>3, <2>4
  <1>4. ASSUME NEW k \in Conns, Add(k) PROVE TypeOK'
    <2>1. late' \in [Messages -> SUBSET Users]
      <3>1. Owner[k] \in Users
        BY WsAssumption
      <3>2. \A m \in Messages : late[m] \subseteq Users
        OBVIOUS
      <3>3. late' = [m \in Messages |-> IF npc[m] = "started" /\ room[m] \in access[k]
                                        THEN late[m] \cup {Owner[k]} ELSE late[m]]
        BY <1>4 DEF Add
      <3>4. ASSUME NEW m \in Messages PROVE late'[m] \in SUBSET Users
        BY <3>1, <3>2, <3>3
      <3> QED BY <3>3, <3>4
    <2>2. hub' \in [Conns -> {"out", "adding", "in", "removing", "gone"}]
      BY <1>4 DEF Add
    <2> QED BY <1>4, <2>1, <2>2 DEF Add
  <1>5. ASSUME NEW k \in Conns, WriteFrame(k) PROVE TypeOK'
    <2>1. /\ queued' = [queued EXCEPT ![k] = <<>>]
          /\ UNCHANGED <<rooms, hub, access, cpc, socket, dropped, room, castVars, noteVars>>
      BY <1>5 DEF WriteFrame
    <2>2. queued' \in [Conns -> Seq(Messages)] /\ \A c \in Conns : Len(queued'[c]) <= SendCap
      BY <2>1, WsAssumption
    <2>3. shown[k] \o queued[k] \in Seq(Messages)
      OBVIOUS
    <2>4. shown' \in [Conns -> Seq(Messages)]
      <3>1. shown' \in {shown, [shown EXCEPT ![k] = @ \o queued[k]]}
        BY <1>5 DEF WriteFrame
      <3> QED BY <2>3, <3>1
    <2>5. wpc' \in [Conns -> {"none", "writing", "ended"}]
      <3>1. wpc' \in {wpc, [wpc EXCEPT ![k] = "ended"]}
        BY <1>5 DEF WriteFrame
      <3> QED BY <3>1
    <2> QED BY <2>1, <2>2, <2>4, <2>5
  <1>6. ASSUME NEW k \in Conns, WriteEnds(k) PROVE TypeOK'
    BY <1>6 DEF WriteEnds
  <1>7. ASSUME NEW r \in Rooms, CreateRoom(r) PROVE TypeOK'
    BY <1>7 DEF CreateRoom
  <1>8. ASSUME NEW m \in Messages, SendMessage(m) PROVE TypeOK'
    <2>1. Audience(m) \in SUBSET Conns
      BY DEF Audience, clients
    <2>2. {x \in Messages : mpc[x] = "sent"} \in SUBSET Messages
      OBVIOUS
    <2> QED BY <1>8, <2>1, <2>2 DEF SendMessage
  <1>9. ASSUME NEW m \in Messages, NEW k \in Conns, Send(m, k) PROVE TypeOK'
    <2>1. queued' \in [Conns -> Seq(Messages)] /\ \A c \in Conns : Len(queued'[c]) <= SendCap
      <3>1. Append(queued[k], m) \in Seq(Messages) /\ Len(Append(queued[k], m)) = Len(queued[k]) + 1
            /\ Len(queued[k]) \in Nat /\ SendCap \in Nat
        BY WsAssumption
      <3>2. queued' = queued \/ (Len(queued[k]) < SendCap /\ queued' = [queued EXCEPT ![k] = Append(@, m)])
        BY <1>9 DEF Send
      <3>3. CASE queued' = queued
        BY <3>3
      <3>4. CASE Len(queued[k]) < SendCap /\ queued' = [queued EXCEPT ![k] = Append(@, m)]
        <4>1. queued' \in [Conns -> Seq(Messages)]
          BY <3>1, <3>4
        <4>2. ASSUME NEW c \in Conns PROVE Len(queued'[c]) <= SendCap
          <5>1. CASE c = k
            BY <3>1, <3>4, <5>1
          <5>2. CASE c # k
            BY <3>4, <5>2
          <5> QED BY <5>1, <5>2
        <4> QED BY <4>1, <4>2
      <3> QED BY <3>2, <3>3, <3>4
    <2>2. dropped' \in [Conns -> SUBSET Messages]
      <3>1. dropped' \in {dropped, [dropped EXCEPT ![k] = @ \cup {m}]}
        BY <1>9 DEF Send
      <3>2. dropped[k] \cup {m} \in SUBSET Messages
        OBVIOUS
      <3> QED BY <3>1, <3>2
    <2>3. todo' \in [Messages -> SUBSET Conns]
      <3>1. todo' = [todo EXCEPT ![m] = @ \ {k}]
        BY <1>9 DEF Send
      <3>2. todo[m] \ {k} \in SUBSET Conns
        OBVIOUS
      <3> QED BY <3>1, <3>2
    <2>4. UNCHANGED <<rooms, hub, connVars, shown, room, mpc, aim, prior, noteVars>>
      BY <1>9 DEF Send
    <2> QED BY <2>1, <2>2, <2>3, <2>4
  <1>10. ASSUME NEW m \in Messages, Finish(m) PROVE TypeOK'
    BY <1>10 DEF Finish
  <1>11. ASSUME NEW m \in Messages, NotifyOffline(m) PROVE TypeOK'
    <2>1. npc' \in {[npc EXCEPT ![m] = "failed"], [npc EXCEPT ![m] = "done"]}
      BY <1>11 DEF NotifyOffline
    <2>2. npc' \in [Messages -> {"none", "started", "done", "failed"}]
      BY <2>1
    <2>3. PICK pushed \in SUBSET Users : notified' \in {notified, [notified EXCEPT ![m] = pushed]}
      BY <1>11 DEF NotifyOffline
    <2>4. notified' \in [Messages -> SUBSET Users]
      BY <2>3
    <2>5. UNCHANGED <<rooms, hub, connVars, chanVars, room, castVars, late>>
      BY <1>11 DEF NotifyOffline
    <2> QED BY <2>2, <2>4, <2>5
  <1>12. CASE UNCHANGED vars
    BY <1>12 DEF vars
  <1> QED BY <1>1, <1>2, <1>3, <1>4, <1>5, <1>6, <1>7, <1>8, <1>9, <1>10, <1>11, <1>12
          DEF Next, HubStep, PumpStep, ChatStep

LEMMA ConnStep == Inv /\ [Next]_vars => ConnLife'
  <1> SUFFICES ASSUME Inv, [Next]_vars PROVE ConnLife'
    OBVIOUS
  <1> USE DEF Inv, TypeOK, ConnLife, connVars, chanVars, castVars, noteVars
  <1>1. ASSUME NEW k \in Conns, Connect(k) PROVE ConnLife'
    BY <1>1 DEF Connect
  <1>2. ASSUME NEW k \in Conns, PeerGone(k) \/ ReadFails(k) \/ WriteEnds(k) PROVE ConnLife'
    BY <1>2 DEF PeerGone, ReadFails, WriteEnds
  <1>3. ASSUME NEW k \in Conns, HubStep(k) PROVE ConnLife'
    BY <1>3 DEF HubStep, TakeRegister, Add, TakeUnregister, Remove, WriterWaits
  <1>4. ASSUME NEW k \in Conns, WriteFrame(k) PROVE ConnLife'
    <2>1. hub[k] \notin {"out", "adding"}
      BY <1>4 DEF WriteFrame
    <2> QED BY <1>4, <2>1 DEF WriteFrame
  <1>5. ASSUME NEW r \in Rooms, CreateRoom(r) PROVE ConnLife'
    BY <1>5 DEF CreateRoom
  <1>6. ASSUME NEW m \in Messages, Finish(m) \/ NotifyOffline(m) PROVE ConnLife'
    BY <1>6 DEF Finish, NotifyOffline
  <1>7. ASSUME NEW m \in Messages, SendMessage(m) PROVE ConnLife'
    BY <1>7 DEF SendMessage, Audience, clients
  <1>8. ASSUME NEW m \in Messages, NEW k \in Conns, Send(m, k) PROVE ConnLife'
    <2>1. hub[k] \notin {"out", "adding"}
      BY <1>8 DEF Send, MessageLife
    <2> QED BY <1>8, <2>1 DEF Send
  <1>9. CASE UNCHANGED vars
    BY <1>9 DEF vars
  <1> QED BY <1>1, <1>2, <1>3, <1>4, <1>5, <1>6, <1>7, <1>8, <1>9 DEF Next, PumpStep, ChatStep

LEMMA MessageStep == Inv /\ [Next]_vars => MessageLife' /\ Started'
  <1> SUFFICES ASSUME Inv, [Next]_vars PROVE MessageLife' /\ Started'
    OBVIOUS
  <1> USE DEF Inv, TypeOK, MessageLife, Started, connVars, chanVars, castVars, noteVars
  <1>1. ASSUME NEW k \in Conns, Connect(k) PROVE MessageLife' /\ Started'
    <2>1. \A m \in Messages : k \notin aim[m]
      BY <1>1 DEF Connect, ConnLife
    <2> QED BY <1>1, <2>1 DEF Connect
  <1>2. ASSUME NEW k \in Conns, PeerGone(k) \/ HubStep(k) \/ PumpStep(k) PROVE MessageLife' /\ Started'
    BY <1>2 DEF PeerGone, HubStep, TakeRegister, Add, TakeUnregister, Remove, PumpStep, ReadFails,
                WriteFrame, WriteEnds
  <1>3. ASSUME NEW r \in Rooms, CreateRoom(r) PROVE MessageLife' /\ Started'
    BY <1>3 DEF CreateRoom
  <1>4. ASSUME NEW m \in Messages, SendMessage(m) PROVE MessageLife' /\ Started'
    <2>1. \A k \in Audience(m) : room[m] \in access[k]
      BY DEF Audience
    <2>2. \A x \in Messages : m \notin prior[x]
      BY <1>4 DEF SendMessage
    <2> QED BY <1>4, <2>1, <2>2 DEF SendMessage
  <1>5. ASSUME NEW m \in Messages, NEW k \in Conns, Send(m, k) PROVE MessageLife' /\ Started'
    BY <1>5 DEF Send
  <1>6. ASSUME NEW m \in Messages, Finish(m) PROVE MessageLife' /\ Started'
    BY <1>6 DEF Finish
  <1>7. ASSUME NEW m \in Messages, NotifyOffline(m) PROVE MessageLife' /\ Started'
    BY <1>7 DEF NotifyOffline
  <1>8. CASE UNCHANGED vars
    BY <1>8 DEF vars
  <1> QED BY <1>1, <1>2, <1>3, <1>4, <1>5, <1>6, <1>7, <1>8 DEF Next, ChatStep

LEMMA AimStep == Inv /\ [Next]_vars => AimedOrLate'
  <1> SUFFICES ASSUME Inv, [Next]_vars PROVE AimedOrLate'
    OBVIOUS
  <1> USE DEF Inv, TypeOK, AimedOrLate, Started, connVars, chanVars, castVars, noteVars
  <1>1. ASSUME NEW k \in Conns, Connect(k) PROVE AimedOrLate'
    <2>1. k \notin clients /\ clients' = clients
      BY <1>1 DEF Connect, ConnLife, clients
    <2>2. \A c \in clients : access'[c] = access[c]
      BY <1>1, <2>1 DEF Connect, clients
    <2> QED BY <1>1, <2>1, <2>2 DEF Connect
  <1>2. ASSUME NEW k \in Conns, PeerGone(k) \/ PumpStep(k) PROVE AimedOrLate'
    <2>1. clients' = clients
      BY <1>2 DEF PeerGone, PumpStep, ReadFails, WriteFrame, WriteEnds, clients
    <2> QED BY <1>2, <2>1 DEF PeerGone, PumpStep, ReadFails, WriteFrame, WriteEnds
  <1>3. ASSUME NEW k \in Conns, TakeRegister(k) PROVE AimedOrLate'
    <2>1. clients' = clients
      BY <1>3 DEF TakeRegister, ConnLife, clients
    <2> QED BY <1>3, <2>1 DEF TakeRegister
  <1>4. ASSUME NEW k \in Conns, TakeUnregister(k) \/ Remove(k) PROVE AimedOrLate'
    <2>1. clients' \subseteq clients
      <3>1. TakeUnregister(k) => hub[k] = "in"
        BY DEF TakeUnregister, ConnLife, WriterWaits
      <3> QED BY <1>4, <3>1 DEF TakeUnregister, Remove, clients
    <2> QED BY <1>4, <2>1 DEF TakeUnregister, Remove
  <1>5. ASSUME NEW k \in Conns, Add(k) PROVE AimedOrLate'
    <2>1. clients' = clients \cup {k}
      BY <1>5 DEF Add, clients
    <2>2. \A m \in Messages : mpc[m] # "sending" /\ late[m] \subseteq late'[m]
      BY <1>5 DEF Add, Readers
    <2>3. \A m \in Messages : npc[m] = "started" /\ room[m] \in access[k] => Owner[k] \in late'[m]
      BY <1>5 DEF Add
    <2> QED BY <1>5, <2>1, <2>2, <2>3 DEF Add
  <1>6. ASSUME NEW r \in Rooms, CreateRoom(r) PROVE AimedOrLate'
    BY <1>6 DEF CreateRoom, clients
  <1>7. ASSUME NEW m \in Messages, SendMessage(m) PROVE AimedOrLate'
    <2>1. clients' = clients
      BY <1>7 DEF SendMessage, clients
    <2>2. npc[m] = "none"
      BY <1>7 DEF SendMessage, MessageLife
    <2> QED BY <1>7, <2>1, <2>2 DEF SendMessage, Audience
  <1>8. ASSUME NEW m \in Messages, NEW k \in Conns, Send(m, k) PROVE AimedOrLate'
    <2>1. clients' = clients
      BY <1>8 DEF Send, clients
    <2> QED BY <1>8, <2>1 DEF Send
  <1>9. ASSUME NEW m \in Messages, Finish(m) \/ NotifyOffline(m) PROVE AimedOrLate'
    <2>1. clients' = clients
      BY <1>9 DEF Finish, NotifyOffline, clients
    <2> QED BY <1>9, <2>1 DEF Finish, NotifyOffline
  <1>10. CASE UNCHANGED vars
    BY <1>10 DEF vars, clients
  <1> QED BY <1>1, <1>2, <1>3, <1>4, <1>5, <1>6, <1>7, <1>8, <1>9, <1>10
          DEF Next, HubStep, ChatStep

LEMMA Invariant == Spec => []Inv
  <1>1. Inv /\ [Next]_vars => Inv'
    BY TypeStep, ConnStep, MessageStep, AimStep DEF Inv
  <1> QED BY InitInv, <1>1, PTL DEF Spec

-----------------------------------------------------------------------------
(* Who is pushed to.                                                       *)

Covered(m, u) ==
  /\ u \in notified[m] \/ u \in late[m] \/ \E k \in aim[m] : Owner[k] = u
  /\ (\E k \in clients \cap aim[m] : Owner[k] = u) => u \notin notified[m]

Pushes == \A m \in Messages : \A u \in Users \ {Author[m]} : npc[m] = "done" => Covered(m, u)

(* A push is decided in one step, by the connections of that moment.       *)
LEMMA NotifyCovers ==
  ASSUME Inv, NEW m \in Messages, NotifyOffline(m), npc'[m] = "done", NEW u \in Users \ {Author[m]}
  PROVE  Covered(m, u)'
  <1> DEFINE online == {Owner[k] : k \in Audience(m)}
  <1>1. npc[m] = "started" /\ notified'[m] = (Users \ {Author[m]}) \ online
        /\ UNCHANGED <<room, access, hub, aim, late>>
    BY DEF NotifyOffline, ConnectedUserIDsInRoom, Inv, TypeOK, connVars, castVars
  <1>2. clients' = clients
    BY <1>1 DEF clients
  <1>3. u \in online => u \in late[m] \/ \E k \in aim[m] : Owner[k] = u
    BY <1>1 DEF Audience, Inv, AimedOrLate
  <1>4. ASSUME NEW k \in clients \cap aim[m], Owner[k] = u PROVE u \in online
    BY <1>4 DEF Audience, Inv, MessageLife
  <1> QED BY <1>1, <1>2, <1>3, <1>4 DEF Covered

LEMMA PushStep == Inv /\ Pushes /\ [Next]_vars => Pushes'
  <1> SUFFICES ASSUME Inv, Pushes, [Next]_vars PROVE Pushes'
    OBVIOUS
  <1> DEFINE Same == UNCHANGED <<npc, notified, late, aim, hub>>
  <1> USE DEF Pushes, Covered, connVars, chanVars, castVars, noteVars
  <1>1. CASE Same
    BY <1>1 DEF clients
  <1>2. ASSUME NEW k \in Conns, Connect(k) \/ PeerGone(k) \/ PumpStep(k) PROVE Pushes'
    BY <1>1, <1>2 DEF Connect, PeerGone, PumpStep, ReadFails, WriteFrame, WriteEnds
  <1>3. ASSUME NEW k \in Conns, HubStep(k) PROVE Pushes'
    <2>1. /\ \A m \in Messages : clients' \cap aim[m] \subseteq clients
          /\ UNCHANGED <<npc, notified, aim>>
          /\ \A m \in Messages : late[m] \subseteq late'[m]
      <3>1. TakeUnregister(k) => hub[k] = "in"
        BY DEF TakeUnregister, Inv, ConnLife, WriterWaits
      <3>2. TakeRegister(k) => hub[k] = "out"
        BY DEF TakeRegister, Inv, ConnLife
      <3>3. Add(k) => \A m \in Messages : k \notin aim[m]
        BY DEF Add, Inv, ConnLife
      <3>4. \A m \in Messages : late[m] \subseteq late'[m]
        BY <1>3 DEF HubStep, TakeRegister, Add, TakeUnregister, Remove
      <3>5. \A m \in Messages : clients' \cap aim[m] \subseteq clients
        <4>1. CASE TakeRegister(k)
          BY <3>2, <4>1 DEF TakeRegister, clients, Inv, TypeOK
        <4>2. CASE Add(k)
          BY <3>3, <4>2 DEF Add, clients, Inv, TypeOK
        <4>3. CASE TakeUnregister(k) \/ Remove(k)
          BY <3>1, <4>3 DEF TakeUnregister, Remove, clients, Inv, TypeOK
        <4> QED BY <1>3, <4>1, <4>2, <4>3 DEF HubStep
      <3>6. UNCHANGED <<npc, notified, aim>>
        BY <1>3 DEF HubStep, TakeRegister, Add, TakeUnregister, Remove
      <3> QED BY <3>4, <3>5, <3>6
    <2> QED BY <2>1
  <1>4. ASSUME NEW r \in Rooms, CreateRoom(r) PROVE Pushes'
    BY <1>1, <1>4 DEF CreateRoom
  <1>5. ASSUME NEW m \in Messages, SendMessage(m) PROVE Pushes'
    <2>1. npc[m] # "done" /\ UNCHANGED <<npc, notified, late, hub>> /\ \A x \in Messages \ {m} : aim'[x] = aim[x]
      <3>1. mpc[m] = "new" /\ aim' = [aim EXCEPT ![m] = Audience(m)] /\ UNCHANGED <<npc, notified, late, hub>>
        BY <1>5 DEF SendMessage
      <3>2. npc[m] # "done"
        BY <3>1 DEF Inv, MessageLife
      <3> QED BY <3>1, <3>2 DEF Inv, TypeOK
    <2> QED BY <2>1 DEF clients
  <1>6. ASSUME NEW m \in Messages, NEW k \in Conns, Send(m, k) PROVE Pushes'
    BY <1>1, <1>6 DEF Send
  <1>7. ASSUME NEW m \in Messages, Finish(m) PROVE Pushes'
    <2>1. UNCHANGED <<notified, late, aim, hub>> /\ \A x \in Messages : npc'[x] = "done" => npc[x] = "done"
      BY <1>7 DEF Finish, Inv, TypeOK
    <2> QED BY <2>1 DEF clients
  <1>8. ASSUME NEW m \in Messages, NotifyOffline(m) PROVE Pushes'
    <2>1. npc'[m] = "done" => \A u \in Users \ {Author[m]} : Covered(m, u)'
      BY <1>8, NotifyCovers
    <2>2. \A x \in Messages \ {m} : npc'[x] = npc[x] /\ notified'[x] = notified[x]
      BY <1>8 DEF NotifyOffline, Inv, TypeOK
    <2>3. UNCHANGED <<late, aim, hub>>
      BY <1>8 DEF NotifyOffline
    <2> QED BY <2>1, <2>2, <2>3 DEF clients
  <1>9. CASE UNCHANGED vars
    BY <1>1, <1>9 DEF vars
  <1> QED BY <1>2, <1>3, <1>4, <1>5, <1>6, <1>7, <1>8, <1>9 DEF Next, ChatStep

(* When notifyOfflineUsers (chat.go) has pushed, each other member got a   *)
(* push, or was broadcast to, or joined between broadcast and check, and   *)
(* whoever was broadcast to and is still a client got none, however the    *)
(* connections come and go meanwhile.                                      *)
THEOREM PushOrScreenHolds == Spec => []PushOrScreen
  <1>1. Init => Pushes
    BY DEF Init, Pushes
  <1>2. Inv /\ Pushes => PushOrScreen
    BY DEF Inv, Pushes, Covered, PushOrScreen
  <1> QED BY <1>1, <1>2, PushStep, Invariant, PTL DEF Spec

-----------------------------------------------------------------------------
(* What is shown.                                                          *)

(* What is visible to k was sent to it, once and not before what was over  *)
(* when it began; and what had its turn is visible or was refused.         *)
Orderly(k) ==
  LET s == Visible(k)
  IN  /\ \A i \in DOMAIN s : k \in aim[s[i]] /\ k \notin todo[s[i]]
      /\ \A i, j \in DOMAIN s : i < j => s[i] # s[j] /\ s[j] \notin prior[s[i]]
      /\ \A m \in Messages : k \in aim[m] \ todo[m] => InSeq(m, s) \/ m \in dropped[k]

OrderlyWhileUp == \A k \in Conns : socket[k] => Orderly(k)

LEMMA AppendToConcat ==
  \A s, t \in Seq(Messages) : \A x \in Messages : s \o Append(t, x) = Append(s \o t, x)
  <1> SUFFICES ASSUME NEW s \in Seq(Messages), NEW t \in Seq(Messages), NEW x \in Messages
               PROVE  s \o Append(t, x) = Append(s \o t, x)
    OBVIOUS
  <1>1. s \o Append(t, x) \in Seq(Messages) /\ Append(s \o t, x) \in Seq(Messages)
    OBVIOUS
  <1>2. Len(s \o Append(t, x)) = Len(s) + Len(t) + 1 /\ Len(Append(s \o t, x)) = Len(s) + Len(t) + 1
    OBVIOUS
  <1>3. \A i \in 1..(Len(s) + Len(t) + 1) : (s \o Append(t, x))[i] = Append(s \o t, x)[i]
    OBVIOUS
  <1> QED BY <1>1, <1>2, <1>3, SeqEqual

(* A message that finds room is last, and nothing visible began after it   *)
(* was over.                                                               *)
LEMMA AcceptKeepsOrder ==
  ASSUME Inv, NEW k \in Conns, Orderly(k), NEW m \in Messages, mpc[m] = "sending", k \in todo[m],
         queued'[k] = Append(queued[k], m), shown'[k] = shown[k], dropped'[k] = dropped[k],
         todo' = [todo EXCEPT ![m] = @ \ {k}], UNCHANGED <<aim, prior>>
  PROVE  Orderly(k)'
  <1> DEFINE s == Visible(k)
             n == Len(s)
  <1>1. s \in Seq(Messages) /\ shown[k] \in Seq(Messages) /\ queued[k] \in Seq(Messages)
    BY DEF Inv, TypeOK, Visible
  <1>2. Visible(k)' = Append(s, m)
    BY <1>1, AppendToConcat DEF Visible
  <1>3. n \in Nat /\ DOMAIN s = 1..n /\ DOMAIN Append(s, m) = 1..(n + 1)
        /\ Append(s, m)[n + 1] = m /\ \A i \in 1..n : Append(s, m)[i] = s[i] /\ s[i] \in Messages
    BY <1>1
  <1>4. \A i \in 1..n : k \in aim[s[i]] /\ k \notin todo[s[i]]
    BY <1>3 DEF Orderly
  <1>5. \A i, j \in 1..n : i < j => s[i] # s[j] /\ s[j] \notin prior[s[i]]
    BY <1>3 DEF Orderly
  <1>6. \A x \in Messages : k \in aim[x] \ todo[x] => InSeq(x, s) \/ x \in dropped[k]
    BY DEF Orderly
  <1> HIDE DEF s, n
  <1>7. \A i \in 1..n : s[i] # m /\ m \notin prior[s[i]]
    BY <1>3, <1>4 DEF Inv, MessageLife
  <1>8. k \in aim[m] /\ \A x \in Messages \ {m} : todo'[x] = todo[x]
    BY DEF Inv, MessageLife, TypeOK
  <1>9. k \notin todo'[m]
    BY DEF Inv, TypeOK
  <1>10. \A i \in 1..(n + 1) : i \in 1..n \/ i = n + 1
    BY <1>3
  <1>11. \A i \in 1..(n + 1) : k \in aim[Append(s, m)[i]] /\ k \notin todo'[Append(s, m)[i]]
    BY <1>3, <1>4, <1>7, <1>8, <1>9, <1>10
  <1>12. ASSUME NEW i \in 1..(n + 1), NEW j \in 1..(n + 1), i < j
         PROVE  Append(s, m)[i] # Append(s, m)[j] /\ Append(s, m)[j] \notin prior[Append(s, m)[i]]
    <2>1. i \in 1..n
      BY <1>3, <1>12
    <2> QED BY <1>3, <1>5, <1>7, <1>10, <1>12, <2>1
  <1>13. \A x \in Messages : k \in aim[x] \ todo'[x] => InSeq(x, Append(s, m)) \/ x \in dropped[k]
    <2>1. InSeq(m, Append(s, m))
      BY <1>3 DEF InSeq
    <2>2. \A x \in Messages : InSeq(x, s) => InSeq(x, Append(s, m))
      BY <1>3 DEF InSeq
    <2> QED BY <1>6, <1>8, <2>1, <2>2
  <1>14. Visible(k)' = Append(s, m) /\ aim' = aim /\ prior' = prior /\ dropped'[k] = dropped[k]
    BY <1>2
  <1> QED BY <1>3, <1>11, <1>12, <1>13, <1>14 DEF Orderly, InSeq

LEMMA OrderStep == Inv /\ OrderlyWhileUp /\ [Next]_vars => OrderlyWhileUp'
  <1> SUFFICES ASSUME Inv, OrderlyWhileUp, [Next]_vars, NEW k \in Conns, socket'[k] PROVE Orderly(k)'
    BY DEF OrderlyWhileUp
  <1> DEFINE Same == /\ socket'[k] = socket[k] /\ dropped'[k] = dropped[k]
                     /\ Visible(k)' = Visible(k)
                     /\ UNCHANGED <<aim, prior, todo>>
  <1> USE DEF connVars, chanVars, castVars, noteVars
  <1>0. Visible(k) \in Seq(Messages)
    BY DEF Inv, TypeOK, Visible
  <1>1. CASE Same
    <2>1. Orderly(k)
      BY <1>1 DEF OrderlyWhileUp
    <2> QED BY <1>1, <2>1 DEF Orderly, InSeq
  <1>2. ASSUME NEW c \in Conns, Connect(c) PROVE Orderly(k)'
    <2>1. CASE k # c
      BY <1>1, <1>2, <2>1 DEF Connect, Inv, TypeOK, Visible
    <2>2. CASE k = c
      <3>1. shown[k] = <<>> /\ queued[k] = <<>> /\ \A m \in Messages : k \notin aim[m]
        BY <1>2, <2>2 DEF Connect, Inv, ConnLife
      <3>2. Visible(k)' = <<>> /\ aim' = aim
        BY <1>2, <3>1 DEF Connect, Visible
      <3>3. DOMAIN Visible(k)' = {}
        BY <3>2
      <3> QED BY <3>1, <3>2, <3>3 DEF Orderly
    <2> QED BY <2>1, <2>2
  <1>3. ASSUME NEW c \in Conns, HubStep(c) \/ PeerGone(c) \/ ReadFails(c) \/ WriteEnds(c) PROVE Orderly(k)'
    <2>1. Same
      BY <1>3 DEF HubStep, TakeRegister, Add, TakeUnregister, Remove, PeerGone, ReadFails, WriteEnds,
                  Inv, TypeOK, Visible
    <2> QED BY <1>1, <2>1
  <1>4. ASSUME NEW c \in Conns, WriteFrame(c) PROVE Orderly(k)'
    <2>1. UNCHANGED <<socket, dropped, aim, prior, todo>> /\ queued' = [queued EXCEPT ![c] = <<>>]
      BY <1>4 DEF WriteFrame
    <2>2. socket[c] => shown' = [shown EXCEPT ![c] = @ \o queued[c]]
      BY <1>4 DEF WriteFrame
    <2>3. ~socket[c] => shown' = shown
      BY <1>4 DEF WriteFrame
    <2>4. CASE k # c
      <3>1. shown'[k] = shown[k] /\ queued'[k] = queued[k]
        BY <2>1, <2>2, <2>3, <2>4 DEF Inv, TypeOK
      <3> QED BY <1>1, <2>1, <3>1 DEF Visible
    <2>5. CASE k = c
      <3>1. shown'[k] = shown[k] \o queued[k] /\ queued'[k] = <<>>
        BY <2>1, <2>2, <2>5 DEF Inv, TypeOK
      <3>2. shown'[k] \o queued'[k] = shown[k] \o queued[k]
        BY <1>0, <3>1 DEF Visible
      <3> QED BY <1>1, <2>1, <3>2 DEF Visible
    <2> QED BY <2>4, <2>5
  <1>5. ASSUME NEW r \in Rooms, CreateRoom(r) PROVE Orderly(k)'
    BY <1>1, <1>5 DEF CreateRoom, Visible
  <1>6. ASSUME NEW m \in Messages, Finish(m) \/ NotifyOffline(m) PROVE Orderly(k)'
    BY <1>1, <1>6 DEF Finish, NotifyOffline, Visible
  <1>7. ASSUME NEW m \in Messages, SendMessage(m) PROVE Orderly(k)'
    <2>1. Visible(k)' = Visible(k) /\ socket' = socket /\ dropped' = dropped
      BY <1>7 DEF SendMessage, Visible
    <2>2. Orderly(k)
      BY <2>1 DEF OrderlyWhileUp
    <2>3. aim[m] = {} /\ aim'[m] = todo'[m]
          /\ \A x \in Messages \ {m} : aim'[x] = aim[x] /\ todo'[x] = todo[x] /\ prior'[x] = prior[x]
      BY <1>7 DEF SendMessage, Inv, TypeOK, MessageLife
    <2>4. \A i \in DOMAIN Visible(k) : Visible(k)[i] \in Messages /\ k \in aim[Visible(k)[i]]
      BY <1>0, <2>2 DEF Orderly
    <2>5. \A i \in DOMAIN Visible(k) : Visible(k)[i] # m
      BY <2>3, <2>4
    <2> QED BY <2>1, <2>2, <2>3, <2>4, <2>5 DEF Orderly, InSeq
  <1>8. ASSUME NEW m \in Messages, NEW c \in Conns, Send(m, c) PROVE Orderly(k)'
    <2>1. mpc[m] = "sending" /\ c \in todo[m] /\ todo' = [todo EXCEPT ![m] = @ \ {c}]
          /\ UNCHANGED <<aim, prior, socket, shown>>
      BY <1>8 DEF Send, Inv, MessageLife
    <2>2. Orderly(k)
      BY <2>1 DEF OrderlyWhileUp
    <2>3. CASE k = c /\ queued'[k] = Append(queued[k], m) /\ dropped' = dropped
      BY <2>1, <2>2, <2>3, AcceptKeepsOrder
    <2>4. CASE queued'[k] = queued[k] /\ (k = c => dropped'[k] = dropped[k] \cup {m})
                                       /\ (k # c => dropped'[k] = dropped[k])
      <3>1. Visible(k)' = Visible(k)
        BY <2>1, <2>4 DEF Visible
      <3>2. \A x \in Messages : (k \in todo'[x] <=> k \in todo[x]) \/ (x = m /\ k = c)
        BY <2>1 DEF Inv, TypeOK
      <3>3. \A x \in Messages : todo'[x] \subseteq todo[x] /\ dropped[k] \subseteq dropped'[k]
        BY <2>1, <2>4 DEF Inv, TypeOK
      <3>4. \A i \in DOMAIN Visible(k) : Visible(k)[i] \in Messages
        BY <1>0
      <3> QED BY <2>1, <2>2, <2>4, <3>1, <3>2, <3>3, <3>4 DEF Orderly, InSeq
    <2> QED BY <1>8, <2>3, <2>4 DEF Send, Inv, TypeOK
  <1>9. CASE UNCHANGED vars
    BY <1>1, <1>9 DEF vars, Visible
  <1> QED BY <1>2, <1>3, <1>4, <1>5, <1>6, <1>7, <1>8, <1>9 DEF Next, PumpStep, ChatStep

(* A client whose socket lives sees no message twice, none of a foreign    *)
(* room, those of broadcasts that did not overlap in their order, and all  *)
(* but those its full channel refused (BroadcastToRoom and WritePump).     *)
THEOREM ShownInOrderHolds == Spec => []ShownInOrder
  <1>1. Init => OrderlyWhileUp
    BY DEF Init, OrderlyWhileUp
  <1>2. Inv /\ OrderlyWhileUp => ShownInOrder
    <2> SUFFICES ASSUME Inv, OrderlyWhileUp, NEW k \in clients, socket[k] PROVE InOrder(k)
      BY DEF ShownInOrder
    <2>1. k \in Conns /\ Orderly(k) /\ Visible(k) \in Seq(Messages)
      BY DEF clients, OrderlyWhileUp, Inv, TypeOK, Visible
    <2>2. \A m \in Messages : mpc[m] = "sent" => todo[m] = {}
      BY DEF Inv, MessageLife
    <2>3. \A i \in DOMAIN Visible(k) : room[Visible(k)[i]] \in access[k]
      BY <2>1 DEF Orderly, Inv, MessageLife
    <2> QED BY <2>1, <2>2, <2>3 DEF InOrder, Orderly
  <1> QED BY <1>1, <1>2, OrderStep, Invariant, PTL DEF Spec
=============================================================================
