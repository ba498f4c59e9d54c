--------------------------------- MODULE WsHub ---------------------------------
(***************************************************************************)
(* The live delivery of chat messages: the hub of ws/hub.go with its run   *)
(* loop and the two pumps of a connection, and the parts of                *)
(* handlers/chat.go that use it: the WebSocket handler, CreateRoom, the    *)
(* broadcast of SendMessage and notifyOfflineUsers.                        *)
(*                                                                         *)
(* The read-write lock of the hub is Go's: broadcasts share the read lock  *)
(* and overlap, client by client, and once the run loop asks for the write *)
(* lock no new reader gets in. The run loop is one goroutine: it takes the *)
(* next connection when it has finished with the last.                     *)
(*                                                                         *)
(* Abstractions: the rooms are group and DM rooms (the AI room of a user   *)
(* has one member); a message is the request that sends it. What a user    *)
(* is pushed is the call of h.Notify.                                      *)
(***************************************************************************)
EXTENDS Naturals, Sequences

CONSTANTS
  Conns,      (* the WebSocket connections of a behaviour                     *)
  Users,      (* the users, none of them a guest                              *)
  Owner,      (* the user of each connection                                  *)
  Messages,   (* the messages sent                                            *)
  Author,     (* who sends each message                                       *)
  Rooms,      (* the rooms that may exist                                     *)
  OldRooms,   (* the group rooms that exist at the start                      *)
  GroupRooms, (* the group rooms; the others are DM rooms of all users        *)
  SendCap,    (* capacity of a client's channel (256 in the code)             *)
  MayBreak    (* bound: the connections whose peer may go away                *)

ASSUME WsAssumption ==
  /\ Owner \in [Conns -> Users]
  /\ Author \in [Messages -> Users]
  /\ OldRooms \subseteq GroupRooms /\ GroupRooms \subseteq Rooms
  /\ SendCap \in Nat
  /\ MayBreak \subseteq Conns

VARIABLES
  rooms,     (* the table chat_rooms                                          *)
  hub,       (* where the run loop is with each connection: it waits for the  *)
             (* write lock to add or to remove it, or it is in h.clients, or  *)
             (* it is gone and its Send closed                                *)
  access,    (* RoomIDs of each connection                                    *)
  queued,    (* the channel Send of each connection                           *)
  cpc,       (* the handler goroutine of a connection, ReadPump included      *)
  wpc,       (* its WritePump                                                 *)
  socket,    (* whether its socket is open                                    *)
  shown,     (* what was written to its socket                                *)
  mpc,       (* where each message is in SendMessage                          *)
  room,      (* the room of each message                                      *)
  todo,      (* the clients of the room its broadcast has still to visit      *)
  npc,       (* the goroutine notifyOfflineUsers of each message              *)
  notified,  (* the users each message was pushed to                          *)
  dropped,   (* history: the messages a full channel of a client refused      *)
  aim,       (* history: the connections each message was broadcast to        *)
  prior,     (* history: the messages whose broadcast was over when that of   *)
             (* a message began                                               *)
  late       (* history: the users who joined the room's clients between the  *)
             (* broadcast of a message and the check who is offline           *)

connVars == <<access, cpc, wpc, socket>>
chanVars == <<queued, shown, dropped>>
castVars == <<mpc, todo, aim, prior>>
noteVars == <<npc, notified, late>>
vars == <<rooms, hub, connVars, chanVars, room, castVars, noteVars>>

Init ==
  /\ rooms = OldRooms
  /\ hub = [k \in Conns |-> "out"]
  /\ access = [k \in Conns |-> {}]
  /\ queued = [k \in Conns |-> <<>>]
  /\ cpc = [k \in Conns |-> "new"]
  /\ wpc = [k \in Conns |-> "none"]
  /\ socket = [k \in Conns |-> FALSE]
  /\ shown = [k \in Conns |-> <<>>]
  /\ mpc = [m \in Messages |-> "new"]
  /\ room \in [Messages -> Rooms]
  /\ todo = [m \in Messages |-> {}]
  /\ npc = [m \in Messages |-> "none"]
  /\ notified = [m \in Messages |-> {}]
  /\ dropped = [k \in Conns |-> {}]
  /\ aim = [m \in Messages |-> {}]
  /\ prior = [m \in Messages |-> {}]
  /\ late = [m \in Messages |-> {}]

(* h.clients.                                                              *)
clients == {k \in Conns : hub[k] \in {"in", "removing"}}

(* The run loop waits for the write lock, which holds back new readers.    *)
WriterWaits == \E k \in Conns : hub[k] \in {"adding", "removing"}

(* The broadcasts that hold the read lock.                                 *)
Readers == {m \in Messages : mpc[m] = "sending"}

-----------------------------------------------------------------------------
(* A connection.                                                           *)

(* GET /chat/ws: the upgrade, and the set of rooms the user has now, which *)
(* are the group rooms.                                                    *)
Connect(k) ==
  /\ cpc[k] = "new"
  /\ cpc' = [cpc EXCEPT ![k] = "registering"]
  /\ socket' = [socket EXCEPT ![k] = TRUE]
  /\ access' = [access EXCEPT ![k] = rooms \cap GroupRooms]
  /\ UNCHANGED <<rooms, hub, wpc, chanVars, room, castVars, noteVars>>

(* Mutant: ReadPump runs before WritePump is started, and never returns.   *)
TakeRegisterReadsFirst(k) ==
  /\ cpc[k] = "registering" /\ ~WriterWaits
  /\ hub' = [hub EXCEPT ![k] = "adding"]
  /\ cpc' = [cpc EXCEPT ![k] = "reading"]
  /\ UNCHANGED <<rooms, access, wpc, socket, chanVars, room, castVars, noteVars>>

(* The run loop receives the client from Register and asks for the lock;   *)
(* its handler, which waited for that, starts both pumps. (A broadcast     *)
(* that gets the read lock between the two may as well get it before.)     *)
TakeRegister(k) ==
  /\ cpc[k] = "registering" /\ ~WriterWaits
  /\ hub' = [hub EXCEPT ![k] = "adding"]
  /\ cpc' = [cpc EXCEPT ![k] = "reading"]
  /\ wpc' = [wpc EXCEPT ![k] = "writing"]
  /\ UNCHANGED <<rooms, access, socket, chanVars, room, castVars, noteVars>>

(* The write lock is there: the client is put in the map.                  *)
Add(k) ==
  /\ hub[k] = "adding" /\ Readers = {}
  /\ hub' = [hub EXCEPT ![k] = "in"]
  /\ late' = [m \in Messages |-> IF npc[m] = "started" /\ room[m] \in access[k]
                                 THEN late[m] \cup {Owner[k]} ELSE late[m]]
  /\ UNCHANGED <<rooms, connVars, chanVars, room, castVars, npc, notified>>

(* The peer goes away, or no pong comes within pongWait.                   *)
PeerGone(k) ==
  /\ socket[k] /\ k \in MayBreak
  /\ socket' = [socket EXCEPT ![k] = FALSE]
  /\ UNCHANGED <<rooms, hub, access, cpc, wpc, chanVars, room, castVars, noteVars>>

(* Mutant: ReadPump returns without Unregister.                            *)
ReadFailsForgets(k) ==
  /\ cpc[k] = "reading" /\ ~socket[k]
  /\ cpc' = [cpc EXCEPT ![k] = "off"]
  /\ UNCHANGED <<rooms, hub, access, wpc, socket, chanVars, room, castVars, noteVars>>

(* ReadMessage fails: ReadPump returns and offers itself to Unregister.    *)
ReadFails(k) ==
  /\ cpc[k] = "reading" /\ ~socket[k]
  /\ cpc' = [cpc EXCEPT ![k] = "unregistering"]
  /\ UNCHANGED <<rooms, hub, access, wpc, socket, chanVars, room, castVars, noteVars>>

(* The run loop receives it from Unregister and asks for the lock.         *)
TakeUnregister(k) ==
  /\ cpc[k] = "unregistering" /\ ~WriterWaits
  /\ hub' = [hub EXCEPT ![k] = "removing"]
  /\ cpc' = [cpc EXCEPT ![k] = "off"]
  /\ UNCHANGED <<rooms, access, wpc, socket, chanVars, room, castVars, noteVars>>

(* The client is deleted from the map, where it is, and its Send closed.   *)
Remove(k) ==
  /\ hub[k] = "removing" /\ Readers = {}
  /\ hub' = [hub EXCEPT ![k] = "gone"]
  /\ UNCHANGED <<rooms, connVars, chanVars, room, castVars, noteVars>>

(* WritePump takes one message and then those that wait, and writes them   *)
(* as one frame. Once the peer is gone the write may fail, which ends the  *)
(* pump, or seem to succeed.                                               *)
WriteFrame(k) ==
  /\ wpc[k] = "writing" /\ queued[k] # <<>>
  /\ queued' = [queued EXCEPT ![k] = <<>>]
  /\ \/ socket[k] /\ shown' = [shown EXCEPT ![k] = @ \o queued[k]] /\ UNCHANGED wpc
     \/ ~socket[k] /\ wpc' \in {wpc, [wpc EXCEPT ![k] = "ended"]} /\ UNCHANGED shown
  /\ UNCHANGED <<rooms, hub, access, cpc, socket, dropped, room, castVars, noteVars>>

(* The channel is closed and empty, or a ping fails: the pump ends and     *)
(* closes the socket.                                                      *)
WriteEnds(k) ==
  /\ wpc[k] = "writing"
  /\ (hub[k] = "gone" /\ queued[k] = <<>>) \/ ~socket[k]
  /\ wpc' = [wpc EXCEPT ![k] = "ended"]
  /\ socket' = [socket EXCEPT ![k] = FALSE]
  /\ UNCHANGED <<rooms, hub, access, cpc, chanVars, room, castVars, noteVars>>

-----------------------------------------------------------------------------
(* Rooms and messages.                                                     *)

(* POST /chat/rooms: the row; the connected clients are not told.          *)
CreateRoom(r) ==
  /\ r \notin rooms
  /\ rooms' = rooms \cup {r}
  /\ UNCHANGED <<hub, connVars, chanVars, room, castVars, noteVars>>

Audience(m) == {k \in clients : room[m] \in access[k]}

(* POST /chat/rooms/:id/messages: SendMessage finds the room and saves the *)
(* message, which nobody sees here before BroadcastToRoom has the read     *)
(* lock and ranges over the clients, of which those with the room matter.  *)
SendMessage(m) ==
  /\ mpc[m] = "new" /\ room[m] \in rooms /\ ~WriterWaits
  /\ mpc' = [mpc EXCEPT ![m] = "sending"]
  /\ todo' = [todo EXCEPT ![m] = Audience(m)]
  /\ aim' = [aim EXCEPT ![m] = Audience(m)]
  /\ prior' = [prior EXCEPT ![m] = {x \in Messages : mpc[x] = "sent"}]
  /\ UNCHANGED <<rooms, hub, connVars, chanVars, room, noteVars>>

(* Mutant: the newest waiting message makes room for the next.             *)
SendOverwrites(m, k) ==
  /\ k \in todo[m]
  /\ queued' = [queued EXCEPT ![k] = IF Len(@) < SendCap THEN Append(@, m)
                                     ELSE Append(SubSeq(@, 1, SendCap - 1), m)]
  /\ todo' = [todo EXCEPT ![m] = @ \ {k}]
  /\ UNCHANGED <<rooms, hub, connVars, shown, dropped, room, mpc, aim, prior, noteVars>>

(* The range visits a client: "select { case c.Send <- data: default: }".  *)
Send(m, k) ==
  /\ k \in todo[m]
  /\ \/ /\ Len(queued[k]) < SendCap
        /\ queued' = [queued EXCEPT ![k] = Append(@, m)]
        /\ UNCHANGED dropped
     \/ /\ Len(queued[k]) >= SendCap
        /\ dropped' = [dropped EXCEPT ![k] = @ \cup {m}]
        /\ UNCHANGED queued
  /\ todo' = [todo EXCEPT ![m] = @ \ {k}]
  /\ UNCHANGED <<rooms, hub, connVars, shown, room, mpc, aim, prior, noteVars>>

(* RUnlock, and the goroutine for those who are offline is started.        *)
Finish(m) ==
  /\ mpc[m] = "sending" /\ todo[m] = {}
  /\ mpc' = [mpc EXCEPT ![m] = "sent"]
  /\ npc' = [npc EXCEPT ![m] = "started"]
  /\ UNCHANGED <<rooms, hub, connVars, chanVars, room, todo, aim, prior, notified, late>>

(* Mutant: everybody with a socket counts as online, whatever the room.    *)
ConnectedUserIDs(m) == {Owner[k] : k \in clients}

(* The users who are connected to the room.                                *)
ConnectedUserIDsInRoom(m) == {Owner[k] : k \in Audience(m)}

(* notifyOfflineUsers reads the members, asks under the read lock who is   *)
(* connected, and pushes to the others. The error of its query is ignored: *)
(* the message then has no members, and nobody is pushed to.               *)
NotifyOffline(m) ==
  /\ npc[m] = "started"
  /\ \/ /\ npc' = [npc EXCEPT ![m] = "failed"]
        /\ UNCHANGED notified
     \/ /\ ~WriterWaits
        /\ LET members == Users \ {Author[m]}
               online  == ConnectedUserIDsInRoom(m)
           IN  notified' = [notified EXCEPT ![m] = members \ online]
        /\ npc' = [npc EXCEPT ![m] = "done"]
  /\ UNCHANGED <<rooms, hub, connVars, chanVars, room, castVars, late>>

-----------------------------------------------------------------------------
HubStep(k) == TakeRegister(k) \/ Add(k) \/ TakeUnregister(k) \/ Remove(k)
PumpStep(k) == ReadFails(k) \/ WriteFrame(k) \/ WriteEnds(k)
ChatStep(m) == (\E k \in Conns : Send(m, k)) \/ Finish(m) \/ NotifyOffline(m)

Next ==
  \/ \E k \in Conns : Connect(k) \/ PeerGone(k) \/ HubStep(k) \/ PumpStep(k)
  \/ \E r \in Rooms : CreateRoom(r)
  \/ \E m \in Messages : SendMessage(m) \/ ChatStep(m)

Spec == Init /\ [][Next]_vars

(* The run loop, the pumps and the goroutines of the handlers keep going;  *)
(* nobody has to connect, to send, or to go away.                          *)
Fairness ==
  /\ \A k \in Conns :
       WF_vars(HubStep(k)) /\ WF_vars(ReadFails(k)) /\ WF_vars(WriteFrame(k))
       /\ WF_vars(WriteEnds(k))
  /\ \A m \in Messages : WF_vars(ChatStep(m))

FairSpec == Spec /\ Fairness
-----------------------------------------------------------------------------
(* Properties.                                                             *)

InSeq(m, s) == \E i \in DOMAIN s : s[i] = m

TypeOK ==
  /\ rooms \subseteq Rooms
  /\ hub \in [Conns -> {"out", "adding", "in", "removing", "gone"}]
  /\ access \in [Conns -> SUBSET Rooms]
  /\ queued \in [Conns -> Seq(Messages)] /\ \A k \in Conns : Len(queued[k]) <= SendCap
  /\ shown \in [Conns -> Seq(Messages)]
  /\ cpc \in [Conns -> {"new", "registering", "reading", "unregistering", "off"}]
  /\ wpc \in [Conns -> {"none", "writing", "ended"}]
  /\ socket \in [Conns -> BOOLEAN]
  /\ room \in [Messages -> Rooms]
  /\ mpc \in [Messages -> {"new", "sending", "sent"}]
  /\ npc \in [Messages -> {"none", "started", "done", "failed"}]
  /\ notified \in [Messages -> SUBSET Users] /\ late \in [Messages -> SUBSET Users]
  /\ todo \in [Messages -> SUBSET Conns] /\ aim \in [Messages -> SUBSET Conns]
  /\ prior \in [Messages -> SUBSET Messages]
  /\ dropped \in [Conns -> SUBSET Messages]

(* What a client has been shown or has waiting.                            *)
Visible(k) == shown[k] \o queued[k]

(* A client whose socket lives gets no message twice and none of a room it *)
(* does not have; a message whose broadcast was over before that of        *)
(* another began comes first; and none that was sent to it is missing but  *)
(* those that its full channel refused. (Broadcasts that overlap may reach *)
(* two clients in two orders.)                                             *)
InOrder(k) ==
  LET s == Visible(k)
  IN  /\ \A i \in DOMAIN s : room[s[i]] \in access[k]
      /\ \A i, j \in DOMAIN s : i < j => s[i] # s[j] /\ s[j] \notin prior[s[i]]
      /\ \A m \in Messages :
           mpc[m] = "sent" /\ k \in aim[m] => InSeq(m, s) \/ m \in dropped[k]

ShownInOrder == \A k \in clients : socket[k] => InOrder(k)

(* When the goroutine of a message has pushed, each member other than the  *)
(* author has got a push, or the message was broadcast to a connection of  *)
(* his, or he joined the clients of the room between the broadcast and     *)
(* the check; and one who was broadcast to and is still connected got no   *)
(* push. (A connection counts until the run loop removes it, even if its   *)
(* peer is gone or its full channel refused the message.)                  *)
PushOrScreen ==
  TypeOK /\ \A m \in Messages : \A u \in Users \ {Author[m]} :
    npc[m] = "done" =>
      /\ u \in notified[m] \/ u \in late[m] \/ \E k \in aim[m] : Owner[k] = u
      /\ (\E k \in clients \cap aim[m] : Owner[k] = u) => u \notin notified[m]

(* A connection whose peer is gone leaves the hub, and its pump ends.      *)
DeadConnectionsLeave ==
  \A k \in Conns : (cpc[k] = "reading" /\ ~socket[k]) ~> (hub[k] = "gone" /\ wpc[k] = "ended")

(* A message that was accepted for a client is shown to it, unless its     *)
(* socket breaks first.                                                    *)
AcceptedIsShown ==
  \A k \in Conns, m \in Messages :
    InSeq(m, queued[k]) ~> (~socket[k] \/ InSeq(m, shown[k]))
=============================================================================
