----------------------------- MODULE SseHubProofs ------------------------------
(***************************************************************************)
(* Theorems about SseHub for every set of clients and senders and every    *)
(* capacity of the channels.                                               *)
(***************************************************************************)
EXTENDS SseHub, TLAPS

(* Who holds the read lock is in the loop, and only then has clients left. *)
ReadersLoop ==
  \A s \in Senders :
    /\ s \in readers <=> spc[s] = "sending"
    /\ todo[s] \subseteq clients
    /\ spc[s] # "sending" => todo[s] = {}

(* A subscribed client has not been closed.                                *)
ClientsOpen ==
  /\ \A c \in clients : cpc[c] \in {"on", "leaving", "closing"}
  /\ \A c \in Clients : cpc[c] \in {"on", "leaving", "closing"} => c \in clients
  /\ \A c \in closed : cpc[c] = "off"

HubInv == TypeOK /\ ReadersLoop /\ ClientsOpen /\ NoPanic

LEMMA InitHub == Init => HubInv
  <1> SUFFICES ASSUME Init PROVE HubInv
    OBVIOUS
  <1>1. <<>> \in Seq(Senders \X Nat)
    OBVIOUS
  <1>3. buf \in [Clients -> Seq(Senders \X Nat)] /\ wire \in [Clients -> Seq(Senders \X Nat)]
    BY <1>1 DEF Init
  <1>4. TypeOK
    <2>1. \A c \in Clients : buf[c] = <<>>
      BY DEF Init
    <2>2. Len(<<>>) <= BufCap
      BY SseAssumption
    <2>3. \A c \in Clients : Len(buf[c]) <= BufCap
      BY <2>1, <2>2
    <2>4. QED
      BY <1>3, <2>3 DEF Init, TypeOK
  <1>5. ReadersLoop /\ ClientsOpen /\ NoPanic
    BY <1>4 DEF Init, ReadersLoop, ClientsOpen, NoPanic
  <1>6. QED
    BY <1>4, <1>5 DEF HubInv

LEMMA ClientSteps ==
  ASSUME HubInv, NEW c \in Clients,
         Announce(c) \/ Subscribe(c) \/ Receive(c) \/ Disconnect(c) \/ Unsubscribe(c)
  PROVE  HubInv'
  <1> USE DEF HubInv, TypeOK
  <1>1. CASE Announce(c)
    <2>1. TypeOK' /\ NoPanic'
      BY <1>1 DEF Announce, NoPanic
    <2>2. ReadersLoop' /\ ClientsOpen'
      BY <1>1 DEF Announce, ReadersLoop, ClientsOpen
    <2>3. QED
      BY <2>1, <2>2
  <1>2. CASE Subscribe(c)
    <2>2. TypeOK' /\ NoPanic'
      BY <1>2 DEF Subscribe, NoPanic
    <2>3. ReadersLoop'
      BY <1>2 DEF Subscribe, ReadersLoop
    <2>4. ClientsOpen'
      BY <1>2 DEF Subscribe, ClientsOpen
    <2>5. QED
      BY <2>2, <2>3, <2>4
  <1>3. CASE Receive(c)
    <2>1. Head(buf[c]) \in Senders \X Nat /\ Tail(buf[c]) \in Seq(Senders \X Nat)
      BY <1>3 DEF Receive
    <2>2. Append(wire[c], Head(buf[c])) \in Seq(Senders \X Nat)
      BY <2>1
    <2>3. buf' \in [Clients -> Seq(Senders \X Nat)]
          /\ wire' \in [Clients -> Seq(Senders \X Nat)]
      BY <1>3, <2>1, <2>2 DEF Receive
    <2>4. \A d \in Clients : Len(buf'[d]) <= BufCap
      <3>1. Len(Tail(buf[c])) = Len(buf[c]) - 1
        BY <1>3 DEF Receive
      <3>2. Len(buf[c]) \in Nat
        OBVIOUS
      <3>3. \A d \in Clients \ {c} : buf'[d] = buf[d]
        BY <1>3 DEF Receive
      <3>4. buf'[c] = Tail(buf[c])
        BY <1>3 DEF Receive
      <3>5. Len(buf[c]) <= BufCap /\ \A d \in Clients : Len(buf[d]) <= BufCap
        OBVIOUS
      <3>6. Len(buf'[c]) <= BufCap
        BY <3>1, <3>2, <3>4, <3>5, SseAssumption
      <3> HIDE DEF HubInv, TypeOK
      <3>7. \A d \in Clients \ {c} : Len(buf'[d]) <= BufCap
        BY <3>3, <3>5
      <3>8. QED
        BY <3>6, <3>7
    <2>5. TypeOK' /\ NoPanic'
      BY <1>3, <2>3, <2>4 DEF Receive, NoPanic
    <2>6. ReadersLoop' /\ ClientsOpen'
      BY <1>3 DEF Receive, ReadersLoop, ClientsOpen
    <2>7. QED
      BY <2>5, <2>6
  <1>4. CASE Disconnect(c)
    BY <1>4 DEF Disconnect, NoPanic, ReadersLoop, ClientsOpen
  <1>5. CASE Unsubscribe(c)
    <2>1. TypeOK' /\ NoPanic'
      BY <1>5 DEF Unsubscribe, NoPanic
    <2>2. \A s \in Senders : todo[s] = {}
      BY <1>5 DEF Unsubscribe, ReadersLoop
    <2>3. ReadersLoop'
      BY <1>5, <2>2 DEF Unsubscribe, ReadersLoop
    <2>4. ClientsOpen'
      BY <1>5 DEF Unsubscribe, ClientsOpen
    <2>5. QED
      BY <2>1, <2>3, <2>4
  <1>6. QED
    BY <1>1, <1>2, <1>3, <1>4, <1>5

LEMMA SenderSteps ==
  ASSUME HubInv, TickerCount \/ \E s \in Senders : Begin(s) \/ SenderStep(s)
  PROVE  HubInv'
  <1> USE DEF HubInv, TypeOK
  <1>1. CASE TickerCount
    BY <1>1, SseAssumption DEF TickerCount, NoPanic, ReadersLoop, ClientsOpen
  <1>2. ASSUME NEW s \in Senders, Begin(s) PROVE HubInv'
    BY <1>2 DEF Begin, MayBroadcast, NoPanic, ReadersLoop, ClientsOpen
  <1>3. ASSUME NEW s \in Senders, Finish(s) PROVE HubInv'
    BY <1>3 DEF Finish, NoPanic, ReadersLoop, ClientsOpen
  <1>4. ASSUME NEW s \in Senders, NEW c \in Clients, Send(s, c) PROVE HubInv'
    <2>1. c \in clients /\ c \notin closed
      BY <1>4 DEF Send, ReadersLoop, ClientsOpen
    <2>2. panicked' = panicked /\ buf' \in [Clients -> Seq(Senders \X Nat)]
      <3>1. Append(buf[c], <<s, seq[s]>>) \in Seq(Senders \X Nat)
        OBVIOUS
      <3>2. buf' = buf \/ buf' = [buf EXCEPT ![c] = Append(buf[c], <<s, seq[s]>>)]
        BY <1>4, <2>1 DEF Send
      <3>3. buf' \in [Clients -> Seq(Senders \X Nat)]
        BY <3>1, <3>2
      <3>4. QED
        BY <1>4, <2>1, <3>3 DEF Send
    <2>6. \A d \in Clients : Len(buf'[d]) <= BufCap
      <3>1. \/ buf' = buf
            \/ /\ Len(buf[c]) < BufCap
               /\ buf' = [buf EXCEPT ![c] = Append(@, <<s, seq[s]>>)]
        BY <1>4, <2>1 DEF Send
      <3>2. CASE buf' = buf
        BY <3>2
      <3>3. CASE /\ Len(buf[c]) < BufCap
                 /\ buf' = [buf EXCEPT ![c] = Append(@, <<s, seq[s]>>)]
        <4>1. Len(Append(buf[c], <<s, seq[s]>>)) = Len(buf[c]) + 1
          OBVIOUS
        <4>2. Len(buf[c]) \in Nat
          OBVIOUS
        <4>3. Len(buf'[c]) = Len(buf[c]) + 1
          BY <3>3, <4>1
        <4>4. \A d \in Clients \ {c} : buf'[d] = buf[d]
          BY <3>3
        <4>5. Len(buf'[c]) <= BufCap
          BY <3>3, <4>2, <4>3, SseAssumption
        <4>6. \A d \in Clients : Len(buf[d]) <= BufCap
          OBVIOUS
        <4> HIDE DEF HubInv, TypeOK
        <4>7. \A d \in Clients \ {c} : Len(buf'[d]) <= BufCap
          BY <4>4, <4>6
        <4>8. QED
          BY <4>5, <4>7
      <3>4. QED
        BY <3>1, <3>2, <3>3
    <2>3. TypeOK' /\ NoPanic'
      BY <1>4, <2>1, <2>2, <2>6 DEF Send, NoPanic
    <2>4. ReadersLoop' /\ ClientsOpen'
      BY <1>4 DEF Send, ReadersLoop, ClientsOpen
    <2>5. QED
      BY <2>3, <2>4
  <1>5. QED
    BY <1>1, <1>2, <1>3, <1>4 DEF SenderStep

LEMMA NextHub == HubInv /\ [Next]_vars => HubInv'
  <1> SUFFICES ASSUME HubInv, [Next]_vars PROVE HubInv'
    OBVIOUS
  <1>1. CASE UNCHANGED vars
    BY <1>1 DEF vars, HubInv, TypeOK, ReadersLoop, ClientsOpen, NoPanic
  <1>2. CASE Next
    BY <1>2, ClientSteps, SenderSteps DEF Next
  <1>3. QED
    BY <1>1, <1>2

LEMMA HubInvHolds == Spec => []HubInv
  BY InitHub, NextHub, PTL DEF Spec

(* The variables of the hub keep their types.                              *)
THEOREM HubTypeCorrect == Spec => []TypeOK
  <1>1. HubInv => TypeOK
    BY DEF HubInv
  <1>2. QED
    BY <1>1, HubInvHolds, PTL

(* However clients come and go during broadcasts, nothing is ever sent on  *)
(* a closed channel (Broadcast, unsubscribe).                              *)
THEOREM NoPanicHolds == Spec => []NoPanic
  <1>1. HubInv => NoPanic
    BY DEF HubInv
  <1>2. QED
    BY <1>1, HubInvHolds, PTL

-----------------------------------------------------------------------------
(* The refinement.                                                         *)

(* What the feeds have been offered.                                       *)
OfferedNow == [c \in Clients |-> IF c \in clients
                                 THEN [s \in Senders |-> Reached(c, s)]
                                 ELSE [s \in Senders |-> 0]]

LEMMA StepFeed ==
  ASSUME HubInv, [Next]_vars
  PROVE  [Feed!FeedNext]_(Feed!feedVars)
  <1> USE DEF HubInv, TypeOK
  <1>1. ASSUME UNCHANGED <<clients, buf, wire>>,
               \A c \in clients, s \in Senders : Reached(c, s)' = Reached(c, s)
        PROVE  UNCHANGED Feed!feedVars
    BY <1>1 DEF Feed!feedVars
  <1>2. ASSUME NEW c \in Clients, Announce(c) \/ Disconnect(c)
        PROVE  UNCHANGED Feed!feedVars
    BY <1>1, <1>2 DEF Announce, Disconnect, Reached
  <1>3. CASE TickerCount \/ UNCHANGED vars
    BY <1>1, <1>3 DEF TickerCount, vars, Reached
  <1>4. ASSUME NEW s \in Senders, Begin(s) PROVE UNCHANGED Feed!feedVars
    <2>1. \A c \in clients, t \in Senders : Reached(c, t)' = Reached(c, t)
      <3>1. spc[s] # "sending" /\ todo[s] = {}
        BY <1>4 DEF Begin, MayBroadcast, ReadersLoop
      <3>2. seq' = [seq EXCEPT ![s] = seq[s] + 1] /\ todo' = [todo EXCEPT ![s] = clients]
        BY <1>4 DEF Begin
      <3>3. \A c \in clients : Reached(c, s)' = seq[s] /\ Reached(c, s) = seq[s]
        BY <3>1, <3>2 DEF Reached
      <3>4. \A c \in clients, t \in Senders \ {s} : Reached(c, t)' = Reached(c, t)
        BY <3>2 DEF Reached
      <3>5. QED
        BY <3>3, <3>4
    <2>2. QED
      BY <1>1, <1>4, <2>1 DEF Begin
  <1>5. ASSUME NEW s \in Senders, Finish(s) PROVE UNCHANGED Feed!feedVars
    BY <1>1, <1>5 DEF Finish, Reached
  <1>6. ASSUME NEW s \in Senders, NEW c \in Clients, Send(s, c)
        PROVE  Feed!Offer(c, s)
    <2>1. c \in clients /\ c \notin closed /\ c \in todo[s]
      BY <1>6 DEF Send, ReadersLoop, ClientsOpen
    <2>2. Reached(c, s) + 1 = seq[s] /\ Reached(c, s)' = seq[s]
      BY <1>6, <2>1 DEF Send, Reached
    <2>3. \A d \in Clients, t \in Senders :
            d # c \/ t # s => Reached(d, t)' = Reached(d, t)
      BY <1>6 DEF Send, Reached
    <2>4. OfferedNow' = [OfferedNow EXCEPT ![c][s] = OfferedNow[c][s] + 1]
      <3>1. clients' = clients
        BY <1>6 DEF Send
      <3>2. \A d \in Clients \ {c} : OfferedNow'[d] = OfferedNow[d]
        BY <2>3, <3>1 DEF OfferedNow
      <3>3. OfferedNow'[c] = [OfferedNow[c] EXCEPT ![s] = OfferedNow[c][s] + 1]
        <4>1. OfferedNow[c] = [t \in Senders |-> Reached(c, t)]
              /\ OfferedNow'[c] = [t \in Senders |-> Reached(c, t)']
          BY <2>1, <3>1 DEF OfferedNow
        <4>2. \A t \in Senders \ {s} : Reached(c, t)' = Reached(c, t)
          BY <2>3
        <4> DEFINE old(t) == Reached(c, t)
                   new(t) == Reached(c, t)'
        <4>3. new(s) = old(s) + 1 /\ \A t \in Senders \ {s} : new(t) = old(t)
          BY <2>2, <4>2
        <4>4. OfferedNow[c] = [t \in Senders |-> old(t)]
              /\ OfferedNow'[c] = [t \in Senders |-> new(t)]
          BY <4>1
        <4> HIDE DEF old, new
        <4>5. [t \in Senders |-> new(t)]
                = [[t \in Senders |-> old(t)] EXCEPT ![s] = old(s) + 1]
          BY <4>3
        <4>6. OfferedNow[c][s] = old(s)
          BY <4>4
        <4>7. QED
          BY <4>4, <4>5, <4>6
      <3>4. QED
        BY <3>2, <3>3 DEF OfferedNow
    <2>5. OfferedNow[c][s] + 1 = seq[s]
      BY <2>1, <2>2 DEF OfferedNow
    <2>6. buf' = IF Len(buf[c]) < BufCap
                 THEN [buf EXCEPT ![c] = Append(@, <<s, seq[s]>>)] ELSE buf
      BY <1>6, <2>1, SseAssumption DEF Send
    <2>7. UNCHANGED <<clients, wire>>
      BY <1>6 DEF Send
    <2>8. QED
      BY <2>1, <2>4, <2>5, <2>6, <2>7 DEF Feed!Offer, OfferedNow
  <1>7. ASSUME NEW c \in Clients, Subscribe(c) PROVE Feed!Open(c)
    <2>1. c \notin clients /\ \A s \in Senders : todo[s] = {}
      BY <1>7 DEF Subscribe, ReadersLoop, ClientsOpen
    <2>2. \A d \in Clients, s \in Senders :
            Reached(d, s)' = Reached(d, s) /\ Reached(d, s) = seq[s]
      BY <1>7, <2>1 DEF Subscribe, Reached
    <2>3. clients' = clients \cup {c} /\ UNCHANGED <<buf, wire>>
      BY <1>7 DEF Subscribe
    <2>4. OfferedNow'[c] \in [Senders -> Nat]
      BY <2>2, <2>3 DEF OfferedNow
    <2>5. OfferedNow' = [OfferedNow EXCEPT ![c] = OfferedNow'[c]]
      BY <2>2, <2>3 DEF OfferedNow
    <2>6. QED
      BY <2>1, <2>3, <2>4, <2>5 DEF Feed!Open, OfferedNow
  <1>8. ASSUME NEW c \in Clients, Receive(c) PROVE Feed!Take(c)
    <2>1. \A d \in Clients, s \in Senders : Reached(d, s)' = Reached(d, s)
      BY <1>8 DEF Receive, Reached
    <2>2. QED
      BY <1>8, <2>1 DEF Receive, Feed!Take
  <1>9. ASSUME NEW c \in Clients, Unsubscribe(c) PROVE Feed!Close(c)
    <2>1. c \in clients
      BY <1>9 DEF Unsubscribe, ClientsOpen
    <2>2. \A d \in Clients, s \in Senders : Reached(d, s)' = Reached(d, s)
      BY <1>9 DEF Unsubscribe, Reached
    <2>3. clients' = clients \ {c} /\ UNCHANGED <<buf, wire>>
      BY <1>9 DEF Unsubscribe
    <2>4. OfferedNow' = [OfferedNow EXCEPT ![c] = [s \in Senders |-> 0]]
      BY <2>2, <2>3 DEF OfferedNow
    <2>5. QED
      BY <2>1, <2>3, <2>4 DEF Feed!Close, OfferedNow
  <1>10. QED
    BY <1>2, <1>3, <1>4, <1>5, <1>6, <1>7, <1>8, <1>9
    DEF Next, SenderStep, Feed!FeedNext

LEMMA InitFeed == Init => Feed!FeedInit
  BY DEF Init, Feed!FeedInit

(* Every subscriber of the hub gets the ordered feed of EventFeed, which   *)
(* loses an event only when its buffer is full.                            *)
THEOREM HubImplementsFeed == Spec => ImplementsFeed
  <1>1. Spec => Feed!FeedInit /\ [][Feed!FeedNext]_(Feed!feedVars)
    BY InitFeed, StepFeed, HubInvHolds, PTL DEF Spec
  <1>2. QED
    BY <1>1 DEF ImplementsFeed, Feed!FeedSpec
=============================================================================
