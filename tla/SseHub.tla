-------------------------------- MODULE SseHub ---------------------------------
(***************************************************************************)
(* sse/hub.go with the stream handler of handlers/sse.go and the status    *)
(* ticker of handlers/status.go.  Every request of the event stream is a   *)
(* client, every goroutine that broadcasts a sender.  The read-write lock  *)
(* is Go's: a goroutine that waits for the write lock holds back new       *)
(* readers.  A send on a closed channel would end the process.             *)
(*                                                                         *)
(* Abstractions: an event is its sender and a number; the greeting and the *)
(* log lines are left out.                                                 *)
(***************************************************************************)
EXTENDS Naturals, Sequences, FiniteSets

CONSTANTS
  Clients,    (* the event streams of a behaviour                             *)
  Senders,    (* the goroutines that broadcast                                *)
  Ticker,     (* the sender that is the status ticker                         *)
  NoClient,   (* nobody waits for the write lock                              *)
  BufCap,     (* the capacity of a client's channel (64 in the code)          *)
  MaxEvents   (* bound: how often each sender broadcasts                      *)

ASSUME SseAssumption ==
  /\ NoClient \notin Clients
  /\ Ticker \in Senders
  /\ BufCap \in Nat
  /\ MaxEvents \in [Senders -> Nat]

VARIABLES
  clients,   (* h.clients                                                     *)
  buf,       (* the channel of each client                                    *)
  closed,    (* the clients whose channel is closed                           *)
  writer,    (* the client that waits for, or has, the write lock             *)
  readers,   (* the senders that hold the read lock                           *)
  cpc,       (* where each stream handler is                                  *)
  wire,      (* what each stream handler received, to write it out            *)
  spc,       (* where each sender is in Broadcast                             *)
  seq,       (* how many events each sender has broadcast                     *)
  todo,      (* the clients its range loop has still to visit                 *)
  panicked   (* a send on, or a close of, a closed channel has happened       *)

vars == <<clients, buf, closed, writer, readers, cpc, wire, spc, seq, todo, panicked>>

Init ==
  /\ clients = {} /\ closed = {} /\ writer = NoClient /\ readers = {}
  /\ buf = [c \in Clients |-> <<>>]
  /\ cpc = [c \in Clients |-> "new"]
  /\ wire = [c \in Clients |-> <<>>]
  /\ spc = [s \in Senders |-> "idle"]
  /\ seq = [s \in Senders |-> 0]
  /\ todo = [s \in Senders |-> {}]
  /\ panicked = FALSE

-----------------------------------------------------------------------------
(* The stream handler.                                                     *)

(* GET /events arrives, or the stream ends: mu.Lock announces a writer.    *)
Announce(c) ==
  /\ cpc[c] \in {"new", "leaving"}
  /\ writer = NoClient
  /\ writer' = c
  /\ cpc' = [cpc EXCEPT ![c] = IF @ = "new" THEN "joining" ELSE "closing"]
  /\ UNCHANGED <<clients, buf, closed, readers, wire, spc, seq, todo, panicked>>

(* Subscribe, once the readers that were there are gone.                   *)
Subscribe(c) ==
  /\ cpc[c] = "joining" /\ readers = {}
  /\ clients' = clients \cup {c}
  /\ writer' = NoClient
  /\ cpc' = [cpc EXCEPT ![c] = "on"]
  /\ UNCHANGED <<buf, closed, readers, wire, spc, seq, todo, panicked>>

(* The loop of Stream receives an event and writes it to the response.     *)
Receive(c) ==
  /\ cpc[c] = "on" /\ buf[c] # <<>>
  /\ wire' = [wire EXCEPT ![c] = Append(@, Head(buf[c]))]
  /\ buf' = [buf EXCEPT ![c] = Tail(@)]
  /\ UNCHANGED <<clients, closed, writer, readers, cpc, spc, seq, todo, panicked>>

(* Mutant: the channel is closed before the lock is asked for.             *)
DisconnectCloses(c) ==
  /\ cpc[c] = "on"
  /\ cpc' = [cpc EXCEPT ![c] = "leaving"]
  /\ closed' = closed \cup {c}
  /\ UNCHANGED <<clients, buf, writer, readers, wire, spc, seq, todo, panicked>>

(* The client is gone, or the event just received could not be written.    *)
Disconnect(c) ==
  /\ cpc[c] = "on"
  /\ cpc' = [cpc EXCEPT ![c] = "leaving"]
  /\ UNCHANGED <<clients, buf, closed, writer, readers, wire, spc, seq, todo,
                 panicked>>

(* The deferred unsubscribe: delete and close under the write lock.        *)
Unsubscribe(c) ==
  /\ cpc[c] = "closing" /\ readers = {}
  /\ clients' = clients \ {c}
  /\ closed' = closed \cup {c}
  /\ writer' = NoClient
  /\ cpc' = [cpc EXCEPT ![c] = "off"]
  /\ UNCHANGED <<buf, readers, wire, spc, seq, todo, panicked>>

-----------------------------------------------------------------------------
(* Broadcast.                                                              *)

(* The status ticker asks Count, under the read lock for a moment, and     *)
(* skips the round when nobody listens.                                    *)
TickerCount ==
  /\ spc[Ticker] = "idle" /\ seq[Ticker] < MaxEvents[Ticker]
  /\ writer = NoClient
  /\ clients # {}
  /\ spc' = [spc EXCEPT ![Ticker] = "collected"]
  /\ UNCHANGED <<clients, buf, closed, writer, readers, cpc, wire, seq, todo,
                 panicked>>

MayBroadcast(s) ==
  /\ seq[s] < MaxEvents[s]
  /\ spc[s] = IF s = Ticker THEN "collected" ELSE "idle"

(* Mutant: the range loop runs over a snapshot, without the read lock.     *)
BeginUnlocked(s) ==
  /\ MayBroadcast(s)
  /\ todo' = [todo EXCEPT ![s] = clients]
  /\ seq' = [seq EXCEPT ![s] = @ + 1]
  /\ spc' = [spc EXCEPT ![s] = "sending"]
  /\ UNCHANGED <<clients, buf, closed, writer, readers, cpc, wire, panicked>>

(* mu.RLock, and the range over the clients begins.                        *)
Begin(s) ==
  /\ MayBroadcast(s)
  /\ writer = NoClient
  /\ readers' = readers \cup {s}
  /\ todo' = [todo EXCEPT ![s] = clients]
  /\ seq' = [seq EXCEPT ![s] = @ + 1]
  /\ spc' = [spc EXCEPT ![s] = "sending"]
  /\ UNCHANGED <<clients, buf, closed, writer, cpc, wire, panicked>>

(* Mutant: a plain send, which waits for room in the channel.              *)
SendWaits(s, c) ==
  /\ spc[s] = "sending" /\ c \in todo[s]
  /\ Len(buf[c]) < BufCap
  /\ buf' = [buf EXCEPT ![c] = Append(@, <<s, seq[s]>>)]
  /\ todo' = [todo EXCEPT ![s] = @ \ {c}]
  /\ UNCHANGED <<clients, closed, writer, readers, cpc, wire, spc, seq, panicked>>

(* The range visits a client: "select { case c.ch <- msg: default: }".     *)
Send(s, c) ==
  /\ spc[s] = "sending" /\ c \in todo[s]
  /\ \/ /\ c \in closed
        /\ panicked' = TRUE
        /\ UNCHANGED buf
     \/ /\ c \notin closed /\ Len(buf[c]) < BufCap
        /\ buf' = [buf EXCEPT ![c] = Append(@, <<s, seq[s]>>)]
        /\ UNCHANGED panicked
     \/ /\ c \notin closed /\ Len(buf[c]) >= BufCap
        /\ UNCHANGED <<panicked, buf>>
  /\ todo' = [todo EXCEPT ![s] = @ \ {c}]
  /\ UNCHANGED <<clients, closed, writer, readers, cpc, wire, spc, seq>>

(* Mutant: the read lock is not given back.                                *)
FinishKeepsLock(s) ==
  /\ spc[s] = "sending" /\ todo[s] = {}
  /\ spc' = [spc EXCEPT ![s] = "idle"]
  /\ UNCHANGED <<clients, buf, closed, writer, readers, cpc, wire, seq, todo, panicked>>

(* The deferred RUnlock.                                                   *)
Finish(s) ==
  /\ spc[s] = "sending" /\ todo[s] = {}
  /\ readers' = readers \ {s}
  /\ spc' = [spc EXCEPT ![s] = "idle"]
  /\ UNCHANGED <<clients, buf, closed, writer, cpc, wire, seq, todo, panicked>>

-----------------------------------------------------------------------------
LockStep(c) ==
  \/ cpc[c] = "leaving" /\ Announce(c)
  \/ Subscribe(c)
  \/ Unsubscribe(c)

SenderStep(s) == Finish(s) \/ \E c \in Clients : Send(s, c)

Next ==
  /\ ~panicked
  /\ \/ \E c \in Clients :
          Announce(c) \/ Subscribe(c) \/ Receive(c) \/ Disconnect(c) \/ Unsubscribe(c)
     \/ \E s \in Senders : Begin(s) \/ SenderStep(s)
     \/ TickerCount

Spec == Init /\ [][Next]_vars

(* The loop of Broadcast runs on, and a handler that asked for the lock    *)
(* gets it when it is free; nobody has to read its stream.                 *)
Fairness ==
  /\ \A s \in Senders : WF_vars(~panicked /\ SenderStep(s))
  /\ \A c \in Clients : WF_vars(~panicked /\ LockStep(c))

FairSpec == Spec /\ Fairness
-----------------------------------------------------------------------------
(* Properties.                                                             *)

TypeOK ==
  /\ clients \subseteq Clients /\ closed \subseteq Clients
  /\ buf \in [Clients -> Seq(Senders \X Nat)]
  /\ \A c \in Clients : Len(buf[c]) <= BufCap
  /\ wire \in [Clients -> Seq(Senders \X Nat)]
  /\ writer \in Clients \cup {NoClient}
  /\ readers \subseteq Senders
  /\ cpc \in [Clients -> {"new", "joining", "on", "leaving", "closing", "off"}]
  /\ spc \in [Senders -> {"idle", "collected", "sending"}]
  /\ seq \in [Senders -> Nat]
  /\ todo \in [Senders -> SUBSET Clients]
  /\ panicked \in BOOLEAN

(* No interleaving of unsubscribing clients and broadcasts sends on a      *)
(* channel that is already closed, which would end the process.            *)
NoPanic == TypeOK /\ ~panicked

(* The last event of s that client c had its turn for.                     *)
Reached(c, s) == IF c \in todo[s] THEN seq[s] - 1 ELSE seq[s]

(* A broadcast ends although clients stop reading and come and go.         *)
BroadcastsEnd == \A s \in Senders : spc[s] = "sending" ~> spc[s] # "sending"

(* A stream that has ended leaves the hub, so the hub does not fill up     *)
(* with dead clients.                                                      *)
EndedStreamsLeave == \A c \in Clients : cpc[c] = "leaving" ~> c \notin clients

(* The hub gives every subscriber the feed that EventFeed promises.        *)
Feed == INSTANCE EventFeed WITH
  open    <- clients,
  offered <- [c \in Clients |-> IF c \in clients
                                 THEN [s \in Senders |-> Reached(c, s)]
                                 ELSE [s \in Senders |-> 0]],
  waiting <- buf,
  taken   <- wire

ImplementsFeed == Feed!FeedSpec
=============================================================================
