------------------------------- MODULE EventFeed -------------------------------
(***************************************************************************)
(* What a subscriber of the event hub is promised, without hub or lock: a  *)
(* feed that is open for a while, is offered each event of a sender once   *)
(* and in the order of that sender, and loses an event only when as many   *)
(* are waiting as its buffer holds.  Nothing is promised about the order   *)
(* of events of different senders.                                         *)
(***************************************************************************)
EXTENDS Naturals, Sequences

CONSTANTS
  Clients,   (* the subscribers                                              *)
  Senders,   (* the goroutines that publish                                  *)
  BufCap     (* how many events wait for a subscriber                        *)

VARIABLES
  open,      (* the feeds that are subscribed                                *)
  offered,   (* per feed and sender, the number of the last event offered    *)
  waiting,   (* per feed, the events not yet taken                           *)
  taken      (* per feed, the events taken                                   *)

feedVars == <<open, offered, waiting, taken>>

FeedInit ==
  /\ open = {}
  /\ offered = [c \in Clients |-> [s \in Senders |-> 0]]
  /\ waiting = [c \in Clients |-> <<>>]
  /\ taken = [c \in Clients |-> <<>>]

(* A new feed starts with the events published from now on.                *)
Open(c) ==
  /\ c \notin open
  /\ open' = open \cup {c}
  /\ offered'[c] \in [Senders -> Nat]
  /\ offered' = [offered EXCEPT ![c] = offered'[c]]
  /\ UNCHANGED <<waiting, taken>>

Offer(c, s) ==
  LET n == offered[c][s] + 1 IN
  /\ c \in open
  /\ offered' = [offered EXCEPT ![c][s] = n]
  /\ waiting' = IF Len(waiting[c]) < BufCap
                THEN [waiting EXCEPT ![c] = Append(@, <<s, n>>)]
                ELSE waiting
  /\ UNCHANGED <<open, taken>>

Take(c) ==
  /\ waiting[c] # <<>>
  /\ taken' = [taken EXCEPT ![c] = Append(@, Head(waiting[c]))]
  /\ waiting' = [waiting EXCEPT ![c] = Tail(@)]
  /\ UNCHANGED <<open, offered>>

Close(c) ==
  /\ c \in open
  /\ open' = open \ {c}
  /\ offered' = [offered EXCEPT ![c] = [s \in Senders |-> 0]]
  /\ UNCHANGED <<waiting, taken>>

FeedNext ==
  \E c \in Clients :
    \/ Open(c)
    \/ \E s \in Senders : Offer(c, s)
    \/ Take(c)
    \/ Close(c)

FeedSpec == FeedInit /\ [][FeedNext]_feedVars
=============================================================================
