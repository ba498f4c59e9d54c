------------------------------- MODULE AlarmClock -------------------------------
(***************************************************************************)
(* What a user is promised about reminders, without table, worker or push: *)
(* an alarm is set once, for a time or to ring at once.  In rounds that do *)
(* not overlap, the clock calls every alarm that is due and not over, and  *)
(* no other.  An alarm that is called is ticked off before it rings, and   *)
(* from then on it is over; cancelled, it is over too.  A fault may leave  *)
(* one alarm that rings unticked, or send all that were called or ringing  *)
(* back to be quiet.                                                       *)
(***************************************************************************)
EXTENDS Naturals

CONSTANTS
  Alarms,
  Never      (* the time of an alarm that rings at once                      *)

VARIABLES
  clock,
  due,       (* the time each alarm is set for                               *)
  stage,     (* "unset", "quiet", "called" or "ringing"                      *)
  over,      (* the alarms that no round calls any more                      *)
  rings,     (* how often each has rung                                      *)
  faults     (* how many faults there were                                   *)

alarmVars == <<clock, due, stage, over, rings, faults>>

AlarmInit ==
  /\ clock = 0
  /\ due = [a \in Alarms |-> Never]
  /\ stage = [a \in Alarms |-> "unset"]
  /\ over = {}
  /\ rings = [a \in Alarms |-> 0]
  /\ faults = 0

Becomes(a, s) == stage' = [stage EXCEPT ![a] = s]

SetForLater(a) ==
  /\ stage[a] = "unset"
  /\ due'[a] \in Nat /\ due' = [due EXCEPT ![a] = due'[a]]
  /\ Becomes(a, "quiet")
  /\ UNCHANGED <<clock, over, rings, faults>>

RingAtOnce(a) ==
  /\ stage[a] = "unset"
  /\ Becomes(a, "ringing")
  /\ over' = over \cup {a}
  /\ UNCHANGED <<clock, due, rings, faults>>

(* By hand, or because an alarm has expired.                               *)
Cancel ==
  /\ over \subseteq over'
  /\ \A a \in over' : a \in Alarms /\ stage[a] # "unset"
  /\ UNCHANGED <<clock, due, stage, rings, faults>>

ToCall(a) == stage[a] = "quiet" /\ a \notin over /\ due[a] # Never /\ due[a] <= clock

(* A round begins when the last one has no alarm left.                     *)
CallAllDue ==
  /\ \A a \in Alarms : stage[a] # "called" /\ (stage[a] = "ringing" => due[a] = Never)
  /\ stage' = [a \in Alarms |-> IF ToCall(a) THEN "called" ELSE stage[a]]
  /\ UNCHANGED <<clock, due, over, rings, faults>>

TickOff(a) ==
  /\ stage[a] = "called"
  /\ Becomes(a, "ringing")
  /\ over' = over \cup {a}
  /\ UNCHANGED <<clock, due, rings, faults>>

TickFails(a) ==
  /\ stage[a] = "called"
  /\ Becomes(a, "ringing")
  /\ faults' = faults + 1
  /\ UNCHANGED <<clock, due, over, rings>>

Ring(a) ==
  /\ stage[a] = "ringing"
  /\ Becomes(a, "quiet")
  /\ rings' = [rings EXCEPT ![a] = @ + 1]
  /\ UNCHANGED <<clock, due, over, faults>>

Outage ==
  /\ stage' = [a \in Alarms |-> IF stage[a] = "unset" THEN "unset" ELSE "quiet"]
  /\ faults' = faults + 1
  /\ UNCHANGED <<clock, due, over, rings>>

Tick == clock' = clock + 1 /\ UNCHANGED <<due, stage, over, rings, faults>>

AlarmNext ==
  \/ Cancel \/ CallAllDue \/ Outage \/ Tick
  \/ \E a \in Alarms :
       SetForLater(a) \/ RingAtOnce(a) \/ TickOff(a) \/ TickFails(a) \/ Ring(a)

AlarmSpec == AlarmInit /\ [][AlarmNext]_alarmVars
=============================================================================
