------------------------------- MODULE DebtEngine -------------------------------
(***************************************************************************)
(* The payoff simulations of debt/engine.go. Build works out a monthly     *)
(* target and a lump sum, and then runs three simulations that do not      *)
(* depend on each other: the debts in avalanche order, the debts in        *)
(* snowball order, and the baseline in which each debt gets its minimum    *)
(* and no more. The model advances all of them together, a month at a      *)
(* time, so that they can be compared on the way.                          *)
(*                                                                         *)
(* Abstractions: an amount is an integer, a number of thousandths; the     *)
(* interest of a month is rounded to one, as a float is to its last bit    *)
(* (Slack bounds what this may change); dates, texts and the conversion to *)
(* cents in the answer are left out. The handler refuses negative figures. *)
(***************************************************************************)
EXTENDS Integers, Sequences, SequencesExt, FiniteSetsExt

CONSTANTS
  Inputs,      (* the requests of a behaviour: income, fixed, cash, override  *)
               (* and a sequence of debts with balance, apr and min           *)
  MaxMonths,   (* horizon of a simulation (600 in the code)                   *)
  MaxOwed,     (* bound: the history beyond is followed up to this total      *)
  Epsilon      (* below it a balance counts as cleared (5 thousandths)        *)

Debt == [balance : Nat, apr : Nat, min : Nat]
ASSUME DebtAssumption ==
  /\ \A in \in Inputs : in.debts \in Seq(Debt)
  /\ \A in \in Inputs : in.income \in Nat /\ in.fixed \in Nat /\ in.cash \in Nat
                        /\ in.override \in Nat
  /\ MaxMonths \in Nat \ {0} /\ Epsilon \in Nat /\ MaxOwed \in Nat

Strategies == {"avalanche", "snowball"}
Unpaid == 0 - 1       (* the payoff month of a debt that has none            *)

VARIABLES
  input,     (* the request, with the debts that count                        *)
  order,     (* the order of the debts, for each strategy                     *)
  sim,       (* simulate, for each strategy                                   *)
  base,      (* simulateMinimumsOnly                                          *)
  beyond     (* history: the strategies without the check that gives up       *)

vars == <<input, order, sim, base, beyond>>

-----------------------------------------------------------------------------
(* The figures of Build.                                                   *)

AtLeast0(x) == IF x > 0 THEN x ELSE 0
Least(a, b) == IF a < b THEN a ELSE b
Total(f) == MapThenSumSet(LAMBDA i : f[i], DOMAIN f)

(* A cleared debt is no debt.                                              *)
RealDebts(ds) == SelectSeq(ds, LAMBDA d : d.balance > Epsilon)

Minimums(in) == Total([i \in DOMAIN in.debts |-> in.debts[i].min])
Essentials(in) == in.fixed + Minimums(in)
Disposable(in) == in.income - in.fixed

(* One month of essentials stays in reserve.                               *)
LumpSum(in) == AtLeast0(in.cash - Least(in.cash, Essentials(in)))

(* A tenth of what is left after the minimums is held back.                *)
Target(in) ==
  IF in.override > 0 THEN in.override
  ELSE Disposable(in) - AtLeast0(Disposable(in) - Minimums(in)) \div 10

Shortfall(in) == AtLeast0(Essentials(in) - in.income)
Runs(in) == in.debts # <<>> /\ Shortfall(in) < Epsilon

Before(s, d, e) ==
  IF s = "snowball" THEN d.balance < e.balance \/ (d.balance = e.balance /\ d.apr > e.apr)
                    ELSE d.apr > e.apr \/ (d.apr = e.apr /\ d.balance < e.balance)

(* Mutant: the cheapest debt first.                                        *)
OrderForReversed(ds, s) ==
  SetToSortSeq(DOMAIN ds, LAMBDA i, j : Before(s, ds[j], ds[i])
                                        \/ (~Before(s, ds[i], ds[j]) /\ i < j))

(* A stable sort of the indices.                                           *)
OrderFor(ds, s) ==
  SetToSortSeq(DOMAIN ds, LAMBDA i, j : Before(s, ds[i], ds[j])
                                        \/ (~Before(s, ds[j], ds[i]) /\ i < j))

-----------------------------------------------------------------------------
(* A month of simulate. A purse holds the balances, what is left to spend, *)
(* and the payoff months.                                                  *)

(* Mutant: the payment does not come off what is left.                     *)
PayFreely(purse, i, amount, month) ==
  LET pay == Least(Least(amount, purse.bal[i]), purse.left)
      rest == purse.bal[i] - pay
  IN  [bal |-> [purse.bal EXCEPT ![i] = IF rest <= Epsilon THEN 0 ELSE rest],
       left |-> purse.left - (IF rest <= Epsilon THEN 0 ELSE pay),
       payoff |-> [purse.payoff EXCEPT ![i] = IF rest <= Epsilon THEN month ELSE @]]

Pay(purse, i, amount, month) ==
  LET pay == Least(Least(amount, purse.bal[i]), purse.left)
      rest == purse.bal[i] - pay
  IN  [bal |-> [purse.bal EXCEPT ![i] = IF rest <= Epsilon THEN 0 ELSE rest],
       left |-> purse.left - pay,
       payoff |-> [purse.payoff EXCEPT ![i] = IF rest <= Epsilon THEN month ELSE @]]

(* All that is left goes to the first debt that is not cleared, and on to  *)
(* the next one the moment it clears.                                      *)
Cascade(purse, ord, month) ==
  FoldLeft(LAMBDA p, i : IF p.left > Epsilon /\ p.bal[i] > 0
                         THEN Pay(p, i, p.left, month) ELSE p, purse, ord)

FirstUnpaid(bal, ord) == SelectInSeq(ord, LAMBDA i : bal[i] > 0)

(* Mutant: the minimums are forgotten.                                     *)
PayMinimumsNever(purse, ord, ds, month) == purse

(* Every debt but the focus gets its minimum.                              *)
PayMinimums(purse, ord, ds, month) ==
  LET focus == ord[FirstUnpaid(purse.bal, ord)]
  IN  FoldLeft(LAMBDA p, i : IF p.bal[i] <= 0 \/ i = focus \/ p.left <= Epsilon THEN p
                             ELSE Pay(p, i, ds[i].min, month), purse, ord)

(* Balance times rate over 12 months, rounded.                             *)
Interest(b, d) == (b * d.apr + 600) \div 1200

Dues(bal, ds) == [i \in DOMAIN ds |-> IF bal[i] <= 0 THEN 0 ELSE Interest(bal[i], ds[i])]

(* The lump sum lands before any interest. paid is history.                *)
Start(in, ord) ==
  LET debts == [bal |-> [i \in DOMAIN in.debts |-> in.debts[i].balance],
                left |-> LumpSum(in),
                payoff |-> [i \in DOMAIN in.debts |-> Unpaid]]
      purse == Cascade(debts, ord, 0)
  IN  [bal |-> purse.bal, payoff |-> purse.payoff, months |-> 0, interest |-> 0,
       status |-> IF Total(purse.bal) <= Epsilon THEN "cleared" ELSE "running",
       paid |-> LumpSum(in) - purse.left]

(* One month of a run; patient is FALSE in the code, where a month without *)
(* progress ends the simulation.                                           *)
SimulateMonth(in, ord, run, patient) ==
  LET month == run.months + 1
      dues  == Dues(run.bal, in.debts)
      grown == [bal |-> [i \in DOMAIN in.debts |-> run.bal[i] + dues[i]],
                left |-> Target(in), payoff |-> run.payoff]
      purse == Cascade(PayMinimums(grown, ord, in.debts, month), ord, month)
      after == Total(purse.bal)
  IN  [bal |-> purse.bal, payoff |-> purse.payoff, months |-> month,
       interest |-> run.interest + Total(dues),
       status |-> CASE after <= Epsilon -> "cleared"
                    [] after > Epsilon /\ ~patient /\ after >= Total(run.bal) - Epsilon -> "stuck"
                    [] OTHER -> IF month = MaxMonths \/ after > MaxOwed THEN "capped" ELSE "running",
       paid |-> run.paid + Target(in) - purse.left]

-----------------------------------------------------------------------------
(* A month of simulateMinimumsOnly: each debt on its own.                  *)

StartMinimums(in) ==
  [bal |-> [i \in DOMAIN in.debts |-> in.debts[i].balance],
   months |-> [i \in DOMAIN in.debts |-> 0], interest |-> 0,
   open |-> DOMAIN in.debts, never |-> {}]

MinimumsMonth(in, run) ==
  LET ds == in.debts
      due(i)   == Interest(run.bal[i], ds[i])
      pay(i)   == Least(ds[i].min, run.bal[i] + due(i))
      rest(i)  == run.bal[i] + due(i) - pay(i)
      never    == {i \in run.open : rest(i) > Epsilon
                     /\ (pay(i) <= due(i) + Epsilon \/ run.months[i] + 1 = MaxMonths)}
  IN  [bal |-> [i \in DOMAIN ds |-> IF i \in run.open THEN rest(i) ELSE run.bal[i]],
       months |-> [i \in DOMAIN ds |-> run.months[i] + (IF i \in run.open THEN 1 ELSE 0)],
       interest |-> run.interest + MapThenSumSet(due, run.open),
       open |-> {i \in run.open : rest(i) > Epsilon} \ never,
       never |-> run.never \cup never]

-----------------------------------------------------------------------------
Init ==
  \E in \in Inputs :
    /\ input = [in EXCEPT !.debts = RealDebts(in.debts)]
    /\ Runs(input)
    /\ order = [s \in Strategies |-> OrderFor(input.debts, s)]
    /\ sim = [s \in Strategies |-> Start(input, order[s])]
    /\ base = StartMinimums(input)
    /\ beyond = sim

Advance(run, s, patient) ==
  IF run.status = "running" THEN SimulateMonth(input, order[s], run, patient) ELSE run

(* The next month of every simulation that is still running.               *)
Month ==
  /\ sim' = [s \in Strategies |-> Advance(sim[s], s, FALSE)]
  /\ base' = MinimumsMonth(input, base)
  /\ beyond' = [s \in Strategies |-> Advance(beyond[s], s, TRUE)]
  /\ UNCHANGED <<input, order>>

Next == Month

Spec == Init /\ [][Next]_vars
-----------------------------------------------------------------------------
(* Properties.                                                             *)

Status == {"running", "cleared", "stuck", "capped"}

TypeOK ==
  \A s \in Strategies :
    /\ \A i \in DOMAIN input.debts :
         /\ order[s][i] \in DOMAIN input.debts
         /\ sim[s].bal[i] \in Nat /\ beyond[s].bal[i] \in Nat /\ base.bal[i] \in Nat
         /\ sim[s].payoff[i] \in 0..MaxMonths \cup {Unpaid}
    /\ sim[s].months \in 0..MaxMonths
    /\ sim[s].status \in Status
    /\ base.open \subseteq DOMAIN input.debts /\ base.never \subseteq DOMAIN input.debts

(* What rounding the interest of a month and a debt to a thousandth, and   *)
(* forgetting a cleared remainder, may add up to.                          *)
Slack(months) == (months + 1) * Len(input.debts) * (Epsilon + 1)

(* The books of a strategy balance: what was owed, with the interest, is   *)
(* owed still or was paid, but for the remainders that were forgotten, and *)
(* every month before the last one spends the whole target, no less and no *)
(* more.                                                                   *)
BooksBalance ==
  \A s \in Strategies :
    LET run  == sim[s]
        debt == Total([i \in DOMAIN input.debts |-> input.debts[i].balance])
        lost == debt + run.interest - run.paid - Total(run.bal)
        most == LumpSum(input) + run.months * Target(input)
    IN  /\ lost \in 0 .. Epsilon * Len(input.debts)
        /\ run.paid <= most
        /\ run.status # "cleared" => run.paid >= most - Epsilon * (run.months + 1)

(* Each debt of a plan that clears has a payoff month, the last of them is *)
(* the debt-free month, and a debt with a balance has none.                *)
PayoffsMatch ==
  \A s \in Strategies :
    LET run == sim[s]
    IN  /\ \A i \in DOMAIN input.debts : (run.payoff[i] = Unpaid) = (run.bal[i] > 0)
        /\ run.status = "cleared" =>
             run.months = Max({run.payoff[i] : i \in DOMAIN input.debts})

(* No money vanishes, is spent twice or is reported where it did not go,   *)
(* over all the months of a plan (debt/engine.go:410).                     *)
MoneyAddsUp == TypeOK /\ BooksBalance /\ PayoffsMatch

(* A plan that can pay all the minimums is in no month behind the baseline *)
(* on a debt that the baseline still has open, and when both are done it   *)
(* has paid no more interest: what Build reports as interest saved is      *)
(* saved.                                                                  *)
PlanBeatsBaseline ==
  Target(input) >= Minimums(input) =>
    \A s \in Strategies : sim[s].status \in {"running", "cleared"} =>
      /\ \A i \in base.open : sim[s].bal[i] <= base.bal[i] + Slack(sim[s].months)
      /\ sim[s].status = "cleared" /\ base.open = {} /\ base.never = {}
           => sim[s].interest <= base.interest + Slack(sim[s].months)

(* The avalanche is the "cheapest overall" of the two orders: where the    *)
(* minimums are met and both clear the debts, it pays less interest, up to *)
(* the rounding, and it is done no later than in the same month.           *)
AvalancheIsCheapest ==
  LET a == sim["avalanche"]
      b == sim["snowball"]
  IN  Target(input) >= Minimums(input) /\ a.status = "cleared" /\ b.status = "cleared"
        => a.interest <= b.interest + Slack(b.months) /\ a.months <= b.months

(* Balances that are reported to never clear ("these balances never        *)
(* clear", debt/engine.go:285) do not clear within the horizon.            *)
StuckNeverClears ==
  \A s \in Strategies : sim[s].status = "stuck" => beyond[s].status # "cleared"
=============================================================================
