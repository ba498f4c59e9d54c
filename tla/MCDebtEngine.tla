----------------------------- MODULE MCDebtEngine -----------------------------
(* Small instances of DebtEngine for TLC.                                  *)
EXTENDS DebtEngine, TLC

Thousand == 1000

Household(income, cash, override, ds) ==
  [income |-> income * Thousand, fixed |-> 100 * Thousand, cash |-> cash * Thousand,
   override |-> override * Thousand, debts |-> ds]

Owing(balances, rates, mins) ==
  {[balance |-> b * Thousand, apr |-> a, min |-> m * Thousand] :
     b \in balances, a \in rates, m \in mins}

(* Two debts that differ in size, rate and minimum, or three with less     *)
(* choice, and a settled one; with and without cash and an override.       *)
MCInputs ==
  LET some == Owing({80, 300}, {0, 24, 120}, {5, 40})
      few  == Owing({80, 300}, {12, 60}, {10})
      many == {<<d, e>> : d, e \in some} \cup {<<d, e, f>> : d, e, f \in few}
                \cup {<<d, [d EXCEPT !.balance = 0]>> : d \in few}
  IN  {Household(i, c, o, ds) : i \in {150, 200}, c \in {0, 250}, o \in {0, 30, 90}, ds \in many}

(* A dear debt that shrinks and a large one that still grows.              *)
MCMixed ==
  {Household(income, 0, 0, <<[balance |-> 100 * Thousand, apr |-> a, min |-> 1 * Thousand],
                             [balance |-> 1000 * Thousand, apr |-> 12, min |-> 1 * Thousand]>>) :
     income \in 110..130, a \in {60, 120}}
===============================================================================
