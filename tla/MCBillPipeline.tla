---------------------------- MODULE MCBillPipeline ----------------------------
(* Small instances of BillPipeline for TLC.                                *)
EXTENDS BillPipeline, TLC

CONSTANTS f1, f2, r1, r2, r3

(* A bill that exceeds the budget of its month, and one that does not.     *)
MCAlertLists == {<<"bill_imported", "budget_exceeded">>}
MCQuiet == {<<"bill_imported">>}

MCKindsAll == AllKinds
MCKindsRestore == {"upload", "reextract", "softdelete"}

MCSymmetry == Permutations(Requests)
=============================================================================
