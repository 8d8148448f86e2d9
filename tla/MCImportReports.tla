-------------------------- MODULE MCImportReports --------------------------
(***************************************************************************)
(* An instance of ImportReports for TLC: two transactions of one risk    *)
(* level, with different currencies and merchants, so that each breakdown  *)
(* has one or two groups.                                                  *)
(***************************************************************************)
EXTENDS ImportReports, TLC

CONSTANTS c1, t1, t2

MCCurrency  == (t1 :> "EUR") @@ (t2 :> "USD")
MCRiskLevel == (t1 :> "HIGH") @@ (t2 :> "HIGH")
MCMerchant  == (t1 :> "a") @@ (t2 :> "b")

\* Nothing, too little, the least, and more than the most.
Limits == {None, 0, 1, MAX_PAGE_SIZE + 1}
=============================================================================
