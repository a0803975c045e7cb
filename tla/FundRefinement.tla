--------------------------- MODULE FundRefinement ---------------------------
(***************************************************************************)
(* The fund keeps the promise of FundLedger.  The pages are those of the   *)
(* connected blocks; the last page shows the states the code sees now, the *)
(* earlier ones what the histories say of them.                            *)
(***************************************************************************)
EXTENDS CommunityFund

PageFlag(x, h) ==
  IF ~ExistsAt(x, h) THEN "ABSENT"
  ELSE IF pc = "idle" /\ h = tip THEN State(x) ELSE FlagAt(x, h)

Page(h) == [flag      |-> [x \in Objects |-> PageFlag(x, h)],
            given     |-> chain[h].given,
            nCFSupply |-> chain[h].nCFSupply,
            nCFLocked |-> chain[h].nCFLocked]

Pages == [h \in 1..Connected |-> Page(h)]

Ledger == INSTANCE FundLedger WITH ledger <- Pages

\* Every behaviour of the fund is one of the ledger: states follow the life of
\* a proposal and of a request, balances follow from states at every block,
\* and disconnecting the tip restores the previous block's states exactly.
LedgerSpec == Ledger!Spec

\* What LedgerSpec says of a step.
LedgerStep == [Ledger!Next]_Pages
=============================================================================
