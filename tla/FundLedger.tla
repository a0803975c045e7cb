----------------------------- MODULE FundLedger -----------------------------
(***************************************************************************)
(* What the community fund promises, without saying how it keeps it: every *)
(* block of the chain has one page of a ledger.  A page says the state of  *)
(* every proposal and request and what was contributed so far; the two     *)
(* balances follow from that.  A new block adds a page whose states follow *)
(* from those of the page before; a reorganisation tears off the last page *)
(* and leaves exactly the pages before it.                                 *)
(***************************************************************************)
EXTENDS Integers, Sequences, FiniteSets, FundLife, Money

CONSTANTS Proposals, Requests, Amount, Parent, IsSuper(_)

VARIABLE ledger  \* a sequence of pages, one for each block of the chain

Objects == Proposals \cup Requests

LifeGoesOn(old, new) ==
  /\ \A p \in Proposals : Follows(ProposalNext, old[p], new[p])
  /\ \A r \in Requests : Follows(RequestNext, old[r], new[r])

Committed(flag) ==
  {p \in Proposals : ~IsSuper(p) /\ flag[p] \in {ACCEPTED, PENDING_VOTING_PREQ}}
Drawn(flag) == {r \in Requests : ~IsSuper(Parent[r]) /\ flag[r] \in {ACCEPTED, PAID}}

\* The page balances.
Balanced(page) ==
  /\ page.nCFLocked = Total(Committed(page.flag), Amount)
       - Total({r \in Drawn(page.flag) : Parent[r] \in Committed(page.flag)}, Amount)
  /\ page.nCFSupply = page.given - page.nCFLocked - Total(Drawn(page.flag), Amount)
  /\ page.nCFSupply >= 0 /\ page.nCFLocked >= 0

last == ledger[Len(ledger)]

Init ==
  ledger = <<[flag |-> [x \in Objects |-> ABSENT], given |-> 0,
              nCFSupply |-> 0, nCFLocked |-> 0]>>

AddPage ==
  /\ Len(ledger') = Len(ledger) + 1
  /\ ledger = SubSeq(ledger', 1, Len(ledger))
  /\ Balanced(last')
  /\ last'.given >= last.given
  /\ LifeGoesOn(last.flag, last'.flag)

TearPage ==
  /\ Len(ledger) > 1
  /\ ledger' = SubSeq(ledger, 1, Len(ledger) - 1)

Next == AddPage \/ TearPage

Spec == Init /\ [][Next]_ledger
=============================================================================
