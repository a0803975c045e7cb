------------------------------ MODULE FundLife ------------------------------
(***************************************************************************)
(* The life of a proposal and of a payment request of the community fund:  *)
(* which states the blocks of a chain may lead them through.               *)
(***************************************************************************)
EXTENDS StateHistory

ABSENT == "ABSENT"  \* not in the view: no transaction of the chain created it

\* The life of a proposal and of a request: the states one state can lead to.
ProposalNext ==
  [f \in ProposalFlags \cup {ABSENT, NIL} |->
     CASE f = ABSENT -> {NIL}
       [] f = NIL -> {ACCEPTED, REJECTED, EXPIRED, PENDING_FUNDS}
       [] f = PENDING_FUNDS -> {ACCEPTED}
       [] f = ACCEPTED -> {PENDING_VOTING_PREQ, ACCEPTED_EXPIRED}
       [] f = PENDING_VOTING_PREQ -> {ACCEPTED_EXPIRED}
       [] OTHER -> {}]

RequestNext ==
  [f \in RequestFlags \cup {ABSENT, NIL} |->
     CASE f = ABSENT -> {NIL}
       [] f = NIL -> {ACCEPTED, REJECTED, EXPIRED}
       [] f = ACCEPTED -> {PAID}
       [] OTHER -> {}]

\* A block may create an object and decide about it.
Follows(next, f, g) ==
  \/ g = f
  \/ g \in next[f]
  \/ f = ABSENT /\ g \in next[NIL]
=============================================================================
