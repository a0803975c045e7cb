---------------------------- MODULE StateHistory ----------------------------
(***************************************************************************)
(* The state of a proposal, a payment request, a consultation or an answer *)
(* is not a field: it is a map from the hash of a block to the flag that   *)
(* block gave the object (mapState in consensus/dao.h).  Connecting a      *)
(* block adds an entry, disconnecting it erases the entry, and the current *)
(* state is the entry of the highest block.                                *)
(*                                                                         *)
(* A block is identified here by the pair <<height, fork>>: two competing  *)
(* blocks of one height have different forks, as they have different       *)
(* hashes in the code.                                                     *)
(***************************************************************************)
EXTENDS Naturals

NIL == "NIL"
ACCEPTED == "ACCEPTED"
REJECTED == "REJECTED"
EXPIRED == "EXPIRED"
PENDING_FUNDS == "PENDING_FUNDS"
PENDING_VOTING_PREQ == "PENDING_VOTING_PREQ"
PAID == "PAID"
ACCEPTED_EXPIRED == "ACCEPTED_EXPIRED"

\* The flags a block can give to a proposal and to a payment request.
ProposalFlags == {ACCEPTED, REJECTED, EXPIRED, PENDING_FUNDS,
                  PENDING_VOTING_PREQ, ACCEPTED_EXPIRED}
RequestFlags == {ACCEPTED, REJECTED, EXPIRED, PAID}
Flags == ProposalFlags \cup RequestFlags

Height(b) == b[1]

\* The history of an object no block has decided about yet.
NoHistory == [b \in {} |-> NIL]

SetState(m, b, flag) ==
  [c \in DOMAIN m \cup {b} |-> IF c = b THEN flag ELSE m[c]]

ClearState(m, b) == [c \in DOMAIN m \ {b} |-> m[c]]

\* The highest of a non-empty set of blocks; of two blocks of one height the
\* scan keeps the first it meets, in the order of the map's keys.
Highest(bs) ==
  CHOOSE b \in bs : \A c \in bs : \/ Height(c) < Height(b)
                                  \/ Height(c) = Height(b) /\ b[2] <= c[2]

GetLastState(m) == IF DOMAIN m = {} THEN NIL ELSE m[Highest(DOMAIN m)]

BlocksWithState(m, flag) == {b \in DOMAIN m : m[b] = flag}

\* The block that last gave the object this flag; asked only when there is one.
GetLastStateBlockIndexForState(m, flag) == Highest(BlocksWithState(m, flag))

-----------------------------------------------------------------------------
\* What was known of the object when the block of height h was the tip.
Upto(m, h) == [b \in {c \in DOMAIN m : Height(c) <= h} |-> m[b]]

StateAt(m, h) == GetLastState(Upto(m, h))
=============================================================================
