------------------------------- MODULE Money -------------------------------
(***************************************************************************)
(* The sum of an amount over a finite set.  It counts coins instead of     *)
(* adding numbers: the total of S is the number of pairs of a member of S  *)
(* and one unit of its amount.  The theorems on cardinalities then give    *)
(* the laws of sums without an induction.  MaxAmount is any bound on the   *)
(* amounts (a CAmount is a 64-bit integer): it keeps the set finite.       *)
(***************************************************************************)
EXTENDS Naturals, FiniteSets

CONSTANT MaxAmount

ASSUME MaxAmountAssumption == MaxAmount \in Nat

Coins(S, amount) == {c \in S \X (1..MaxAmount) : c[2] <= amount[c[1]]}

Total(S, amount) == Cardinality(Coins(S, amount))
=============================================================================
