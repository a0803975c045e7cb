------------------------ MODULE CommunityFundProofs ------------------------
(***************************************************************************)
(* Proofs about CommunityFund for every set of proposals and requests,     *)
(* every amount, every value of the parameters and every chain.  They rest *)
(* on the laws of Total, from the theorems on cardinalities, and on what   *)
(* SetState, ClearState and GetLastState do to a state history.            *)
(***************************************************************************)
EXTENDS CommunityFund, Integers, FiniteSetTheorems, WellFoundedInduction, TLAPS

-----------------------------------------------------------------------------
(* The laws of Total.                                                      *)

\* The coins of a finite set are finitely many.
LEMMA CoinsFinite ==
  ASSUME NEW S, IsFiniteSet(S), NEW amount
  PROVE  IsFiniteSet(Coins(S, amount))
<1>1. IsFiniteSet(1..MaxAmount)
  BY FS_Interval, MaxAmountAssumption
<1>2. IsFiniteSet(S \X (1..MaxAmount))
  BY <1>1, FS_Product
<1>. QED  BY <1>2, FS_Subset DEF Coins

\* A total is a natural number.
LEMMA TotalType ==
  ASSUME NEW S, IsFiniteSet(S), NEW amount
  PROVE  Total(S, amount) \in Nat
BY CoinsFinite, FS_CardinalityType DEF Total

\* The total of nothing is nothing.
LEMMA TotalEmpty ==
  ASSUME NEW amount
  PROVE  Total({}, amount) = 0
<1>1. Coins({}, amount) = {}
  BY DEF Coins
<1>. QED  BY <1>1, FS_EmptySet DEF Total

\* The total of two sets without a common member is the sum of their totals.
LEMMA TotalUnion ==
  ASSUME NEW S, NEW T, IsFiniteSet(S), IsFiniteSet(T), S \cap T = {}, NEW amount
  PROVE  Total(S \cup T, amount) = Total(S, amount) + Total(T, amount)
<1>1. Coins(S \cup T, amount) = Coins(S, amount) \cup Coins(T, amount)
  BY DEF Coins
<1>2. Coins(S, amount) \cap Coins(T, amount) = {}
  BY DEF Coins
<1>3. IsFiniteSet(Coins(S, amount)) /\ IsFiniteSet(Coins(T, amount))
  BY CoinsFinite
<1>4. Cardinality(Coins(S, amount)) \in Nat /\ Cardinality(Coins(T, amount)) \in Nat
  BY <1>3, FS_CardinalityType
<1>5. Cardinality(Coins(S, amount) \cup Coins(T, amount))
        = Cardinality(Coins(S, amount)) + Cardinality(Coins(T, amount)) - Cardinality({})
  BY <1>2, <1>3, FS_Union
<1>6. Cardinality({}) = 0
  BY FS_EmptySet
<1>7. Total(S \cup T, amount) = Cardinality(Coins(S, amount) \cup Coins(T, amount))
  BY <1>1, Zenon DEF Total
<1>. QED  BY <1>4, <1>5, <1>6, <1>7 DEF Total

\* The total of one member is its amount.
LEMMA TotalSingleton ==
  ASSUME NEW x, NEW amount, amount[x] \in 0..MaxAmount
  PROVE  Total({x}, amount) = amount[x]
<1>. DEFINE n == amount[x]
            f == [k \in 1..n |-> <<x, k>>]
<1>1. n \in Nat /\ MaxAmount \in Nat /\ n <= MaxAmount
  BY MaxAmountAssumption
<1>2. Coins({x}, amount) = {<<x, k>> : k \in 1..n}
  BY <1>1 DEF Coins
<1>3. f \in Bijection(1..n, Coins({x}, amount))
  <2>1. f \in [1..n -> Coins({x}, amount)]
    BY <1>2
  <2>2. \A a, b \in 1..n : f[a] = f[b] => a = b
    OBVIOUS
  <2>3. \A c \in Coins({x}, amount) : \E k \in 1..n : f[k] = c
    BY <1>2
  <2>. HIDE DEF f
  <2>. QED  BY <2>1, <2>2, <2>3 DEF Bijection, Injection, IsInjective, Surjection
<1>4. ExistsBijection(1..n, Coins({x}, amount))
  BY <1>3 DEF ExistsBijection
<1>. QED  BY <1>1, <1>4, FS_CountingElements DEF Total

\* A new member adds its amount.
LEMMA TotalAdd ==
  ASSUME NEW S, IsFiniteSet(S), NEW x, x \notin S, NEW amount, amount[x] \in 0..MaxAmount
  PROVE  Total(S \cup {x}, amount) = Total(S, amount) + amount[x]
<1>1. IsFiniteSet({x}) /\ S \cap {x} = {}
  BY FS_Singleton
<1>2. Total(S \cup {x}, amount) = Total(S, amount) + Total({x}, amount)
  BY <1>1, TotalUnion
<1>3. Total({x}, amount) = amount[x]
  BY TotalSingleton
<1>. QED  BY <1>2, <1>3

\* A member that leaves takes its amount.
LEMMA TotalRemove ==
  ASSUME NEW S, IsFiniteSet(S), NEW x \in S, NEW amount, amount[x] \in 0..MaxAmount
  PROVE  Total(S \ {x}, amount) = Total(S, amount) - amount[x]
<1>1. IsFiniteSet(S \ {x}) /\ x \notin S \ {x} /\ (S \ {x}) \cup {x} = S
  BY FS_RemoveElement
<1>2. Total(S, amount) = Total(S \ {x}, amount) + amount[x]
  BY <1>1, TotalAdd
<1>3. Total(S \ {x}, amount) \in Nat
  BY <1>1, TotalType
<1>. QED  BY <1>2, <1>3

\* A part totals at most the whole.
LEMMA TotalSubset ==
  ASSUME NEW S, IsFiniteSet(S), NEW T, T \subseteq S, NEW amount
  PROVE  Total(T, amount) <= Total(S, amount)
<1>1. Coins(T, amount) \subseteq Coins(S, amount)
  BY DEF Coins
<1>. QED  BY <1>1, CoinsFinite, FS_Subset DEF Total

\* The members of a finite set can be numbered.
LEMMA MembersNumbered ==
  ASSUME NEW S, IsFiniteSet(S)
  PROVE  \E f \in [S -> 1..Cardinality(S)] : \A a, b \in S : f[a] = f[b] => a = b
<1>1. ExistsBijection(1..Cardinality(S), S)
  BY FS_CardinalityType
<1>2. PICK g \in [1..Cardinality(S) -> S] : \A s \in S : \E k \in 1..Cardinality(S) : g[k] = s
  BY <1>1 DEF ExistsBijection, Bijection, Surjection
<1>. DEFINE f == [s \in S |-> CHOOSE k \in 1..Cardinality(S) : g[k] = s]
<1>3. ASSUME NEW s \in S PROVE f[s] \in 1..Cardinality(S) /\ g[f[s]] = s
  BY <1>2
<1>4. f \in [S -> 1..Cardinality(S)]
  BY <1>3
<1>. HIDE DEF f
<1>. QED  BY <1>3, <1>4

\* If what belongs to each member of C totals at most the member's amount,
\* then what belongs to members of C totals at most the total of C.
LEMMA TotalByParent ==
  ASSUME NEW C, IsFiniteSet(C), NEW D, IsFiniteSet(D), NEW parent, NEW amount,
         \A p \in C : amount[p] \in 0..MaxAmount,
         \A p \in C : Total({r \in D : parent[r] = p}, amount) <= amount[p]
  PROVE  Total({r \in D : parent[r] \in C}, amount) <= Total(C, amount)
<1>. DEFINE E    == {r \in D : parent[r] \in C}
            S(p) == Coins({r \in D : parent[r] = p}, amount)
            n(p) == Cardinality(S(p))
            f(p) == CHOOSE h \in [S(p) -> 1..n(p)] : \A a, b \in S(p) : h[a] = h[b] => a = b
            g    == [c \in Coins(E, amount) |-> <<parent[c[1]], f(parent[c[1]])[c]>>]
<1>1. ASSUME NEW p \in C
      PROVE  /\ n(p) \in Nat /\ n(p) <= amount[p]
             /\ f(p) \in [S(p) -> 1..n(p)] /\ \A a, b \in S(p) : f(p)[a] = f(p)[b] => a = b
  <2>1. IsFiniteSet({r \in D : parent[r] = p})
    BY FS_Subset
  <2>2. IsFiniteSet(S(p))
    BY <2>1, CoinsFinite
  <2>3. n(p) \in Nat
    BY <2>2, FS_CardinalityType
  <2>4. \E h \in [S(p) -> 1..n(p)] : \A a, b \in S(p) : h[a] = h[b] => a = b
    BY <2>2, MembersNumbered
  <2>. QED  BY <2>3, <2>4 DEF Total
<1>. HIDE DEF S, n, f
<1>2. ASSUME NEW p \in C, NEW c \in S(p)
      PROVE  f(p)[c] \in 1..n(p) /\ \A d \in S(p) : f(p)[c] = f(p)[d] => c = d
  BY <1>1
<1>3. ASSUME NEW c \in Coins(E, amount)
      PROVE  parent[c[1]] \in C /\ c \in S(parent[c[1]])
  BY DEF S, Coins
<1>4. ASSUME NEW c \in Coins(E, amount)
      PROVE  g[c] \in Coins(C, amount)
  <2>. DEFINE p == parent[c[1]]
              k == f(p)[c]
  <2>1. p \in C /\ c \in S(p)
    BY <1>3
  <2>2. f(p)[c] \in 1..n(p) /\ n(p) \in Nat /\ n(p) <= amount[p]
    BY <1>1, <1>2, <2>1
  <2>3. amount[p] \in 0..MaxAmount
    BY <2>1
  <2>4. k \in 1..MaxAmount /\ k <= amount[p]
    BY <2>2, <2>3, MaxAmountAssumption
  <2>5. g[c] = <<p, k>>
    OBVIOUS
  <2>. HIDE DEF p, k
  <2>6. <<p, k>> \in Coins(C, amount)
    BY <2>1, <2>4 DEF Coins
  <2>. QED  BY <2>5, <2>6
<1>5. ASSUME NEW c \in Coins(E, amount), NEW d \in Coins(E, amount), g[c] = g[d]
      PROVE  c = d
  <2>1. parent[c[1]] = parent[d[1]] /\ f(parent[c[1]])[c] = f(parent[d[1]])[d]
    BY <1>5
  <2>2. parent[c[1]] \in C /\ c \in S(parent[c[1]]) /\ d \in S(parent[c[1]])
    BY <1>3, <2>1
  <2>. HIDE DEF g
  <2>. QED  BY <1>2, <2>1, <2>2
<1>6. g \in Injection(Coins(E, amount), Coins(C, amount))
  <2>1. g \in [Coins(E, amount) -> Coins(C, amount)]
    BY <1>4
  <2>2. DOMAIN g = Coins(E, amount) /\ \A c, d \in Coins(E, amount) : g[c] = g[d] => c = d
    BY <1>5
  <2>. HIDE DEF g
  <2>. QED  BY <2>1, <2>2 DEF Injection, IsInjective
<1>. QED  BY <1>6, CoinsFinite, FS_Injection DEF Total

-----------------------------------------------------------------------------
(* State histories.                                                        *)

\* A non-empty set of numbers has a least member.
LEMMA LeastNumber ==
  ASSUME NEW T, T \subseteq Nat, T # {}
  PROVE  \E x \in T : \A y \in T : x <= y
<1>1. PICK x \in T : \A y \in T : ~(<<y, x>> \in OpToRel(<, Nat))
  BY NatLessThanWellFounded, WFMin, Zenon
<1>2. \A y \in T : ~(y < x)
  BY <1>1 DEF OpToRel
<1>. QED  BY <1>2

\* A bounded set of numbers has a greatest member.
LEMMA GreatestNumber ==
  ASSUME NEW T, T \subseteq Nat, T # {}, NEW n \in Nat, \A x \in T : x <= n
  PROVE  \E x \in T : \A y \in T : y <= x
<1>. DEFINE U == {n - x : x \in T}
<1>1. U \subseteq Nat /\ U # {}
  <2>1. PICK x \in T : TRUE
    OBVIOUS
  <2>2. n - x \in U
    BY <2>1
  <2>3. \A y \in T : n - y \in Nat
    OBVIOUS
  <2>. QED  BY <2>2, <2>3
<1>2. PICK u \in U : \A v \in U : u <= v
  BY <1>1, LeastNumber
<1>3. PICK x \in T : u = n - x
  BY <1>2
<1>4. ASSUME NEW y \in T PROVE y <= x
  <2>1. n - y \in U
    OBVIOUS
  <2>2. n - x <= n - y
    BY <1>2, <1>3, <2>1
  <2>. QED  BY <2>2
<1>. QED  BY <1>3, <1>4

\* The scan for the highest block finds one.
LEMMA HighestIsHighest ==
  ASSUME NEW B, B \subseteq Nat \X Nat, B # {}, NEW n \in Nat,
         \A b \in B : Height(b) <= n
  PROVE  /\ Highest(B) \in B
         /\ \A c \in B : Height(c) <= Height(Highest(B))
<1>. DEFINE P(b) == \A c \in B : \/ Height(c) < Height(b)
                                 \/ Height(c) = Height(b) /\ b[2] <= c[2]
<1>1. PICK h \in {Height(b) : b \in B} : \A k \in {Height(b) : b \in B} : k <= h
  <2>1. {Height(b) : b \in B} \subseteq Nat /\ {Height(b) : b \in B} # {}
    BY DEF Height
  <2>2. \A k \in {Height(b) : b \in B} : k <= n
    OBVIOUS
  <2>. QED  BY <2>1, <2>2, GreatestNumber
<1>. DEFINE F == {b[2] : b \in {c \in B : Height(c) = h}}
<1>2. PICK f \in F : \A g \in F : f <= g
  <2>1. F \subseteq Nat /\ F # {}
    BY <1>1
  <2>. QED  BY <2>1, LeastNumber
<1>3. PICK b \in B : Height(b) = h /\ b[2] = f
  BY <1>2
<1>4. P(b)
  <2>1. ASSUME NEW c \in B
        PROVE  \/ Height(c) < Height(b)
               \/ Height(c) = Height(b) /\ b[2] <= c[2]
    <3>1. Height(c) \in Nat /\ h \in Nat /\ Height(c) <= h
      BY <1>1 DEF Height
    <3>2. Height(c) = h => c[2] \in F
      OBVIOUS
    <3>. HIDE DEF F
    <3>. QED  BY <1>2, <1>3, <3>1, <3>2
  <2>. QED  BY <2>1
<1>5. Highest(B) \in B /\ P(Highest(B))
  BY <1>3, <1>4 DEF Highest
<1>. QED  BY <1>5 DEF Height

\* The last state of an object that has one is what its highest block gave it.
LEMMA LastStateGiven ==
  ASSUME NEW m, DOMAIN m \subseteq Nat \X Nat, DOMAIN m # {},
         NEW n \in Nat, \A b \in DOMAIN m : Height(b) <= n
  PROVE  \E b \in DOMAIN m : /\ m[b] = GetLastState(m)
                             /\ \A c \in DOMAIN m : Height(c) <= Height(b)
BY HighestIsHighest DEF GetLastState

\* The state a block gives is the last one, as no block is above it...
LEMMA SetStateLast ==
  ASSUME NEW m, DOMAIN m \subseteq Nat \X Nat, NEW b \in Nat \X Nat, NEW flag,
         \A c \in DOMAIN m : c = b \/ Height(c) < Height(b)
  PROVE  GetLastState(SetState(m, b, flag)) = flag
<1>. DEFINE B == DOMAIN m \cup {b}
<1>1. DOMAIN SetState(m, b, flag) = B /\ B # {} /\ SetState(m, b, flag)[b] = flag
  BY DEF SetState
<1>2. \A c \in B : \/ Height(c) < Height(b)
                   \/ Height(c) = Height(b) /\ b[2] <= c[2]
  OBVIOUS
<1>3. ASSUME NEW d \in B, \A c \in B : \/ Height(c) < Height(d)
                                       \/ Height(c) = Height(d) /\ d[2] <= c[2]
      PROVE  d = b
  <2>1. Height(d) \in Nat /\ Height(b) \in Nat
    BY DEF Height
  <2>. QED  BY <1>3, <2>1
<1>4. Highest(B) = b
  BY <1>2, <1>3 DEF Highest
<1>. QED  BY <1>1, <1>4 DEF GetLastState

\* ...and what was known before that block stays known.
LEMMA UptoSetState ==
  ASSUME NEW m, DOMAIN m \subseteq Nat \X Nat, NEW b \in Nat \X Nat, NEW flag,
         NEW h \in Nat, h < Height(b)
  PROVE  Upto(SetState(m, b, flag), h) = Upto(m, h)
<1>. DEFINE D == {c \in DOMAIN m : Height(c) <= h}
<1>1. {c \in DOMAIN m \cup {b} : Height(c) <= h} = D
  BY DEF Height
<1>2. \A c \in D : c # b
  BY DEF Height
<1>3. Upto(SetState(m, b, flag), h) = [c \in D |-> SetState(m, b, flag)[c]]
  BY <1>1 DEF Upto, SetState
<1>4. \A c \in D : SetState(m, b, flag)[c] = m[c]
  BY <1>2 DEF SetState
<1>. QED  BY <1>3, <1>4 DEF Upto

\* What was known before a block stays known when the block is disconnected.
LEMMA UptoClearState ==
  ASSUME NEW m, DOMAIN m \subseteq Nat \X Nat, NEW b \in Nat \X Nat,
         NEW h \in Nat, h < Height(b)
  PROVE  Upto(ClearState(m, b), h) = Upto(m, h)
<1>. DEFINE D == {c \in DOMAIN m : Height(c) <= h}
<1>1. {c \in DOMAIN m \ {b} : Height(c) <= h} = D
  BY DEF Height
<1>2. \A c \in D : c # b
  BY DEF Height
<1>3. Upto(ClearState(m, b), h) = [c \in D |-> ClearState(m, b)[c]]
  BY <1>1 DEF Upto, ClearState
<1>4. \A c \in D : ClearState(m, b)[c] = m[c]
  BY <1>2 DEF ClearState
<1>. QED  BY <1>3, <1>4 DEF Upto

\* The whole history is known at the height of its highest block.
LEMMA UptoAll ==
  ASSUME NEW m, NEW S, m \in [DOMAIN m -> S], NEW h, \A c \in DOMAIN m : Height(c) <= h
  PROVE  Upto(m, h) = m
<1>1. {c \in DOMAIN m : Height(c) <= h} = DOMAIN m
  OBVIOUS
<1>. QED  BY <1>1 DEF Upto

-----------------------------------------------------------------------------
\* Types.

\* The flags a block can give to an object.
FlagsOf(x) == IF x \in Proposals THEN ProposalFlags ELSE RequestFlags

\* Any set of requests is finite, so what it asks for has a total.
LEMMA RequestsFinite ==
  ASSUME NEW S, S \subseteq Requests
  PROVE  IsFiniteSet(S)
BY FS_Subset, ObjectsAssumption

\* The amount of an object is a number.
LEMMA AmountType ==
  ASSUME NEW x \in Objects
  PROVE  Amount[x] \in 0..MaxAmount /\ Amount[x] \in Nat
BY ObjectsAssumption, MaxAmountAssumption

\* What GetAvailable returns is an integer, whichever requests it counts.
LEMMA GetAvailableType ==
  ASSUME NEW p \in Proposals, NEW all \in BOOLEAN
  PROVE  GetAvailable(p, all) \in Int
<1>. DEFINE S == {r \in RequestsOf(p) : IF all THEN State(r) \notin {REJECTED, EXPIRED}
                                               ELSE State(r) \in {ACCEPTED, PAID}}
<1>1. S \subseteq Requests
  BY DEF RequestsOf
<1>2. IsFiniteSet(S)
  BY <1>1, RequestsFinite
<1>3. Total(S, Amount) \in Nat
  BY <1>2, TotalType
<1>4. Amount[p] \in Nat
  BY AmountType DEF Objects
<1>5. GetAvailable(p, all) = Amount[p] - Total(S, Amount)
  BY DEF GetAvailable
<1>. QED  BY <1>3, <1>4, <1>5

\* The tip is a block of the chain at the chain's height.
LEMMA TipType ==
  ASSUME TypeOK
  PROVE  /\ tip \in Nat /\ tip >= 1 /\ tip <= MaxHeight
         /\ chain[tip] \in BlockIndex
         /\ TipBlock \in Blocks /\ TipBlock \in Nat \X Nat /\ Height(TipBlock) = tip
<1>1. chain \in Seq(BlockIndex) /\ tip \in 1..MaxHeight
  BY DEF TypeOK, Heights
<1>2. tip \in Nat /\ tip >= 1 /\ tip <= MaxHeight
  BY <1>1, InputsAssumption
<1>3. chain[tip] \in BlockIndex
  BY <1>1, <1>2 DEF tip
<1>4. chain[tip].fork \in Forks
  BY <1>3 DEF BlockIndex
<1>. QED  BY <1>1, <1>2, <1>3, <1>4, InputsAssumption DEF TipBlock, Blocks, Heights, Height

\* The first n members of a sequence.
LEMMA FirstMembers ==
  ASSUME NEW S, NEW s \in Seq(S), NEW n \in 0..Len(s)
  PROVE  /\ SubSeq(s, 1, n) \in Seq(S) /\ Len(SubSeq(s, 1, n)) = n
         /\ \A i \in 1..n : SubSeq(s, 1, n)[i] = s[i]
OBVIOUS

\* Disconnecting the tip leaves the blocks below it.
LEMMA ShorterChain ==
  ASSUME TypeOK, DisconnectTip
  PROVE  /\ tip \in Nat /\ tip > 1 /\ tip' = tip - 1 /\ Len(chain') = tip - 1
         /\ chain' \in Seq(BlockIndex)
         /\ \A h \in 1..(tip - 1) : chain'[h] = chain[h]
<1>1. chain \in Seq(BlockIndex) /\ tip \in Nat /\ tip > 1
  BY TipType DEF TypeOK, DisconnectTip
<1>2. chain' = SubSeq(chain, 1, tip - 1)
  BY DEF DisconnectTip
<1>3. tip - 1 \in 0..Len(chain)
  BY <1>1 DEF tip
<1>4. /\ Len(SubSeq(chain, 1, tip - 1)) = tip - 1
      /\ SubSeq(chain, 1, tip - 1) \in Seq(BlockIndex)
      /\ \A h \in 1..(tip - 1) : SubSeq(chain, 1, tip - 1)[h] = chain[h]
  BY <1>1, <1>3, FirstMembers
<1>5. Len(chain') = tip - 1
  BY <1>2, <1>4
<1>6. tip' = tip - 1
  BY <1>5 DEF tip
<1>. QED  BY <1>1, <1>2, <1>4, <1>5, <1>6

\* The parameters that voting cycles are computed from are numbers.
LEMMA CycleParameters ==
  /\ CycleLength \in Nat \ {0}
  /\ ProposalMaxCycles \in Nat /\ RequestMaxCycles \in Nat
BY ParametersAssumption

\* The number of voting cycles of an object is an integer.
LEMMA CyclesType ==
  ASSUME TypeOK, NEW x \in Objects, NEW h \in Nat
  PROVE  VotingCycles(x, h) \in Int
<1>1. txblock[x] \in Blocks \cup {NoBlock}
  BY DEF TypeOK
<1>2. Height(txblock[x]) \in Nat
  BY <1>1, InputsAssumption DEF Blocks, Heights, NoBlock, Height
<1>3. \A n \in Nat : n \div CycleLength \in Int
  BY CycleParameters
<1>4. h \div CycleLength - Height(txblock[x]) \div CycleLength \in Int
  BY <1>2, <1>3
<1>5. ProposalMaxCycles + 1 \in Int /\ CycleLength + 1 \in Int
  BY CycleParameters
<1>. QED  BY <1>4, <1>5 DEF VotingCycles, MinOf

\* VoteStep writes the two balances of the tip and nothing else of the chain.
LEMMA SetBalancesType ==
  ASSUME TypeOK, NEW s \in Int, NEW l \in Int, SetBalances(s, l)
  PROVE  /\ chain' \in Seq(BlockIndex) /\ Len(chain') = Len(chain)
         /\ \A h \in 1..tip : /\ chain'[h].fork = chain[h].fork
                              /\ chain'[h].time = chain[h].time
                              /\ chain'[h].given = chain[h].given
                              /\ h # tip => chain'[h] = chain[h]
         /\ chain'[tip].nCFSupply = s /\ chain'[tip].nCFLocked = l
<1>1. chain \in Seq(BlockIndex) /\ tip \in 1..Len(chain) /\ chain[tip] \in BlockIndex
  BY TipType DEF TypeOK, tip
<1>. DEFINE b == [chain[tip] EXCEPT !.nCFSupply = s, !.nCFLocked = l]
<1>2. chain' = [chain EXCEPT ![tip] = b]
  BY <1>1 DEF SetBalances
<1>3. /\ b \in BlockIndex /\ b.nCFSupply = s /\ b.nCFLocked = l
      /\ b.fork = chain[tip].fork /\ b.time = chain[tip].time /\ b.given = chain[tip].given
  BY <1>1 DEF BlockIndex
<1>. HIDE DEF b
<1>4. chain' \in Seq(BlockIndex) /\ Len(chain') = Len(chain)
  BY <1>1, <1>2, <1>3
<1>5. chain'[tip] = b /\ \A h \in 1..Len(chain) : h # tip => chain'[h] = chain[h]
  BY <1>1, <1>2
<1>. QED  BY <1>3, <1>4, <1>5 DEF tip

\* SetState on an object of the view keeps histories well typed.
LEMMA GiveStateType ==
  ASSUME TypeOK, NEW x \in Objects, NEW flag \in FlagsOf(x), GiveState(x, flag)
  PROVE  /\ DOMAIN mapState' = Objects
         /\ \A y \in Objects : /\ DOMAIN mapState'[y] \subseteq Blocks
                               /\ mapState'[y] \in [DOMAIN mapState'[y] -> FlagsOf(y)]
<1>0. DOMAIN mapState = Objects
  BY DEF TypeOK
<1>1. DOMAIN mapState' = Objects /\ mapState'[x] = SetState(mapState[x], TipBlock, flag)
      /\ \A y \in Objects : y # x => mapState'[y] = mapState[y]
  BY <1>0 DEF GiveState
<1>2. \A y \in Objects : /\ DOMAIN mapState[y] \subseteq Blocks
                         /\ mapState[y] \in [DOMAIN mapState[y] -> FlagsOf(y)]
  BY DEF TypeOK, FlagsOf
<1>3. TipBlock \in Blocks
  BY TipType
<1>4. DOMAIN mapState'[x] = DOMAIN mapState[x] \cup {TipBlock}
      /\ mapState'[x] \in [DOMAIN mapState'[x] -> FlagsOf(x)]
  <2>. DEFINE m == mapState[x]
              S == FlagsOf(x)
              n == SetState(m, TipBlock, flag)
  <2>1. m \in [DOMAIN m -> S] /\ flag \in S
    BY <1>2
  <2>2. mapState'[x] = n
    BY <1>1
  <2>. HIDE DEF m, S
  <2>3. DOMAIN n = DOMAIN m \cup {TipBlock} /\ n \in [DOMAIN n -> S]
    BY <2>1 DEF SetState
  <2>. HIDE DEF n
  <2>. QED  BY <2>2, <2>3 DEF m, S
<1>. QED  BY <1>1, <1>2, <1>3, <1>4

\* A round of VoteStep's loops: what one visit to an object can change.
LEMMA VisitType ==
  ASSUME TypeOK, NEW x \in Objects, NEW cycle \in Int,
         \/ UNCHANGED mapState
         \/ \E flag \in FlagsOf(x) : GiveState(x, flag),
         \/ UNCHANGED chain
         \/ \E s \in Int, l \in Int : SetBalances(s, l),
         nVotingCycle' = [nVotingCycle EXCEPT ![x] = cycle],
         todo' = todo \ {x}, UNCHANGED <<txblock, votes, nExclude, pc>>
  PROVE  TypeOK'
<1>1. chain' \in Seq(BlockIndex) /\ Len(chain') \in Heights
  <2>1. CASE UNCHANGED chain
    BY <2>1 DEF TypeOK, tip
  <2>2. CASE \E s \in Int, l \in Int : SetBalances(s, l)
    BY <2>2, SetBalancesType DEF TypeOK, tip
  <2>. QED  BY <2>1, <2>2
<1>2. /\ DOMAIN mapState' = Objects
      /\ \A y \in Objects : /\ DOMAIN mapState'[y] \subseteq Blocks
                            /\ mapState'[y] \in [DOMAIN mapState'[y] -> FlagsOf(y)]
  <2>1. CASE UNCHANGED mapState
    BY <2>1 DEF TypeOK, FlagsOf
  <2>2. CASE \E flag \in FlagsOf(x) : GiveState(x, flag)
    BY <2>2, GiveStateType
  <2>. QED  BY <2>1, <2>2
<1>3. nVotingCycle' \in [Objects -> Int] /\ todo' \subseteq Objects
  BY DEF TypeOK
<1>4. /\ txblock' \in [Objects -> Blocks \cup {NoBlock}]
      /\ votes' \in [Objects -> Tally] /\ nExclude' \in 0..CycleLength
      /\ pc' \in {"idle", "txs", "coinbase", "requests", "proposals"}
  BY DEF TypeOK
<1>. QED  BY <1>1, <1>2, <1>3, <1>4 DEF TypeOK, tip, FlagsOf

\* A request is an object, is not a proposal and belongs to one.
LEMMA RequestObjects ==
  ASSUME NEW r \in Requests
  PROVE  /\ r \in Objects /\ r \notin Proposals /\ FlagsOf(r) = RequestFlags
         /\ Parent[r] \in Proposals
BY ObjectsAssumption DEF Objects, FlagsOf

\* A proposal is an object.
LEMMA ProposalObjects ==
  ASSUME NEW p \in Proposals
  PROVE  p \in Objects /\ FlagsOf(p) = ProposalFlags
BY DEF Objects, FlagsOf

\* What UpdateRequest does to the history of the request and to the balances.
LEMMA RequestVisit ==
  ASSUME TypeOK, NEW r \in Requests, UpdateRequest(r)
  PROVE  /\ \/ UNCHANGED mapState
            \/ \E flag \in FlagsOf(r) : GiveState(r, flag)
         /\ \/ UNCHANGED chain
            \/ \E s \in Int, l \in Int : SetBalances(s, l)
<1>1. chain[tip].nCFSupply \in Int /\ chain[tip].nCFLocked \in Int
  BY TipType DEF BlockIndex
<1>2. Amount[r] \in Nat /\ FlagsOf(r) = RequestFlags
  BY AmountType, RequestObjects
<1>3. CASE ExpireRequest(r)
  BY <1>2, <1>3 DEF ExpireRequest, RequestFlags
<1>4. CASE RejectRequest(r)
  BY <1>2, <1>4 DEF RejectRequest, RequestFlags
<1>5. CASE AcceptRequest(r)
  BY <1>1, <1>2, <1>5 DEF AcceptRequest, RequestFlags
<1>6. CASE KeepRequest(r)
  BY <1>6 DEF KeepRequest
<1>. QED  BY <1>3, <1>4, <1>5, <1>6 DEF UpdateRequest

\* What UpdateProposal does to the history of the proposal and to the balances.
LEMMA ProposalVisit ==
  ASSUME TypeOK, NEW p \in Proposals, UpdateProposal(p)
  PROVE  /\ \/ UNCHANGED mapState
            \/ \E flag \in FlagsOf(p) : GiveState(p, flag)
         /\ \/ UNCHANGED chain
            \/ \E s \in Int, l \in Int : SetBalances(s, l)
<1>1. chain[tip].nCFSupply \in Int /\ chain[tip].nCFLocked \in Int
  BY TipType DEF BlockIndex
<1>2. GetAvailable(p, FALSE) \in Int /\ FlagsOf(p) = ProposalFlags
  BY GetAvailableType, ProposalObjects
<1>3. CASE DelayProposal(p)
  BY <1>2, <1>3 DEF DelayProposal, ProposalFlags
<1>4. CASE ReleaseProposal(p)
  <2>. DEFINE a == GetAvailable(p, FALSE)
              s == chain[tip].nCFSupply + a
              l == chain[tip].nCFLocked - a
  <2>1. s \in Int /\ l \in Int
    <3>1. a \in Int
      BY <1>2, Zenon
    <3>. HIDE DEF a
    <3>. QED  BY <1>1, <3>1
  <2>2. GiveState(p, ACCEPTED_EXPIRED) /\ (UNCHANGED chain \/ SetBalances(s, l))
    BY <1>4 DEF ReleaseProposal
  <2>. HIDE DEF s, l
  <2>. QED  BY <1>2, <2>1, <2>2 DEF ProposalFlags
<1>5. CASE ExpireProposal(p)
  BY <1>2, <1>5 DEF ExpireProposal, ProposalFlags
<1>6. CASE RejectProposal(p)
  BY <1>2, <1>6 DEF RejectProposal, ProposalFlags
<1>7. CASE AcceptProposal(p)
  <2>. DEFINE a == GetAvailable(p, FALSE)
              s == chain[tip].nCFSupply - a
              l == chain[tip].nCFLocked + a
  <2>1. s \in Int /\ l \in Int
    <3>1. a \in Int
      BY <1>2, Zenon
    <3>. HIDE DEF a
    <3>. QED  BY <1>1, <3>1
  <2>2. GiveState(p, ACCEPTED) /\ (UNCHANGED chain \/ SetBalances(s, l))
    BY <1>7 DEF AcceptProposal
  <2>. HIDE DEF s, l
  <2>. QED  BY <1>2, <2>1, <2>2 DEF ProposalFlags
<1>8. CASE SuspendProposal(p)
  BY <1>2, <1>8 DEF SuspendProposal, ProposalFlags
<1>9. CASE KeepProposal(p)
  BY <1>9 DEF KeepProposal
<1>. QED  BY <1>3, <1>4, <1>5, <1>6, <1>7, <1>8, <1>9 DEF UpdateProposal

\* The initial state is well typed.
LEMMA TypeInit == Init => TypeOK
<1>. SUFFICES ASSUME Init PROVE TypeOK
  OBVIOUS
<1>1. chain \in Seq(BlockIndex) /\ tip \in Heights
  BY InputsAssumption DEF Init, BlockIndex, tip, Heights
<1>2. txblock \in [Objects -> Blocks \cup {NoBlock}] /\ nVotingCycle \in [Objects -> Int]
  BY DEF Init
<1>3. votes \in [Objects -> Tally]
  BY DEF Init, NoVotes, Tally
<1>4. /\ DOMAIN mapState = Objects
      /\ \A x \in Objects : /\ DOMAIN mapState[x] \subseteq Blocks
                            /\ mapState[x] \in [DOMAIN mapState[x] -> FlagsOf(x)]
  BY DEF Init, NoHistory
<1>5. nExclude \in 0..CycleLength /\ todo \subseteq Objects
      /\ pc \in {"idle", "txs", "coinbase", "requests", "proposals"}
  BY CycleParameters DEF Init
<1>. QED  BY <1>1, <1>2, <1>3, <1>4, <1>5 DEF TypeOK, FlagsOf

\* Every step of a block and every disconnection keeps the state well typed.
LEMMA TypeStep == TypeOK /\ [Next]_vars => TypeOK'
<1>. SUFFICES ASSUME TypeOK, [Next]_vars PROVE TypeOK'
  OBVIOUS
<1>1. ASSUME NEW fork \in Forks, NEW step \in TimeSteps, NEW contribution \in Contributions,
             ConnectBlock(fork, step, contribution)
      PROVE  TypeOK'
  <2>. DEFINE b == [fork      |-> fork,
                    time      |-> TipTime + step,
                    nCFSupply |-> chain[tip].nCFSupply + contribution,
                    nCFLocked |-> chain[tip].nCFLocked,
                    given     |-> chain[tip].given + contribution]
  <2>1. chain' = Append(chain, b)
    BY <1>1 DEF ConnectBlock
  <2>2. b \in BlockIndex
    BY TipType, InputsAssumption DEF BlockIndex, TipTime
  <2>. HIDE DEF b
  <2>3. chain' \in Seq(BlockIndex) /\ Len(chain') = tip + 1
    BY <2>1, <2>2 DEF TypeOK, tip
  <2>4. Len(chain') \in Heights
    BY <1>1, <2>3, TipType, InputsAssumption DEF ConnectBlock, Heights
  <2>. QED  BY <1>1, <2>3, <2>4 DEF ConnectBlock, TypeOK, tip
<1>2. ASSUME NEW x \in Objects, UNCHANGED <<chain, mapState, nVotingCycle, votes, nExclude, pc, todo>>,
             txblock' = [txblock EXCEPT ![x] = TipBlock]
      PROVE  TypeOK'
  <2>1. txblock' \in [Objects -> Blocks \cup {NoBlock}]
    BY <1>2, TipType DEF TypeOK
  <2>. QED  BY <1>2, <2>1 DEF TypeOK, tip
<1>3. ASSUME NEW r \in Requests, PayRequest(r)
      PROVE  TypeOK'
  <2>1. r \in Objects /\ PAID \in FlagsOf(r)
    BY RequestObjects DEF RequestFlags
  <2>2. GiveState(r, PAID)
    BY <1>3 DEF PayRequest, GiveState
  <2>3. /\ DOMAIN mapState' = Objects
        /\ \A y \in Objects : /\ DOMAIN mapState'[y] \subseteq Blocks
                              /\ mapState'[y] \in [DOMAIN mapState'[y] -> FlagsOf(y)]
    BY <2>1, <2>2, GiveStateType
  <2>. QED  BY <1>3, <2>3 DEF PayRequest, TypeOK, tip, FlagsOf
<1>4. ASSUME NEW exclude \in Excludes, NEW tally \in [Counted -> Tallies],
             CountVotes(exclude, tally)
      PROVE  TypeOK'
  <2>1. nExclude' \in 0..CycleLength
    BY <1>4, InputsAssumption DEF CountVotes, TypeOK
  <2>2. votes' \in [Objects -> Tally]
    BY <1>4, InputsAssumption DEF CountVotes, TypeOK
  <2>3. todo' \subseteq Objects
    BY <1>4 DEF CountVotes, Objects
  <2>. QED  BY <1>4, <2>1, <2>2, <2>3 DEF CountVotes, TypeOK, tip
<1>5. ASSUME NEW r \in Requests, UpdateRequest(r)
      PROVE  TypeOK'
  <2>1. r \in Objects /\ RequestCycle(r) \in Int
    BY RequestObjects, TipType, CyclesType DEF RequestCycle, TypeOK
  <2>2. /\ nVotingCycle' = [nVotingCycle EXCEPT ![r] = RequestCycle(r)]
        /\ todo' = todo \ {r} /\ UNCHANGED <<txblock, votes, nExclude, pc>>
    BY <1>5 DEF UpdateRequest
  <2>. QED  BY <1>5, <2>1, <2>2, RequestVisit, VisitType
<1>6. ASSUME NEW p \in Proposals, UpdateProposal(p)
      PROVE  TypeOK'
  <2>. DEFINE cycle == IF State(p) = NIL THEN VotingCycles(p, tip) ELSE nVotingCycle[p]
  <2>1. p \in Objects /\ cycle \in Int
    BY ProposalObjects, TipType, CyclesType DEF TypeOK
  <2>2. /\ nVotingCycle' = [nVotingCycle EXCEPT ![p] = cycle]
        /\ todo' = todo \ {p} /\ UNCHANGED <<txblock, votes, nExclude, pc>>
    BY <1>6, <2>1 DEF UpdateProposal, TypeOK
  <2>. HIDE DEF cycle
  <2>. QED  BY <1>6, <2>1, <2>2, ProposalVisit, VisitType
<1>7. CASE RequestsDone
  BY <1>7 DEF RequestsDone, TypeOK, tip, Objects
<1>8. CASE ConnectTipDone
  BY <1>8 DEF ConnectTipDone, TypeOK, tip
<1>9. CASE DisconnectTip
  <2>1. chain' \in Seq(BlockIndex) /\ Len(chain') = tip - 1
    BY <1>9, ShorterChain
  <2>2. Len(chain') \in Heights
    <3>1. tip \in Nat /\ tip > 1 /\ tip <= MaxHeight
      BY <1>9, TipType DEF DisconnectTip
    <3>. HIDE DEF tip
    <3>. QED  BY <2>1, <3>1, InputsAssumption DEF Heights
  <2>3. txblock' \in [Objects -> Blocks \cup {NoBlock}]
    BY <1>9 DEF DisconnectTip, TypeOK
  <2>4. votes' \in [Objects -> Tally]
    BY <1>9 DEF DisconnectTip, TypeOK, NoVotes, Tally
  <2>5. nVotingCycle' \in [Objects -> Int]
    <3>1. tip - 1 \in Nat
      BY TipType
    <3>2. \A x \in Objects : VotingCycles(x, tip - 1) \in Int /\ nVotingCycle[x] \in Int
      BY <3>1, CyclesType DEF TypeOK
    <3>. DEFINE c(x) == IF txblock[x] \in {NoBlock, TipBlock} THEN 0
                        ELSE IF GetLastState(Undone(x)) = NIL THEN VotingCycles(x, tip - 1)
                        ELSE nVotingCycle[x]
    <3>3. nVotingCycle' = [x \in Objects |-> c(x)]
      BY <1>9 DEF DisconnectTip
    <3>4. \A x \in Objects : c(x) \in Int
      BY <3>2
    <3>. HIDE DEF c
    <3>. QED  BY <3>3, <3>4
  <2>6. /\ DOMAIN mapState' = Objects
        /\ \A x \in Objects : mapState'[x] = Undone(x)
    BY <1>9 DEF DisconnectTip
  <2>7. ASSUME NEW x \in Objects
        PROVE  /\ DOMAIN Undone(x) \subseteq Blocks
               /\ Undone(x) \in [DOMAIN Undone(x) -> FlagsOf(x)]
    <3>1. /\ DOMAIN mapState[x] \subseteq Blocks
          /\ mapState[x] \in [DOMAIN mapState[x] -> FlagsOf(x)]
      BY DEF TypeOK, FlagsOf
    <3>2. CASE txblock[x] = TipBlock
      BY <3>2 DEF Undone, NoHistory
    <3>3. CASE txblock[x] # TipBlock
      BY <3>1, <3>3 DEF Undone, ClearState
    <3>. QED  BY <3>2, <3>3
  <2>. QED  BY <1>9, <2>1, <2>2, <2>3, <2>4, <2>5, <2>6, <2>7
            DEF DisconnectTip, TypeOK, tip, FlagsOf
<1>10. CASE UNCHANGED vars
  BY <1>10 DEF vars, TypeOK, tip
<1>11. ASSUME NEW p \in Proposals, AddProposal(p)
       PROVE  TypeOK'
  BY <1>2, <1>11, ProposalObjects DEF AddProposal
<1>12. ASSUME NEW r \in Requests, AddPaymentRequest(r)
       PROVE  TypeOK'
  BY <1>2, <1>12, RequestObjects DEF AddPaymentRequest
<1>. QED  BY <1>1, <1>3, <1>4, <1>5, <1>6, <1>7, <1>8, <1>9, <1>10, <1>11, <1>12 DEF Next

\* Every reachable state is well typed: balances are integers, histories hold
\* only flags of their kind of object, and the chain stays within its bounds.
THEOREM TypeCorrect == Spec => []TypeOK
BY TypeInit, TypeStep, PTL DEF Spec

-----------------------------------------------------------------------------
\* The histories: a reorganisation leaves nothing behind.

\* The loops visit only objects of the view, and no loop runs between blocks.
TodoExists == /\ \A x \in todo : Exists(x)
              /\ pc = "idle" => todo = {}

HistoryInv == TypeOK /\ HistoryOnChain /\ TodoExists

-----------------------------------------------------------------------------
\* A visit of VoteStep's loops writes the balances of the tip and nothing else
\* of the chain: the blocks on it stay what they are.
LEMMA ChainKept ==
  ASSUME TypeOK,
         \/ UNCHANGED chain
         \/ \E s \in Int, l \in Int : SetBalances(s, l)
  PROVE  /\ Len(chain') = tip /\ TipBlock' = TipBlock
         /\ \A b : OnChain(b)' <=> OnChain(b)
         /\ \A h \in 1..tip : h # tip => chain'[h] = chain[h]
<1>1. Len(chain') = tip /\ \A h \in 1..tip : /\ chain'[h].fork = chain[h].fork
                                             /\ h # tip => chain'[h] = chain[h]
  <2>1. CASE UNCHANGED chain
    BY <2>1 DEF tip
  <2>2. CASE \E s \in Int, l \in Int : SetBalances(s, l)
    BY <2>2, SetBalancesType DEF tip
  <2>. QED  BY <2>1, <2>2
<1>2. tip \in 1..tip
  BY TipType
<1>3. TipBlock' = TipBlock
  BY <1>1, <1>2 DEF TipBlock, tip
<1>4. ASSUME NEW b
      PROVE  OnChain(b)' <=> OnChain(b)
  <2>1. b \in Blocks /\ Height(b) <= tip => Height(b) \in 1..tip
    BY TipType, InputsAssumption DEF Blocks, Heights, Height
  <2>. QED  BY <1>1, <2>1 DEF OnChain, tip
<1>. QED  BY <1>1, <1>3, <1>4

\* The block at the tip is on the chain.
LEMMA TipOnChain ==
  ASSUME TypeOK
  PROVE  OnChain(TipBlock)
BY TipType DEF OnChain, TipBlock, Height

\* A step that gives an object of the view at most one flag, by the block at
\* the tip, and changes at most the balances of the tip keeps HistoryOnChain.
LEMMA FlagKeepsHistory ==
  ASSUME TypeOK, HistoryOnChain, NEW x \in Objects, Exists(x),
         \/ UNCHANGED mapState
         \/ \E flag \in FlagsOf(x) : GiveState(x, flag),
         \/ UNCHANGED chain
         \/ \E s \in Int, l \in Int : SetBalances(s, l),
         UNCHANGED txblock
  PROVE  HistoryOnChain'
<1>. SUFFICES ASSUME NEW y \in Objects
     PROVE  /\ Exists(y)' => OnChain(txblock[y])'
            /\ ~Exists(y)' => DOMAIN mapState'[y] = {}
            /\ \A b \in DOMAIN mapState'[y] : OnChain(b)' /\ Height(txblock'[y]) <= Height(b)
  BY DEF HistoryOnChain
<1>1. \A b : OnChain(b)' <=> OnChain(b)
  BY ChainKept
<1>2. Exists(y)' = Exists(y) /\ txblock'[y] = txblock[y]
  BY DEF Exists
<1>3. \A b \in DOMAIN mapState'[y] : b \in DOMAIN mapState[y] \/ (y = x /\ b = TipBlock)
  BY DEF GiveState, SetState, TypeOK
<1>4. OnChain(txblock[x]) /\ Height(txblock[x]) <= Height(TipBlock)
  BY TipType DEF HistoryOnChain, OnChain
<1>5. Exists(y)' => OnChain(txblock[y])'
  BY <1>1, <1>2 DEF HistoryOnChain
<1>6. ~Exists(y)' => DOMAIN mapState'[y] = {}
  BY <1>2, <1>3 DEF HistoryOnChain
<1>7. \A b \in DOMAIN mapState'[y] : OnChain(b)' /\ Height(txblock'[y]) <= Height(b)
  BY <1>1, <1>2, <1>3, <1>4, TipOnChain DEF HistoryOnChain
<1>. QED  BY <1>5, <1>6, <1>7

\* A step that creates an object in the block at the tip keeps HistoryOnChain.
LEMMA CreationKeepsHistory ==
  ASSUME TypeOK, HistoryOnChain, NEW x \in Objects, ~Exists(x),
         txblock' = [txblock EXCEPT ![x] = TipBlock], UNCHANGED <<chain, mapState>>
  PROVE  HistoryOnChain'
<1>1. \A b : OnChain(b)' <=> OnChain(b)
  BY DEF OnChain, tip
<1>2. DOMAIN txblock = Objects
  BY DEF TypeOK
<1>3. /\ txblock'[x] = TipBlock /\ DOMAIN mapState'[x] = {}
      /\ \A y \in Objects : y # x => txblock'[y] = txblock[y] /\ Exists(y)' = Exists(y)
  BY <1>2 DEF HistoryOnChain, Exists
<1>4. Exists(x)'
  BY <1>3, TipType DEF Exists, NoBlock, Height
<1>. QED  BY <1>1, <1>3, <1>4, TipOnChain DEF HistoryOnChain

\* A new block leaves the blocks below it on the chain.
LEMMA ConnectKeepsHistory ==
  ASSUME TypeOK, HistoryOnChain, NEW b, chain' = Append(chain, b), UNCHANGED <<txblock, mapState>>
  PROVE  HistoryOnChain'
<1>1. chain \in Seq(BlockIndex)
  BY DEF TypeOK
<1>2. Len(chain') = tip + 1 /\ \A h \in 1..tip : chain'[h] = chain[h]
  BY <1>1 DEF tip
<1>3. ASSUME NEW c, OnChain(c)
      PROVE  OnChain(c)'
  <2>1. Height(c) \in 1..tip
    BY <1>3, TipType, InputsAssumption DEF OnChain, Blocks, Heights, Height
  <2>. QED  BY <1>2, <1>3, <2>1, TipType DEF OnChain, tip
<1>. QED  BY <1>3 DEF HistoryOnChain, Exists

\* Disconnecting the tip takes back its objects and its flags; what is left was
\* given by blocks below it.
LEMMA DisconnectKeepsHistory ==
  ASSUME TypeOK, HistoryOnChain, DisconnectTip
  PROVE  HistoryOnChain'
<1>1. tip \in Nat /\ tip > 1
  BY ShorterChain
<1>2. Len(chain') = tip - 1 /\ \A h \in 1..(tip - 1) : chain'[h] = chain[h]
  BY ShorterChain
<1>3. ASSUME NEW c, OnChain(c), c # TipBlock
      PROVE  OnChain(c)'
  <2>1. Height(c) \in 1..tip /\ c = <<Height(c), c[2]>>
    BY <1>3, TipType, InputsAssumption DEF OnChain, Blocks, Heights, Height
  <2>2. Height(c) # tip
    BY <1>3, <2>1 DEF OnChain, TipBlock
  <2>3. Height(c) \in 1..(tip - 1)
    BY <1>1, <2>1, <2>2
  <2>4. chain'[Height(c)] = chain[Height(c)] /\ Height(c) <= Len(chain')
    BY <1>1, <1>2, <2>3
  <2>. QED  BY <1>3, <2>4 DEF OnChain, tip
<1>4. ASSUME NEW x \in Objects
      PROVE  /\ Exists(x)' => OnChain(txblock[x])'
             /\ ~Exists(x)' => DOMAIN mapState'[x] = {}
             /\ \A b \in DOMAIN mapState'[x] : OnChain(b)' /\ Height(txblock'[x]) <= Height(b)
  <2>1. txblock'[x] = IF txblock[x] = TipBlock THEN NoBlock ELSE txblock[x]
    BY DEF DisconnectTip
  <2>2. mapState'[x] = Undone(x)
    BY DEF DisconnectTip
  <2>3. CASE txblock[x] = TipBlock
    BY <2>1, <2>2, <2>3 DEF Undone, NoHistory, Exists
  <2>4. CASE txblock[x] # TipBlock
    <3>1. txblock'[x] = txblock[x] /\ DOMAIN mapState'[x] = DOMAIN mapState[x] \ {TipBlock}
      BY <2>1, <2>2, <2>4 DEF Undone, ClearState
    <3>. QED  BY <1>3, <2>4, <3>1 DEF HistoryOnChain, Exists
  <2>. QED  BY <2>3, <2>4
<1>. QED  BY <1>4 DEF HistoryOnChain

-----------------------------------------------------------------------------
\* Before the first block there is no object and no history.
LEMMA HistoryInit == Init => HistoryInv
BY TypeInit DEF Init, HistoryInv, HistoryOnChain, TodoExists, Exists, NoHistory

\* No step of a block, and no disconnection, breaks HistoryInv.
LEMMA HistoryStep == HistoryInv /\ [Next]_vars => HistoryInv'
<1>. SUFFICES ASSUME HistoryInv, [Next]_vars PROVE HistoryInv'
  OBVIOUS
<1>. USE DEF HistoryInv
<1>0. TypeOK'
  BY TypeStep
<1>1. ASSUME NEW fork \in Forks, NEW step \in TimeSteps, NEW contribution \in Contributions,
             ConnectBlock(fork, step, contribution)
      PROVE  HistoryOnChain' /\ TodoExists'
  BY <1>1, ConnectKeepsHistory DEF ConnectBlock, TodoExists, Exists
<1>2. ASSUME NEW p \in Proposals, AddProposal(p)
      PROVE  HistoryOnChain' /\ TodoExists'
  <2>1. p \in Objects
    BY ProposalObjects
  <2>2. \A x \in todo : Exists(x)'
    BY <1>2, TipType DEF AddProposal, TodoExists, Exists, TypeOK, NoBlock, Height
  <2>. QED  BY <1>2, <2>1, <2>2, CreationKeepsHistory DEF AddProposal, TodoExists
<1>3. ASSUME NEW r \in Requests, AddPaymentRequest(r)
      PROVE  HistoryOnChain' /\ TodoExists'
  <2>1. r \in Objects
    BY RequestObjects
  <2>2. \A x \in todo : Exists(x)'
    BY <1>3, TipType DEF AddPaymentRequest, TodoExists, Exists, TypeOK, NoBlock, Height
  <2>. QED  BY <1>3, <2>1, <2>2, CreationKeepsHistory DEF AddPaymentRequest, TodoExists
<1>4. ASSUME NEW r \in Requests, PayRequest(r)
      PROVE  HistoryOnChain' /\ TodoExists'
  <2>1. r \in Objects /\ PAID \in FlagsOf(r) /\ Exists(r) /\ GiveState(r, PAID)
    BY <1>4, RequestObjects DEF PayRequest, Payable, GiveState, RequestFlags
  <2>. QED  BY <1>4, <2>1, FlagKeepsHistory DEF PayRequest, TodoExists, Exists
<1>5. ASSUME NEW exclude \in Excludes, NEW tally \in [Counted -> Tallies],
             CountVotes(exclude, tally)
      PROVE  HistoryOnChain' /\ TodoExists'
  BY <1>5 DEF CountVotes, HistoryOnChain, OnChain, TodoExists, Exists, tip
<1>6. ASSUME NEW r \in Requests, UpdateRequest(r)
      PROVE  HistoryOnChain' /\ TodoExists'
  <2>1. r \in Objects /\ Exists(r)
    BY <1>6, RequestObjects DEF UpdateRequest, Visited, TodoExists
  <2>2. UNCHANGED txblock /\ TodoExists'
    BY <1>6 DEF UpdateRequest, TodoExists, Exists
  <2>. QED  BY <1>6, <2>1, <2>2, RequestVisit, FlagKeepsHistory
<1>7. CASE RequestsDone
  BY <1>0, <1>7 DEF RequestsDone, HistoryOnChain, OnChain, TodoExists, Exists, tip
<1>8. ASSUME NEW p \in Proposals, UpdateProposal(p)
      PROVE  HistoryOnChain' /\ TodoExists'
  <2>1. p \in Objects /\ Exists(p)
    BY <1>8, ProposalObjects DEF UpdateProposal, Visited, TodoExists
  <2>2. UNCHANGED txblock /\ TodoExists'
    BY <1>8 DEF UpdateProposal, TodoExists, Exists
  <2>. QED  BY <1>8, <2>1, <2>2, ProposalVisit, FlagKeepsHistory
<1>9. CASE ConnectTipDone
  BY <1>0, <1>9 DEF ConnectTipDone, HistoryOnChain, OnChain, TodoExists, Exists, tip
<1>10. CASE DisconnectTip
  BY <1>0, <1>10, DisconnectKeepsHistory DEF DisconnectTip, TodoExists
<1>11. CASE UNCHANGED vars
  BY <1>0, <1>11 DEF vars, HistoryOnChain, OnChain, TodoExists, Exists, tip
<1>. QED  BY <1>0, <1>1, <1>2, <1>3, <1>4, <1>5, <1>6, <1>7, <1>8, <1>9, <1>10, <1>11 DEF Next

\* A reorganisation leaves nothing behind (DisconnectBlock and VoteStep with
\* fUndo take back all that connecting the block did): every object of the view
\* and every flag in its history come from a block of the active chain.
THEOREM HistoryCorrect == Spec => []HistoryOnChain
<1>1. HistoryInv => HistoryOnChain
  BY DEF HistoryInv
<1>. QED  BY <1>1, HistoryInit, HistoryStep, PTL DEF Spec

-----------------------------------------------------------------------------
\* The flags when the block of height h was the tip.

FlagsAt(h) == [x \in Objects |-> FlagAt(x, h)]

\* Every block in a history is a block of the chain, and only one of them can
\* have the height of the tip.
LEMMA HistoryBlocks ==
  ASSUME HistoryInv, NEW x \in Objects
  PROVE  /\ DOMAIN mapState[x] \subseteq Nat \X Nat
         /\ mapState[x] \in [DOMAIN mapState[x] -> FlagsOf(x)]
         /\ \A c \in DOMAIN mapState[x] : /\ Height(c) \in Nat /\ Height(c) <= tip
                                          /\ c = TipBlock \/ Height(c) < tip
<1>1. /\ DOMAIN mapState[x] \subseteq Blocks
      /\ mapState[x] \in [DOMAIN mapState[x] -> FlagsOf(x)]
  BY DEF HistoryInv, TypeOK, FlagsOf
<1>2. Blocks \subseteq Nat \X Nat
  <2>1. Heights \subseteq Nat /\ Forks \subseteq Nat
    BY InputsAssumption DEF Heights
  <2>. QED  BY <2>1 DEF Blocks
<1>3. ASSUME NEW c \in DOMAIN mapState[x]
      PROVE  /\ Height(c) \in Nat /\ Height(c) <= tip
             /\ c = TipBlock \/ Height(c) < tip
  <2>1. OnChain(c)
    BY DEF HistoryInv, HistoryOnChain
  <2>2. c = <<Height(c), c[2]>> /\ Height(c) \in Nat
    BY <1>1, <1>2 DEF Height
  <2>3. tip \in Nat
    BY TipType DEF HistoryInv
  <2>. QED  BY <2>1, <2>2, <2>3 DEF OnChain, TipBlock
<1>. QED  BY <1>1, <1>2, <1>3

\* An object without a flag is undecided; otherwise its state is one of the
\* flags of its history.
LEMMA StateGiven ==
  ASSUME HistoryInv, NEW x \in Objects
  PROVE  \/ DOMAIN mapState[x] = {} /\ State(x) = NIL
         \/ /\ State(x) \in FlagsOf(x) /\ Exists(x)
            /\ \E b \in DOMAIN mapState[x] : mapState[x][b] = State(x)
<1>1. CASE DOMAIN mapState[x] = {}
  BY <1>1 DEF State, GetLastState
<1>2. CASE DOMAIN mapState[x] # {}
  <2>1. tip \in Nat
    BY TipType DEF HistoryInv
  <2>2. PICK b \in DOMAIN mapState[x] : mapState[x][b] = GetLastState(mapState[x])
    BY <1>2, <2>1, HistoryBlocks, LastStateGiven
  <2>3. mapState[x][b] \in FlagsOf(x)
    BY <2>2, HistoryBlocks
  <2>4. Exists(x)
    BY <1>2 DEF HistoryInv, HistoryOnChain
  <2>. QED  BY <2>2, <2>3, <2>4 DEF State
<1>. QED  BY <1>1, <1>2

\* No block gives the flag NIL.
LEMMA NilIsNoFlag ==
  ASSUME NEW x
  PROVE  NIL \notin FlagsOf(x)
BY DEF FlagsOf, ProposalFlags, RequestFlags, NIL, ACCEPTED, REJECTED, EXPIRED, PENDING_FUNDS,
       PENDING_VOTING_PREQ, PAID, ACCEPTED_EXPIRED

\* The flags at the tip, and at any height above it, are the current states.
LEMMA FlagsNow ==
  ASSUME HistoryInv, NEW h \in Nat, h >= tip
  PROVE  FlagsAt(h) = [x \in Objects |-> State(x)]
<1>1. ASSUME NEW x \in Objects
      PROVE  FlagAt(x, h) = State(x)
  <2>1. \A c \in DOMAIN mapState[x] : Height(c) <= h
    BY HistoryBlocks, TipType DEF HistoryInv
  <2>2. Upto(mapState[x], h) = mapState[x]
    BY <2>1, HistoryBlocks, UptoAll
  <2>. QED  BY <2>2 DEF FlagAt, StateAt, State
<1>. QED  BY <1>1 DEF FlagsAt

\* A flag given by the tip is the state from then on, and what was known at
\* the blocks below stays known.
LEMMA FlagsGiven ==
  ASSUME HistoryInv, NEW x \in Objects, NEW flag \in FlagsOf(x), GiveState(x, flag),
         NEW h \in 1..tip
  PROVE  FlagsAt(h)' = IF h = tip THEN [FlagsAt(h) EXCEPT ![x] = flag] ELSE FlagsAt(h)
<1>. DEFINE m == mapState[x]
            n == SetState(m, TipBlock, flag)
<1>1. mapState'[x] = n /\ \A y \in Objects : y # x => mapState'[y] = mapState[y]
  BY DEF GiveState, HistoryInv, TypeOK
<1>2. TipBlock \in Nat \X Nat /\ Height(TipBlock) = tip /\ tip \in Nat /\ h \in Nat
  BY TipType DEF HistoryInv
<1>3. /\ DOMAIN m \subseteq Nat \X Nat /\ m \in [DOMAIN m -> FlagsOf(x)]
      /\ \A c \in DOMAIN m : Height(c) <= tip /\ (c = TipBlock \/ Height(c) < tip)
  BY HistoryBlocks
<1>. HIDE DEF m
<1>4. CASE h = tip
  <2>1. GetLastState(n) = flag
    BY <1>2, <1>3, SetStateLast
  <2>2. DOMAIN n = DOMAIN m \cup {TipBlock} /\ n \in [DOMAIN n -> FlagsOf(x)]
    BY <1>3 DEF SetState
  <2>3. \A c \in DOMAIN n : Height(c) <= h
    BY <1>2, <1>3, <1>4, <2>2
  <2>. HIDE DEF n
  <2>4. Upto(n, h) = n
    BY <2>2, <2>3, UptoAll
  <2>5. StateAt(n, h) = flag
    BY <2>1, <2>4 DEF StateAt
  <2>. QED  BY <1>1, <1>4, <2>5 DEF FlagsAt, FlagAt
<1>5. CASE h # tip
  <2>1. Upto(n, h) = Upto(m, h)
    BY <1>2, <1>3, <1>5, UptoSetState
  <2>. HIDE DEF n
  <2>2. StateAt(n, h) = StateAt(mapState[x], h)
    BY <2>1 DEF StateAt, m
  <2>. QED  BY <1>1, <1>5, <2>2 DEF FlagsAt, FlagAt
<1>. QED  BY <1>4, <1>5

\* Disconnecting the tip changes nothing that was known at the blocks below.
LEMMA FlagsKept ==
  ASSUME HistoryInv, DisconnectTip, NEW h \in 1..(tip - 1)
  PROVE  FlagsAt(h)' = FlagsAt(h)
<1>1. TipBlock \in Nat \X Nat /\ Height(TipBlock) = tip /\ tip \in Nat /\ h \in Nat /\ h < tip
  BY TipType DEF HistoryInv
<1>2. ASSUME NEW x \in Objects
      PROVE  FlagAt(x, h)' = FlagAt(x, h)
  <2>. DEFINE m == mapState[x]
  <2>1. mapState'[x] = Undone(x)
    BY DEF DisconnectTip
  <2>2. DOMAIN m \subseteq Nat \X Nat
    BY HistoryBlocks
  <2>3. CASE txblock[x] = TipBlock
    <3>1. \A c \in DOMAIN m : tip <= Height(c)
      BY <1>1, <2>3 DEF HistoryInv, HistoryOnChain
    <3>2. {c \in DOMAIN m : Height(c) <= h} = {}
      BY <1>1, <2>2, <3>1 DEF Height
    <3>3. {c \in {} : Height(c) <= h} = {}
      OBVIOUS
    <3>4. mapState'[x] = NoHistory
      BY <2>1, <2>3 DEF Undone
    <3>5. DOMAIN Upto(mapState[x], h) = {} /\ DOMAIN Upto(mapState'[x], h) = {}
      BY <3>2, <3>3, <3>4 DEF Upto, NoHistory
    <3>. QED  BY <3>5 DEF FlagAt, StateAt, GetLastState
  <2>4. CASE txblock[x] # TipBlock
    <3>1. mapState'[x] = ClearState(m, TipBlock)
      BY <2>1, <2>4 DEF Undone
    <3>. HIDE DEF m
    <3>2. Upto(ClearState(m, TipBlock), h) = Upto(m, h)
      BY <1>1, <2>2, UptoClearState
    <3>. QED  BY <3>1, <3>2 DEF FlagAt, StateAt, m
  <2>. QED  BY <2>3, <2>4
<1>. QED  BY <1>2 DEF FlagsAt

-----------------------------------------------------------------------------
\* Verdicts.

\* With the thresholds of chainparams.cpp no count is both for and against:
\* IsAccepted and IsRejected never agree.
LEMMA NotBoth ==
  ASSUME TypeOK, NEW x \in Objects, InFavour(x, votes[x]), Against(x, votes[x])
  PROVE  FALSE
<1>. DEFINE y == votes[x].yes
            n == votes[x].no
            t == TotalVotes(x, votes[x])
            a == Share(x, MinAccept)
            b == Share(x, MinReject)
<1>1. y \in Nat /\ n \in Nat /\ votes[x].abs \in Nat
  BY DEF TypeOK, Tally
<1>2. t \in Nat /\ y + n <= t
  BY <1>1 DEF TotalVotes
<1>3. a \in Nat /\ b \in Nat /\ a + b >= 10000
  BY ThresholdsAssumption, ParametersAssumption DEF Share, Kind, Kinds
<1>4. 10000 * y > t * a /\ 10000 * n > t * b
  BY DEF InFavour, Against
<1>. HIDE DEF y, n, t, a, b
<1>5. t * a + t * b = t * (a + b) /\ t * (a + b) >= t * 10000
  BY <1>2, <1>3
<1>6. t * a \in Int /\ t * b \in Int
  BY <1>2, <1>3
<1>. QED  BY <1>1, <1>2, <1>4, <1>5, <1>6

\* The flags of a proposal whose money is locked and of a request that drew its
\* money, and all that only an object with a count in its favour is given.
Locking == {ACCEPTED, PENDING_VOTING_PREQ}
Drawing == {ACCEPTED, PAID}
Approving == Locking \cup Drawing \cup {PENDING_FUNDS, ACCEPTED_EXPIRED}

\* An object that was ever accepted has a count in its favour: VoteStep counts
\* no votes for a decided object, and a disconnected flag is taken back before
\* votes are counted again.
Favoured ==
  \A x \in Objects : \A b \in DOMAIN mapState[x] :
    mapState[x][b] \in Approving => InFavour(x, votes[x])

\* Whether a count is in favour depends on the count only.
LEMMA SameCount ==
  ASSUME NEW x, votes'[x] = votes[x]
  PROVE  InFavour(x, votes[x])' <=> InFavour(x, votes[x])
BY DEF InFavour

\* In particular one whose state says so.
LEMMA StateFavoured ==
  ASSUME HistoryInv, Favoured, NEW x \in Objects, State(x) \in Approving
  PROVE  InFavour(x, votes[x])
<1>1. State(x) # NIL
  BY DEF Approving, Locking, Drawing, NIL, ACCEPTED, PAID, PENDING_VOTING_PREQ, PENDING_FUNDS,
         ACCEPTED_EXPIRED
<1>. QED  BY <1>1, StateGiven DEF Favoured

\* A flag keeps Favoured if it is no acceptance or the count is in favour.
LEMMA FlagKeepsFavoured ==
  ASSUME HistoryInv, Favoured, NEW x \in Objects, NEW flag, GiveState(x, flag),
         flag \in Approving => InFavour(x, votes[x]), UNCHANGED votes
  PROVE  Favoured'
<1>1. DOMAIN mapState = Objects
  BY DEF HistoryInv, TypeOK
<1>2. /\ \A y \in Objects : y # x => mapState'[y] = mapState[y]
      /\ mapState'[x] = SetState(mapState[x], TipBlock, flag)
  BY <1>1 DEF GiveState
<1>3. \A b \in DOMAIN mapState'[x] :
        mapState'[x][b] = flag \/ (b \in DOMAIN mapState[x] /\ mapState'[x][b] = mapState[x][b])
  BY <1>2 DEF SetState
<1>4. \A y \in Objects : InFavour(y, votes[y])' <=> InFavour(y, votes[y])
  BY SameCount
<1>. QED  BY <1>2, <1>3, <1>4 DEF Favoured

\* A step that changes neither a history nor a count keeps Favoured.
LEMMA SameKeepsFavoured ==
  ASSUME Favoured, UNCHANGED <<mapState, votes>>
  PROVE  Favoured'
<1>1. \A x \in Objects : InFavour(x, votes[x])' <=> InFavour(x, votes[x])
  BY SameCount
<1>. QED  BY <1>1 DEF Favoured

\* What is flagged for approval or neither locks nor draws.
LEMMA ApprovingFlags ==
  /\ EXPIRED \notin Approving /\ REJECTED \notin Approving /\ NIL \notin Approving
  /\ Locking \subseteq Approving /\ Drawing \subseteq Approving
  /\ PENDING_FUNDS \notin Locking /\ ACCEPTED_EXPIRED \notin Locking
BY DEF Approving, Locking, Drawing, NIL, EXPIRED, REJECTED, ACCEPTED, PAID,
       PENDING_VOTING_PREQ, PENDING_FUNDS, ACCEPTED_EXPIRED

FavouredInv == HistoryInv /\ Favoured

\* A visit of VoteStep approves only what has a count in its favour.
LEMMA VisitKeepsFavoured ==
  ASSUME FavouredInv, \/ \E r \in Requests : UpdateRequest(r)
                      \/ \E p \in Proposals : UpdateProposal(p)
  PROVE  Favoured'
<1>1. HistoryInv /\ Favoured
  BY DEF FavouredInv
<1>2. ASSUME NEW r \in Requests, UpdateRequest(r) PROVE Favoured'
  <2>1. r \in Objects /\ UNCHANGED votes
    BY <1>2, RequestObjects DEF UpdateRequest
  <2>2. CASE ExpireRequest(r)
    BY <1>1, <2>1, <2>2, ApprovingFlags, FlagKeepsFavoured DEF ExpireRequest
  <2>3. CASE RejectRequest(r)
    BY <1>1, <2>1, <2>3, ApprovingFlags, FlagKeepsFavoured DEF RejectRequest
  <2>4. CASE AcceptRequest(r)
    <3>1. GiveState(r, ACCEPTED) /\ InFavour(r, votes[r])
      BY <2>4 DEF AcceptRequest, RequestPasses, IsAccepted
    <3>. QED  BY <1>1, <2>1, <3>1, FlagKeepsFavoured
  <2>5. CASE KeepRequest(r)
    BY <1>1, <2>1, <2>5, SameKeepsFavoured DEF KeepRequest
  <2>. QED  BY <1>2, <2>2, <2>3, <2>4, <2>5 DEF UpdateRequest
<1>3. ASSUME NEW p \in Proposals, UpdateProposal(p) PROVE Favoured'
  <2>1. p \in Objects /\ UNCHANGED votes
    BY <1>3, ProposalObjects DEF UpdateProposal
  <2>2. State(p) \in Locking => InFavour(p, votes[p])
    BY <1>1, <2>1, ApprovingFlags, StateFavoured
  <2>3. CASE DelayProposal(p)
    <3>1. GiveState(p, PENDING_VOTING_PREQ) /\ State(p) \in Locking
      BY <2>3 DEF DelayProposal, HasPendingPaymentRequests, RequestsOf, CanVote, Locking
    <3>. QED  BY <1>1, <2>1, <2>2, <3>1, FlagKeepsFavoured
  <2>4. CASE ReleaseProposal(p)
    <3>1. GiveState(p, ACCEPTED_EXPIRED) /\ State(p) \in Locking
      BY <2>4 DEF ReleaseProposal, Locking
    <3>. QED  BY <1>1, <2>1, <2>2, <3>1, FlagKeepsFavoured
  <2>5. CASE ExpireProposal(p)
    BY <1>1, <2>1, <2>5, ApprovingFlags, FlagKeepsFavoured DEF ExpireProposal
  <2>6. CASE RejectProposal(p)
    BY <1>1, <2>1, <2>6, ApprovingFlags, FlagKeepsFavoured DEF RejectProposal
  <2>7. CASE AcceptProposal(p)
    <3>1. GiveState(p, ACCEPTED) /\ InFavour(p, votes[p])
      BY <2>7 DEF AcceptProposal, ProposalPasses, IsAccepted
    <3>. QED  BY <1>1, <2>1, <3>1, FlagKeepsFavoured
  <2>8. CASE SuspendProposal(p)
    <3>1. GiveState(p, PENDING_FUNDS) /\ InFavour(p, votes[p])
      BY <2>8 DEF SuspendProposal, ProposalPasses, IsAccepted
    <3>. QED  BY <1>1, <2>1, <3>1, FlagKeepsFavoured
  <2>9. CASE KeepProposal(p)
    BY <1>1, <2>1, <2>9, SameKeepsFavoured DEF KeepProposal
  <2>. QED  BY <1>3, <2>3, <2>4, <2>5, <2>6, <2>7, <2>8, <2>9 DEF UpdateProposal
<1>. QED  BY <1>2, <1>3

\* Votes are counted only for objects no block has decided about.
LEMMA CountKeepsFavoured ==
  ASSUME FavouredInv, NEW exclude \in Excludes, NEW tally \in [Counted -> Tallies],
         CountVotes(exclude, tally)
  PROVE  Favoured'
<1>1. ASSUME NEW x \in Objects, DOMAIN mapState[x] # {}
      PROVE  votes'[x] = votes[x]
  <2>1. State(x) # NIL
    BY <1>1, StateGiven, NilIsNoFlag DEF FavouredInv
  <2>. QED  BY <2>1 DEF CountVotes, Counted, CanVote
<1>2. \A x \in Objects : votes'[x] = votes[x] => (InFavour(x, votes[x])' <=> InFavour(x, votes[x]))
  BY SameCount
<1>3. UNCHANGED mapState
  BY DEF CountVotes
<1>. QED  BY <1>1, <1>2, <1>3 DEF FavouredInv, Favoured

\* Undoing a block keeps the counts of the objects it does not forget.
LEMMA DisconnectKeepsFavoured ==
  ASSUME FavouredInv, DisconnectTip
  PROVE  Favoured'
<1>1. HistoryInv
  BY DEF FavouredInv
<1>2. ASSUME NEW x \in Objects, NEW b \in DOMAIN mapState'[x]
      PROVE  b \in DOMAIN mapState[x] /\ mapState'[x][b] = mapState[x][b] /\ votes'[x] = votes[x]
  <2>1. mapState'[x] = Undone(x)
    BY DEF DisconnectTip
  <2>2. txblock[x] # TipBlock
    BY <1>2, <2>1 DEF Undone, NoHistory
  <2>3. b \in DOMAIN mapState[x] /\ mapState'[x][b] = mapState[x][b]
    BY <1>2, <2>1, <2>2 DEF Undone, ClearState
  <2>4. txblock[x] # NoBlock
    BY <1>1, <2>3 DEF HistoryInv, HistoryOnChain, Exists
  <2>. QED  BY <2>2, <2>3, <2>4 DEF DisconnectTip
<1>3. \A x \in Objects : votes'[x] = votes[x] => (InFavour(x, votes[x])' <=> InFavour(x, votes[x]))
  BY SameCount
<1>. QED  BY <1>2, <1>3 DEF FavouredInv, Favoured

\* In the genesis state nothing is approved.
LEMMA FavouredInit == Init => FavouredInv
BY HistoryInit DEF Init, FavouredInv, Favoured, NoHistory

\* Every step keeps the counts of what was approved in its favour.
LEMMA FavouredStep == FavouredInv /\ [Next]_vars => FavouredInv'
<1>. SUFFICES ASSUME FavouredInv, [Next]_vars PROVE FavouredInv'
  OBVIOUS
<1>1. HistoryInv'
  BY HistoryStep DEF FavouredInv
<1>2. ASSUME UNCHANGED <<mapState, votes>> PROVE Favoured'
  BY <1>2, SameKeepsFavoured DEF FavouredInv
<1>3. ASSUME NEW fork \in Forks, NEW step \in TimeSteps, NEW contribution \in Contributions,
             ConnectBlock(fork, step, contribution)
      PROVE  Favoured'
  BY <1>2, <1>3 DEF ConnectBlock
<1>4. ASSUME NEW p \in Proposals, AddProposal(p) PROVE Favoured'
  BY <1>2, <1>4 DEF AddProposal
<1>5. ASSUME NEW r \in Requests, AddPaymentRequest(r) PROVE Favoured'
  BY <1>2, <1>5 DEF AddPaymentRequest
<1>6. ASSUME NEW r \in Requests, PayRequest(r) PROVE Favoured'
  <2>1. r \in Objects /\ GiveState(r, PAID) /\ UNCHANGED votes /\ State(r) \in Drawing
    BY <1>6, RequestObjects DEF PayRequest, Payable, GiveState, Drawing
  <2>2. InFavour(r, votes[r])
    BY <2>1, ApprovingFlags, StateFavoured DEF FavouredInv
  <2>. QED  BY <2>1, <2>2, FlagKeepsFavoured DEF FavouredInv
<1>7. ASSUME RequestsDone \/ ConnectTipDone \/ UNCHANGED vars PROVE Favoured'
  BY <1>2, <1>7 DEF RequestsDone, ConnectTipDone, vars
<1>8. Favoured'
  BY <1>3, <1>4, <1>5, <1>6, <1>7, VisitKeepsFavoured, CountKeepsFavoured,
     DisconnectKeepsFavoured DEF Next
<1>. QED  BY <1>1, <1>8 DEF FavouredInv

-----------------------------------------------------------------------------
\* A block under way.

\* The loops of VoteStep have not visited the object in the block at the tip.
Fresh(x) ==
  \/ pc \in {"txs", "coinbase"}
  \/ pc = "requests" /\ x \in todo \cup Proposals
  \/ pc = "proposals" /\ x \in todo

\* An object of the view was in it at the height of the tip.
LEMMA ExistsAtTip ==
  ASSUME HistoryInv, NEW x \in Objects
  PROVE  ExistsAt(x, tip) <=> Exists(x)
BY DEF HistoryInv, HistoryOnChain, OnChain, ExistsAt

\* The flag a block gives is the state of the object, and the others keep theirs.
LEMMA StateGivenNow ==
  ASSUME HistoryInv, NEW x \in Objects, NEW flag, GiveState(x, flag)
  PROVE  /\ State(x)' = flag
         /\ \A y \in Objects : y # x => State(y)' = State(y) /\ mapState'[y] = mapState[y]
         /\ DOMAIN mapState'[x] = DOMAIN mapState[x] \cup {TipBlock}
<1>1. /\ mapState'[x] = SetState(mapState[x], TipBlock, flag)
      /\ \A y \in Objects : y # x => mapState'[y] = mapState[y]
  BY DEF GiveState, HistoryInv, TypeOK
<1>2. TipBlock \in Nat \X Nat /\ Height(TipBlock) = tip
  BY TipType DEF HistoryInv
<1>3. /\ DOMAIN mapState[x] \subseteq Nat \X Nat
      /\ \A c \in DOMAIN mapState[x] : c = TipBlock \/ Height(c) < Height(TipBlock)
  BY <1>2, HistoryBlocks
<1>4. GetLastState(SetState(mapState[x], TipBlock, flag)) = flag
  BY <1>2, <1>3, SetStateLast
<1>5. DOMAIN SetState(mapState[x], TipBlock, flag) = DOMAIN mapState[x] \cup {TipBlock}
  BY DEF SetState
<1>. QED  BY <1>1, <1>4, <1>5 DEF State

\* The tip a step leaves, when it neither connects nor disconnects a block.
LEMMA TipKept ==
  ASSUME TypeOK,
         \/ UNCHANGED chain
         \/ \E s \in Int, l \in Int : SetBalances(s, l)
  PROVE  tip' = tip /\ TipBlock' = TipBlock
BY ChainKept DEF tip

\* The tip a new block makes.
LEMMA TipConnected ==
  ASSUME HistoryInv, NEW fork \in Forks, NEW step \in TimeSteps, NEW contribution \in Contributions,
         ConnectBlock(fork, step, contribution)
  PROVE  tip \in Nat /\ tip >= 1 /\ tip' = tip + 1 /\ tip' > 1 /\ Height(TipBlock') = tip + 1
<1>1. tip \in Nat /\ tip >= 1
  BY TipType DEF HistoryInv
<1>2. PICK b : chain' = Append(chain, b)
  BY DEF ConnectBlock
<1>3. tip' = tip + 1
  <2>1. chain \in Seq(BlockIndex)
    BY DEF HistoryInv, TypeOK
  <2>. QED  BY <1>2, <2>1 DEF tip
<1>. QED  BY <1>1, <1>3 DEF TipBlock, Height

\* The height of the block that created an object of the view.
LEMMA CreationHeight ==
  ASSUME HistoryInv, NEW x \in Objects, Exists(x)
  PROVE  txblock[x] \in Blocks /\ Height(txblock[x]) \in Nat /\ Height(txblock[x]) <= tip
<1>1. OnChain(txblock[x])
  BY DEF HistoryInv, HistoryOnChain
<1>. QED  BY <1>1, InputsAssumption DEF OnChain, Blocks, Heights, Height

\* What a disconnected block leaves of a history.
LEMMA UndoneIs ==
  ASSUME HistoryInv, DisconnectTip, NEW x \in Objects
  PROVE  /\ DOMAIN mapState'[x] \subseteq DOMAIN mapState[x] \ {TipBlock}
         /\ \A c \in DOMAIN mapState'[x] : mapState'[x][c] = mapState[x][c]
         /\ txblock[x] # TipBlock => DOMAIN mapState'[x] = DOMAIN mapState[x] \ {TipBlock}
         /\ txblock'[x] = IF txblock[x] = TipBlock THEN NoBlock ELSE txblock[x]
BY DEF DisconnectTip, Undone, NoHistory, ClearState

\* A step of a block under way touches nothing below the tip.
LEMMA BelowTip ==
  ASSUME HistoryInv, tip' = tip,
         \/ UNCHANGED mapState
         \/ \E x \in Objects : \E flag \in FlagsOf(x) : GiveState(x, flag),
         \A x \in Objects : txblock'[x] = txblock[x] \/ (~Exists(x) /\ txblock'[x] = TipBlock),
         NEW h \in 1..(tip - 1)
  PROVE  /\ FlagsAt(h)' = FlagsAt(h)
         /\ \A x \in Objects : /\ ExistsAt(x, h)' <=> ExistsAt(x, h)
                               /\ ExistsAt(x, h) => txblock'[x] = txblock[x]
<1>1. tip \in Nat /\ tip >= 1 /\ Height(TipBlock) = tip
  BY TipType DEF HistoryInv
<1>2. h \in 1..tip /\ h # tip /\ h < tip /\ h \in Nat
  BY <1>1
<1>3. FlagsAt(h)' = FlagsAt(h)
  <2>1. CASE UNCHANGED mapState
    BY <2>1 DEF FlagsAt, FlagAt
  <2>2. CASE \E x \in Objects : \E flag \in FlagsOf(x) : GiveState(x, flag)
    BY <1>2, <2>2, FlagsGiven
  <2>. QED  BY <2>1, <2>2
<1>4. ASSUME NEW x \in Objects
      PROVE  /\ ExistsAt(x, h)' <=> ExistsAt(x, h)
             /\ ExistsAt(x, h) => txblock'[x] = txblock[x]
  <2>1. CASE txblock'[x] = txblock[x]
    BY <2>1 DEF ExistsAt, Exists
  <2>2. CASE ~Exists(x) /\ txblock'[x] = TipBlock
    <3>1. ~(Height(TipBlock) <= h)
      BY <1>1, <1>2
    <3>. QED  BY <2>2, <3>1 DEF ExistsAt, Exists
  <2>. QED  BY <2>1, <2>2
<1>. QED  BY <1>3, <1>4

\* Nor does disconnecting the tip.
LEMMA BelowUndone ==
  ASSUME HistoryInv, DisconnectTip, NEW h \in 1..(tip - 1)
  PROVE  /\ FlagsAt(h)' = FlagsAt(h)
         /\ \A x \in Objects : /\ ExistsAt(x, h)' <=> ExistsAt(x, h)
                               /\ ExistsAt(x, h) => txblock'[x] = txblock[x]
<1>1. tip \in Nat /\ Height(TipBlock) = tip /\ h \in Nat /\ h < tip
  BY TipType DEF HistoryInv
<1>2. \A x \in Objects : txblock'[x] = IF txblock[x] = TipBlock THEN NoBlock ELSE txblock[x]
  BY UndoneIs
<1>. QED  BY <1>1, <1>2, FlagsKept DEF ExistsAt, Exists
=============================================================================
