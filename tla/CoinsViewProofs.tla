-------------------------- MODULE CoinsViewProofs --------------------------
(***************************************************************************)
(* The coins of every level are those of the chain the level has applied,  *)
(* whatever was fetched, forgotten and flushed on the way: the flags of    *)
(* the caches are true, undo data fits, and the stack of caches implements *)
(* the plain sets of UtxoSet, for every set of transactions.               *)
(***************************************************************************)
EXTENDS CoinsView, SequenceTheorems, TLAPS

-----------------------------------------------------------------------------
(* What a chain makes of the coins, without any cache.                     *)

\* The transactions of a chain
TxSet(c) == {c[i].tx : i \in DOMAIN c}

\* The outputs of t that a chain leaves unspent
OutsOf(c, t) ==
  IF t \in TxSet(c) THEN {n \in Outputs[t] : \A j \in DOMAIN c : n \notin SpentOf(c[j].tx, t)}
                    ELSE {}

\* The transaction of u, with its undo data, may follow a chain
Fits(c, u) ==
  /\ u.tx \notin TxSet(c)
  /\ \A p \in Txids : SpentOf(u.tx, p) \subseteq OutsOf(c, p)
  /\ u.last = {p \in Parents(u.tx) : OutsOf(c, p) = SpentOf(u.tx, p)}

\* Every transaction of a chain fits where it stands
Front(c, n) == SubSeq(c, 1, n)
ChainOK(c) == \A i \in DOMAIN c : Fits(Front(c, i - 1), c[i])

\* One chain is the beginning of another
Begins(c, d) == Len(c) <= Len(d) /\ c = Front(d, Len(c))

\* Every level holds the coins of its chain
LevelsFollowChains ==
  \A t \in Txids :
    /\ db[t] = OutsOf(dbChain, t)
    /\ TipCoins(t).outs = OutsOf(tipChain, t)
    /\ ViewCoins(t).outs = OutsOf(viewChain, t)

\* What the view is to the tip
ViewFitsMode ==
  /\ mode = "idle" => view = NoEntries /\ viewChain = tipChain
  /\ mode = "connect" => TxSet(tipChain) \subseteq TxSet(viewChain)
  /\ mode \in {"disconnect", "verify", "reconnect"} => Begins(viewChain, tipChain)

ChainsOK == ChainOK(dbChain) /\ ChainOK(tipChain) /\ ChainOK(viewChain)

CoinsInv ==
  /\ TypeOK
  /\ ChainsOK
  /\ LevelsFollowChains
  /\ ViewFitsMode
  /\ TipFlagsAreTrue
  /\ ViewFlagsAreTrue
  /\ fClean

-----------------------------------------------------------------------------
(* What a transaction spends.                                              *)

\* SpentOf lists the inputs of t by the transaction they come from.
LEMMA SpentOfIs ==
  ASSUME NEW t \in Txids, NEW p, NEW n
  PROVE  n \in SpentOf(t, p) <=> <<p, n>> \in Inputs[t]
<1>1. ASSUME n \in SpentOf(t, p)  PROVE <<p, n>> \in Inputs[t]
  <2>1. PICK i \in Inputs[t] : i[1] = p /\ i[2] = n
    BY <1>1 DEF SpentOf
  <2>2. i \in Txids \X Nat
    BY <2>1, TxAssumption
  <2>. QED  BY <2>1, <2>2
<1>2. ASSUME <<p, n>> \in Inputs[t]  PROVE n \in SpentOf(t, p)
  BY <1>2 DEF SpentOf
<1>. QED  BY <1>1, <1>2

\* The transactions that t spends from are others, and t spends what they have.
LEMMA ParentsAre ==
  ASSUME NEW t \in Txids
  PROVE  /\ Parents(t) \subseteq Txids \ {t}
         /\ \A p : p \in Parents(t) <=> SpentOf(t, p) # {}
         /\ \A p \in Txids : SpentOf(t, p) \subseteq Outputs[p]
<1>1. \A i \in Inputs[t] : i \in Txids \X Nat /\ i[1] # t /\ i[2] \in Outputs[i[1]]
  BY TxAssumption
<1>. QED  BY <1>1 DEF Parents, SpentOf

-----------------------------------------------------------------------------
(* Chains as sequences.                                                    *)

\* The beginning of a chain
LEMMA FrontIs ==
  ASSUME NEW c \in Seq(Undone), NEW n \in 0..Len(c)
  PROVE  /\ Front(c, n) \in Seq(Undone)
         /\ Len(Front(c, n)) = n
         /\ DOMAIN Front(c, n) = 1..n
         /\ \A i \in 1..n : Front(c, n)[i] = c[i]
BY SubSeqProperties DEF Front

\* The members of a chain have a transaction and undo data.
LEMMA MemberOfChain ==
  ASSUME NEW c \in Seq(Undone), NEW i \in DOMAIN c
  PROVE  i \in 1..Len(c) /\ c[i] \in Undone /\ c[i].tx \in Txids /\ c[i].last \subseteq Txids
<1>1. i \in 1..Len(c) /\ c[i] \in Undone
  BY ElementOfSeq, LenProperties
<1>. QED  BY <1>1 DEF Undone

\* A beginning of a beginning is one.
LEMMA FrontOfFront ==
  ASSUME NEW c \in Seq(Undone), NEW n \in 0..Len(c), NEW m \in 0..n
  PROVE  Front(Front(c, n), m) = Front(c, m)
<1>1. m \in 0..Len(c)
  OBVIOUS
<1>2. m \in 0..Len(Front(c, n))
  BY FrontIs
<1>. DEFINE a == Front(Front(c, n), m)
            b == Front(c, m)
<1>3. a \in Seq(Undone) /\ Len(a) = m /\ \A i \in 1..m : a[i] = Front(c, n)[i]
  BY <1>2, FrontIs
<1>4. b \in Seq(Undone) /\ Len(b) = m /\ \A i \in 1..m : b[i] = c[i]
  BY <1>1, FrontIs
<1>5. \A i \in 1..m : Front(c, n)[i] = c[i]
  BY FrontIs
<1>. HIDE DEF a, b
<1>. QED  BY <1>3, <1>4, <1>5, SeqEqual DEF a, b

\* A chain and one more transaction
LEMMA AppendIs ==
  ASSUME NEW c \in Seq(Undone), NEW u \in Undone
  PROVE  /\ Append(c, u) \in Seq(Undone)
         /\ Len(Append(c, u)) = Len(c) + 1
         /\ DOMAIN Append(c, u) = 1..(Len(c) + 1)
         /\ \A i \in 1..Len(c) : Append(c, u)[i] = c[i]
         /\ Append(c, u)[Len(c) + 1] = u
BY AppendProperties, LenProperties

\* The beginning of a chain is not changed by a transaction at its end.
LEMMA FrontOfAppend ==
  ASSUME NEW c \in Seq(Undone), NEW u \in Undone, NEW n \in 0..Len(c)
  PROVE  Front(Append(c, u), n) = Front(c, n)
<1>1. Append(c, u) \in Seq(Undone) /\ n \in 0..Len(Append(c, u))
  BY AppendIs, LenProperties
<1>. DEFINE a == Front(Append(c, u), n)
            b == Front(c, n)
<1>2. a \in Seq(Undone) /\ Len(a) = n /\ \A i \in 1..n : a[i] = Append(c, u)[i]
  BY <1>1, FrontIs
<1>3. b \in Seq(Undone) /\ Len(b) = n /\ \A i \in 1..n : b[i] = c[i]
  BY FrontIs
<1>4. \A i \in 1..n : Append(c, u)[i] = c[i]
  BY AppendIs, LenProperties
<1>. HIDE DEF a, b
<1>. QED  BY <1>2, <1>3, <1>4, SeqEqual DEF a, b

\* A chain is its own beginning.
LEMMA FrontAll ==
  ASSUME NEW c \in Seq(Undone)
  PROVE  Front(c, Len(c)) = c
BY SubSeqFull DEF Front

\* A chain is what comes before its last transaction, and that transaction.
LEMMA FrontAndLast ==
  ASSUME NEW c \in Seq(Undone), c # <<>>
  PROVE  /\ Len(c) \in Nat \ {0}
         /\ c[Len(c)] \in Undone
         /\ Front(c, Len(c) - 1) \in Seq(Undone)
         /\ c = Append(Front(c, Len(c) - 1), c[Len(c)])
<1>1. Len(c) \in Nat \ {0}
  BY EmptySeq, LenProperties
<1>2. c[Len(c)] \in Undone
  BY <1>1, ElementOfSeq
<1>. DEFINE b == Front(c, Len(c) - 1)
            d == Append(b, c[Len(c)])
<1>3. b \in Seq(Undone) /\ Len(b) = Len(c) - 1 /\ \A i \in 1..(Len(c) - 1) : b[i] = c[i]
  BY <1>1, FrontIs
<1>. HIDE DEF b
<1>4. /\ d \in Seq(Undone) /\ Len(d) = Len(b) + 1
      /\ \A i \in 1..Len(b) : d[i] = b[i]
      /\ d[Len(b) + 1] = c[Len(c)]
  BY <1>2, <1>3, AppendIs
<1>. HIDE DEF d
<1>5. Len(d) = Len(c)
  BY <1>1, <1>3, <1>4
<1>6. \A i \in 1..Len(c) : d[i] = c[i]
  <2>. TAKE i \in 1..Len(c)
  <2>1. CASE i = Len(c)
    BY <2>1, <1>1, <1>3, <1>4
  <2>2. CASE i # Len(c)
    BY <2>2, <1>1, <1>3, <1>4
  <2>. QED  BY <2>1, <2>2
<1>7. d = c
  BY <1>4, <1>5, <1>6, SeqEqual
<1>. QED  BY <1>1, <1>2, <1>3, <1>7 DEF d, b

-----------------------------------------------------------------------------
(* What a chain makes of the coins when it grows and when it shrinks.      *)

\* The transactions of a beginning are transactions of the chain.
LEMMA TxSetOfFront ==
  ASSUME NEW c \in Seq(Undone), NEW n \in 0..Len(c)
  PROVE  TxSet(Front(c, n)) \subseteq TxSet(c)
<1>1. DOMAIN Front(c, n) = 1..n /\ \A i \in 1..n : Front(c, n)[i] = c[i]
  BY FrontIs
<1>2. 1..n \subseteq DOMAIN c
  BY LenProperties
<1>. QED  BY <1>1, <1>2 DEF TxSet

\* A chain that gets longer has one transaction more.
LEMMA TxSetOfAppend ==
  ASSUME NEW c \in Seq(Undone), NEW u \in Undone
  PROVE  TxSet(Append(c, u)) = TxSet(c) \cup {u.tx}
<1>1. DOMAIN c = 1..Len(c) /\ Len(c) \in Nat
  BY LenProperties
<1>2. /\ DOMAIN Append(c, u) = 1..(Len(c) + 1)
      /\ \A i \in 1..Len(c) : Append(c, u)[i] = c[i]
      /\ Append(c, u)[Len(c) + 1] = u
  BY AppendIs
<1>3. 1..(Len(c) + 1) = 1..Len(c) \cup {Len(c) + 1}
  BY <1>1
<1>4. ASSUME NEW x  PROVE x \in TxSet(Append(c, u)) <=> x \in TxSet(c) \cup {u.tx}
  <2>1. x \in TxSet(Append(c, u)) <=> \E i \in 1..Len(c) \cup {Len(c) + 1} : Append(c, u)[i].tx = x
    BY <1>2, <1>3 DEF TxSet
  <2>2. x \in TxSet(c) <=> \E i \in 1..Len(c) : c[i].tx = x
    BY <1>1 DEF TxSet
  <2>. QED  BY <1>2, <2>1, <2>2
<1>. QED  BY <1>4

\* A chain without transactions has no coins.
LEMMA OutsOfNone ==
  ASSUME NEW t
  PROVE  OutsOf(<<>>, t) = {}
<1>1. TxSet(<<>>) = {}
  BY EmptySeq DEF TxSet
<1>. QED  BY <1>1 DEF OutsOf

\* The coins of t are outputs of t.
LEMMA OutsOfType ==
  ASSUME NEW c, NEW t
  PROVE  OutsOf(c, t) \subseteq Outputs[t]
BY DEF OutsOf

\* What a chain spends, it spends from its own transactions.
LEMMA SpentInChain ==
  ASSUME NEW c \in Seq(Undone), ChainOK(c), NEW j \in DOMAIN c,
         NEW p \in Txids, SpentOf(c[j].tx, p) # {}
  PROVE  p \in TxSet(c)
<1>1. j \in 1..Len(c) /\ Len(c) \in Nat
  BY MemberOfChain, LenProperties
<1>2. SpentOf(c[j].tx, p) \subseteq OutsOf(Front(c, j - 1), p)
  BY DEF ChainOK, Fits
<1>3. p \in TxSet(Front(c, j - 1))
  BY <1>2 DEF OutsOf
<1>4. j - 1 \in 0..Len(c)
  BY <1>1
<1>. QED  BY <1>3, <1>4, TxSetOfFront

\* Connecting a transaction that fits: its outputs are there, what it spends
\* is not any more.
LEMMA OutsOfAppend ==
  ASSUME NEW c \in Seq(Undone), ChainOK(c), NEW u \in Undone, Fits(c, u),
         NEW x \in Txids
  PROVE  OutsOf(Append(c, u), x) = IF x = u.tx THEN Outputs[x]
                                               ELSE OutsOf(c, x) \ SpentOf(u.tx, x)
<1>. DEFINE d == Append(c, u)
<1>1. u.tx \in Txids
  BY DEF Undone
<1>2. DOMAIN c = 1..Len(c) /\ Len(c) \in Nat
  BY LenProperties
<1>3. /\ DOMAIN d = 1..(Len(c) + 1)
      /\ \A i \in 1..Len(c) : d[i] = c[i]
      /\ d[Len(c) + 1] = u
  BY AppendIs
<1>4. 1..(Len(c) + 1) = 1..Len(c) \cup {Len(c) + 1}
  BY <1>2
<1>5. TxSet(d) = TxSet(c) \cup {u.tx}
  BY TxSetOfAppend
<1>. HIDE DEF d
<1>6. \A n : (\A j \in DOMAIN d : n \notin SpentOf(d[j].tx, x))
               <=> n \notin SpentOf(u.tx, x) /\ \A j \in DOMAIN c : n \notin SpentOf(c[j].tx, x)
  BY <1>2, <1>3, <1>4, Zenon
<1>7. CASE x = u.tx
  <2>1. SpentOf(u.tx, x) = {}
    BY <1>1, <1>7, ParentsAre
  <2>2. x \notin TxSet(c)
    BY <1>7 DEF Fits
  <2>3. \A j \in DOMAIN c : SpentOf(c[j].tx, x) = {}
    BY <2>2, SpentInChain
  <2>. QED  BY <1>5, <1>6, <1>7, <2>1, <2>3 DEF OutsOf, d
<1>8. CASE x # u.tx
  <2>1. x \in TxSet(d) <=> x \in TxSet(c)
    BY <1>5, <1>8
  <2>. QED  BY <1>6, <1>8, <2>1 DEF OutsOf, d
<1>. QED  BY <1>7, <1>8

\* A chain stays one when a transaction that fits is appended.
LEMMA ChainOKAppend ==
  ASSUME NEW c \in Seq(Undone), ChainOK(c), NEW u \in Undone, Fits(c, u)
  PROVE  ChainOK(Append(c, u))
<1>. DEFINE d == Append(c, u)
<1>1. DOMAIN c = 1..Len(c) /\ Len(c) \in Nat
  BY LenProperties
<1>2. /\ DOMAIN d = 1..(Len(c) + 1)
      /\ \A i \in 1..Len(c) : d[i] = c[i]
      /\ d[Len(c) + 1] = u
  BY AppendIs
<1>3. \A n \in 0..Len(c) : Front(d, n) = Front(c, n)
  BY FrontOfAppend
<1>. HIDE DEF d
<1>4. ASSUME NEW i \in DOMAIN d  PROVE Fits(Front(d, i - 1), d[i])
  <2>1. i \in 1..(Len(c) + 1) /\ i - 1 \in 0..Len(c)
    BY <1>1, <1>2, <1>4
  <2>2. Front(d, i - 1) = Front(c, i - 1)
    BY <1>3, <2>1
  <2>3. CASE i = Len(c) + 1
    <3>1. i - 1 = Len(c) /\ d[i] = u
      BY <1>1, <1>2, <2>3
    <3>2. Front(d, i - 1) = c
      BY <2>2, <3>1, FrontAll
    <3>. QED  BY <3>1, <3>2
  <2>4. CASE i # Len(c) + 1
    <3>1. i \in DOMAIN c
      BY <1>1, <2>1, <2>4
    <3>2. d[i] = c[i]
      BY <1>1, <1>2, <3>1
    <3>. QED  BY <2>2, <3>1, <3>2 DEF ChainOK
  <2>. QED  BY <2>3, <2>4
<1>. QED  BY <1>4 DEF ChainOK, d

\* A beginning of a chain is a chain.
LEMMA ChainOKFront ==
  ASSUME NEW c \in Seq(Undone), ChainOK(c), NEW n \in 0..Len(c)
  PROVE  ChainOK(Front(c, n))
<1>1. DOMAIN c = 1..Len(c) /\ Len(c) \in Nat
  BY LenProperties
<1>2. DOMAIN Front(c, n) = 1..n /\ \A i \in 1..n : Front(c, n)[i] = c[i]
  BY FrontIs
<1>3. ASSUME NEW i \in 1..n  PROVE Fits(Front(Front(c, n), i - 1), c[i])
  <2>1. i - 1 \in 0..n /\ i \in DOMAIN c
    BY <1>1
  <2>2. Front(Front(c, n), i - 1) = Front(c, i - 1)
    BY <2>1, FrontOfFront
  <2>. QED  BY <2>1, <2>2 DEF ChainOK
<1>. QED  BY <1>2, <1>3 DEF ChainOK

\* Disconnecting the last transaction of a chain: it is there whole, nothing
\* has it spent is there, and afterwards that is there again.
LEMMA OutsOfFront ==
  ASSUME NEW c \in Seq(Undone), ChainOK(c), c # <<>>
  PROVE  LET u == c[Len(c)]
             b == Front(c, Len(c) - 1)
         IN /\ u \in Undone /\ b \in Seq(Undone) /\ ChainOK(b) /\ Fits(b, u)
            /\ OutsOf(c, u.tx) = Outputs[u.tx] /\ OutsOf(b, u.tx) = {}
            /\ \A p \in Txids \ {u.tx} :
                 /\ OutsOf(c, p) = OutsOf(b, p) \ SpentOf(u.tx, p)
                 /\ OutsOf(b, p) = OutsOf(c, p) \cup SpentOf(u.tx, p)
<1>. DEFINE u == c[Len(c)]
            b == Front(c, Len(c) - 1)
<1>1. Len(c) \in Nat \ {0} /\ u \in Undone /\ b \in Seq(Undone) /\ c = Append(b, u)
  BY FrontAndLast
<1>2. Len(c) \in DOMAIN c /\ Len(c) - 1 \in 0..Len(c)
  BY <1>1, LenProperties
<1>3. Fits(b, u)
  BY <1>2 DEF ChainOK
<1>4. ChainOK(b)
  BY <1>2, ChainOKFront
<1>. HIDE DEF u, b
<1>5. \A x \in Txids : OutsOf(c, x) = IF x = u.tx THEN Outputs[x]
                                                  ELSE OutsOf(b, x) \ SpentOf(u.tx, x)
  BY <1>1, <1>3, <1>4, OutsOfAppend
<1>6. u.tx \in Txids
  BY <1>1 DEF Undone
<1>7. OutsOf(b, u.tx) = {}
  BY <1>3 DEF Fits, OutsOf
<1>8. \A p \in Txids : SpentOf(u.tx, p) \subseteq OutsOf(b, p)
  BY <1>3 DEF Fits
<1>9. OutsOf(c, u.tx) = Outputs[u.tx]
  BY <1>5, <1>6
<1>10. \A p \in Txids \ {u.tx} :
         /\ OutsOf(c, p) = OutsOf(b, p) \ SpentOf(u.tx, p)
         /\ OutsOf(b, p) = OutsOf(c, p) \cup SpentOf(u.tx, p)
  BY <1>5, <1>8
<1>. QED  BY <1>1, <1>3, <1>4, <1>7, <1>9, <1>10 DEF u, b

\* A chain that goes on only spends: what a beginning of it has made it may
\* have spent since, and it has not made it again.
LEMMA OutsOfBegins ==
  ASSUME NEW c \in Seq(Undone), NEW d \in Seq(Undone), Begins(c, d), NEW t \in TxSet(c)
  PROVE  OutsOf(d, t) \subseteq OutsOf(c, t)
<1>1. Len(c) \in Nat /\ Len(c) \in 0..Len(d) /\ DOMAIN d = 1..Len(d) /\ c = Front(d, Len(c))
  BY LenProperties DEF Begins
<1>2. DOMAIN c = 1..Len(c) /\ \A i \in 1..Len(c) : c[i] = d[i]
  BY <1>1, FrontIs, Zenon
<1>3. DOMAIN c \subseteq DOMAIN d
  BY <1>1, <1>2
<1>4. t \in TxSet(d)
  BY <1>2, <1>3 DEF TxSet
<1>. QED  BY <1>2, <1>3, <1>4 DEF OutsOf

\* The next transaction of a chain after a beginning of it fits there, and
\* its undo data is what connecting it again writes.
LEMMA BeginsNext ==
  ASSUME NEW c \in Seq(Undone), NEW d \in Seq(Undone), ChainOK(d), Begins(c, d), Len(c) < Len(d)
  PROVE  LET u == d[Len(c) + 1]
         IN u \in Undone /\ Fits(c, u) /\ Begins(Append(c, u), d)
<1>. DEFINE u == d[Len(c) + 1]
            n == Len(c)
<1>1. n \in Nat /\ Len(d) \in Nat /\ n + 1 \in DOMAIN d /\ n + 1 \in 0..Len(d) /\ n \in 0..Len(d)
  BY LenProperties
<1>2. u \in Undone
  BY <1>1, MemberOfChain
<1>3. c = Front(d, n)
  BY DEF Begins
<1>4. (n + 1) - 1 = n
  BY <1>1
<1>5. Fits(c, u)
  BY <1>1, <1>3, <1>4 DEF ChainOK
<1>6. /\ Front(d, n + 1) \in Seq(Undone) /\ Len(Front(d, n + 1)) = n + 1
      /\ \A i \in 1..(n + 1) : Front(d, n + 1)[i] = d[i]
  BY <1>1, FrontIs
<1>7. \A i \in 1..n : c[i] = d[i]
  BY <1>1, <1>3, FrontIs, Zenon
<1>8. /\ Append(c, u) \in Seq(Undone) /\ Len(Append(c, u)) = n + 1
      /\ \A i \in 1..n : Append(c, u)[i] = c[i]
      /\ Append(c, u)[n + 1] = u
  BY <1>2, AppendIs
<1>9. \A i \in 1..(n + 1) : Append(c, u)[i] = Front(d, n + 1)[i]
  <2>. TAKE i \in 1..(n + 1)
  <2>1. CASE i = n + 1
    BY <2>1, <1>1, <1>6, <1>8
  <2>2. CASE i # n + 1
    <3>1. i \in 1..n
      BY <2>2, <1>1
    <3>. QED  BY <3>1, <1>6, <1>7, <1>8
  <2>. QED  BY <2>1, <2>2
<1>10. Append(c, u) = Front(d, n + 1)
  BY <1>6, <1>8, <1>9, SeqEqual
<1>11. Len(Append(c, u)) <= Len(d)
  BY <1>1, <1>8
<1>12. Begins(Append(c, u), d)
  BY <1>8, <1>10, <1>11 DEF Begins
<1>. QED  BY <1>2, <1>5, <1>12

\* What begins a chain still does so without its last transaction.
LEMMA BeginsFront ==
  ASSUME NEW c \in Seq(Undone), NEW d \in Seq(Undone), Begins(c, d), c # <<>>
  PROVE  Begins(Front(c, Len(c) - 1), d)
<1>1. Len(c) \in Nat \ {0} /\ Len(d) \in Nat
  BY FrontAndLast, LenProperties
<1>2. Len(c) <= Len(d) /\ c = Front(d, Len(c))
  BY DEF Begins
<1>3. Len(c) \in 0..Len(d) /\ Len(c) - 1 \in 0..Len(c)
  BY <1>1, <1>2
<1>4. Front(Front(d, Len(c)), Len(c) - 1) = Front(d, Len(c) - 1)
  BY <1>3, FrontOfFront
<1>5. Front(c, Len(c) - 1) = Front(d, Len(c) - 1)
  BY <1>2, <1>4, Zenon
<1>6. Len(Front(c, Len(c) - 1)) = Len(c) - 1
  BY <1>3, FrontIs
<1>7. Len(c) - 1 <= Len(d)
  BY <1>1, <1>2
<1>. QED  BY <1>5, <1>6, <1>7, Zenon DEF Begins

-----------------------------------------------------------------------------
(* The caches: what an operation makes of the coins a level returns.       *)

\* The coins a level returns have no more outputs than the transaction.
LEMMA CoinsType ==
  ASSUME LevelsFollowChains, NEW t \in Txids
  PROVE  /\ db[t] \subseteq Outputs[t]
         /\ TipCoins(t).outs \subseteq Outputs[t]
         /\ ViewCoins(t).outs \subseteq Outputs[t]
BY OutsOfType DEF LevelsFollowChains

\* What a level returns for t, by where it has it from
LEMMA CoinsAre ==
  ASSUME NEW t
  PROVE  /\ t \in DOMAIN tip => TipCoins(t).outs = tip[t].outs /\ TipCoins(t).fCoinStake = tip[t].fCoinStake
         /\ t \notin DOMAIN tip => TipCoins(t).outs = db[t] /\ TipCoins(t).fCoinStake = FALSE
         /\ t \in DOMAIN view => ViewCoins(t).outs = view[t].outs
         /\ t \notin DOMAIN view => ViewCoins(t).outs = TipCoins(t).outs
BY DEF TipCoins, ViewCoins, Stored, Coins

\* The flag of a coinstake is a Boolean, wherever it comes from.
LEMMA CoinStakeType ==
  ASSUME TypeOK, NEW t \in Txids
  PROVE  TipCoins(t).fCoinStake \in BOOLEAN
<1>1. CASE t \in DOMAIN tip
  <2>1. tip[t].fCoinStake \in BOOLEAN
    BY <1>1 DEF TypeOK, Entry
  <2>. QED  BY <1>1, <2>1, CoinsAre
<1>2. CASE t \notin DOMAIN tip
  BY <1>2, CoinsAre
<1>. QED  BY <1>1, <1>2

\* The entry made for coins of the level below
LEMMA FetchedIs ==
  ASSUME NEW c
  PROVE  /\ Fetched(c).outs = c.outs
         /\ Fetched(c).fCoinStake = c.fCoinStake
         /\ ~Fetched(c).dirty
         /\ Fetched(c).fresh <=> c.outs = {}
<1>1. Fetched(c).outs = c.outs /\ Fetched(c).fCoinStake = c.fCoinStake
  BY DEF Fetched
<1>3. ~Fetched(c).dirty
  BY Zenon DEF Fetched
<1>2. Fetched(c).fresh <=> c.outs = {}
  BY Zenon DEF Fetched
<1>. QED  BY <1>1, <1>2, <1>3, Zenon

\* An entry fetched from the level below is an entry.
LEMMA FetchedType ==
  ASSUME NEW t, NEW c, c.outs \subseteq Outputs[t], c.fCoinStake \in BOOLEAN
  PROVE  Fetched(c) \in Entry(t)
<1>1. (c.outs = {}) \in BOOLEAN
  OBVIOUS
<1>. QED  BY <1>1 DEF Fetched, Entry

\* Reading through the tip leaves what it returns, and its flags are true.
LEMMA FetchTipIs ==
  ASSUME TypeOK, LevelsFollowChains, TipFlagsAreTrue, NEW S \in SUBSET Txids
  PROVE  LET c == FetchTip(S)
         IN /\ DOMAIN tip \subseteq DOMAIN c /\ DOMAIN c \subseteq Txids
            /\ \A t \in DOMAIN c : /\ c[t] \in Entry(t)
                                   /\ c[t].outs = TipCoins(t).outs
                                   /\ c[t].fCoinStake = TipCoins(t).fCoinStake
                                   /\ c[t].fresh => db[t] = {}
                                   /\ ~c[t].dirty => c[t].outs = db[t]
            /\ \A t \in Txids \ DOMAIN c : TipCoins(t).outs = db[t]
<1>. DEFINE c == FetchTip(S)
<1>1. DOMAIN c = DOMAIN tip \cup {t \in S : db[t] # {}}
  BY DEF FetchTip
<1>2. DOMAIN tip \subseteq DOMAIN c /\ DOMAIN c \subseteq Txids
  BY <1>1 DEF TypeOK
<1>3. ASSUME NEW t \in DOMAIN c
      PROVE  /\ c[t] \in Entry(t)
             /\ c[t].outs = TipCoins(t).outs
             /\ c[t].fCoinStake = TipCoins(t).fCoinStake
             /\ c[t].fresh => db[t] = {}
             /\ ~c[t].dirty => c[t].outs = db[t]
  <2>1. CASE t \in DOMAIN tip
    <3>1. c[t] = tip[t]
      BY <2>1 DEF FetchTip
    <3>. QED  BY <2>1, <3>1, CoinsAre DEF TypeOK, TipFlagsAreTrue
  <2>2. CASE t \notin DOMAIN tip
    <3>1. t \in Txids /\ db[t] # {} /\ db[t] \subseteq Outputs[t]
      BY <1>1, <1>2, <2>2, CoinsType
    <3>2. c[t] = Fetched(Stored(t))
      BY <2>2 DEF FetchTip
    <3>3. Stored(t).outs = db[t] /\ Stored(t).fCoinStake = FALSE
      BY DEF Stored
    <3>4. c[t] \in Entry(t)
      BY <3>1, <3>2, <3>3, FetchedType
    <3>5. c[t].outs = db[t] /\ c[t].fCoinStake = FALSE
      BY <3>2, <3>3, FetchedIs
    <3>6. ~c[t].fresh
      BY <3>1, <3>2, <3>3, FetchedIs, Zenon
    <3>. QED  BY <2>2, <3>4, <3>5, <3>6, CoinsAre
  <2>. QED  BY <2>1, <2>2
<1>4. ASSUME NEW t \in Txids \ DOMAIN c  PROVE TipCoins(t).outs = db[t]
  BY <1>2, <1>4, CoinsAre
<1>. QED  BY <1>2, <1>3, <1>4

\* What FetchCoins, ModifyCoins and UpdateCoins know of an entry x of a cache
\* over the tip
TrueEntry(e, x, m) ==
  /\ e.fresh => \/ TipCoins(x).outs = {}
                \/ m = "reconnect" /\ e.outs # {}
  /\ ~e.dirty => e.outs = TipCoins(x).outs

\* The coins of a cache over the tip
OutsIn(c, x) == IF x \in DOMAIN c THEN c[x].outs ELSE TipCoins(x).outs

\* Reading through the view leaves what it returns, and its flags are true.
LEMMA FetchViewIs ==
  ASSUME TypeOK, LevelsFollowChains, TipFlagsAreTrue, ViewFlagsAreTrue, NEW S \in SUBSET Txids
  PROVE  LET c == FetchView(S)
         IN /\ DOMAIN c \subseteq Txids
            /\ \A t \in DOMAIN c : c[t] \in Entry(t) /\ TrueEntry(c[t], t, mode)
            /\ \A t \in Txids : OutsIn(c, t) = ViewCoins(t).outs
<1>. DEFINE below == FetchTip(S \ DOMAIN view)
            c == FetchView(S)
<1>1. /\ DOMAIN below \subseteq Txids
      /\ \A t \in DOMAIN below : /\ below[t] \in Entry(t)
                                 /\ below[t].outs = TipCoins(t).outs
                                 /\ below[t].fCoinStake = TipCoins(t).fCoinStake
  BY FetchTipIs
<1>2. DOMAIN c = DOMAIN view \cup (S \cap DOMAIN below)
  BY DEF FetchView
<1>3. DOMAIN c \subseteq Txids
  BY <1>2 DEF TypeOK
<1>4. \A t \in DOMAIN c : c[t] = IF t \in DOMAIN view THEN view[t] ELSE Fetched(Coins(below[t]))
  BY <1>2 DEF FetchView
<1>. HIDE DEF below, c
<1>5. ASSUME NEW t \in DOMAIN c
      PROVE  c[t] \in Entry(t) /\ TrueEntry(c[t], t, mode) /\ c[t].outs = ViewCoins(t).outs
  <2>1. CASE t \in DOMAIN view
    <3>1. c[t] = view[t]
      BY <1>4, <2>1
    <3>. QED  BY <2>1, <3>1, CoinsAre DEF TypeOK, ViewFlagsAreTrue, TrueEntry
  <2>2. CASE t \notin DOMAIN view
    <3>1. t \in DOMAIN below /\ t \in Txids
      BY <1>2, <1>3, <2>2
    <3>2. /\ below[t].outs = TipCoins(t).outs
          /\ below[t].fCoinStake \in BOOLEAN
          /\ below[t].outs \subseteq Outputs[t]
      BY <1>1, <3>1, CoinStakeType DEF Entry
    <3>3. /\ c[t] = Fetched(Coins(below[t]))
          /\ Coins(below[t]).outs = below[t].outs
          /\ Coins(below[t]).fCoinStake = below[t].fCoinStake
      BY <1>4, <2>2 DEF Coins
    <3>4. c[t].outs = below[t].outs
      BY <3>3, FetchedIs
    <3>8. ~c[t].dirty
      BY <3>3, FetchedIs, Zenon
    <3>9. c[t].fresh <=> below[t].outs = {}
      <4>1. Fetched(Coins(below[t])).fresh <=> Coins(below[t]).outs = {}
        BY FetchedIs, Zenon
      <4>. QED  BY <3>3, <4>1, Zenon
    <3>5. c[t] \in Entry(t)
      BY <3>2, <3>3, FetchedType
    <3>6. TrueEntry(c[t], t, mode)
      BY <3>2, <3>4, <3>8, <3>9 DEF TrueEntry
    <3>7. c[t].outs = ViewCoins(t).outs
      BY <2>2, <3>2, <3>4, CoinsAre
    <3>. QED  BY <3>5, <3>6, <3>7
  <2>. QED  BY <2>1, <2>2
<1>6. \A t \in Txids : OutsIn(c, t) = ViewCoins(t).outs
  BY <1>2, <1>5, CoinsAre DEF OutsIn
<1>. QED  BY <1>3, <1>5, <1>6 DEF c

\* Releasing entries that are fresh and pruned drops them, and is invisible
\* where the tip has nothing either.
LEMMA ReleasedIs ==
  ASSUME NEW c, NEW S
  PROVE  LET d == Released(c, S)
         IN /\ DOMAIN d \subseteq DOMAIN c
            /\ \A x \in DOMAIN d : d[x] = c[x]
            /\ \A x \in DOMAIN d \cap S : ~c[x].fresh \/ c[x].outs # {}
            /\ \A x \in DOMAIN c \ DOMAIN d : x \in S /\ c[x].fresh /\ c[x].outs = {}
<1>. DEFINE gone == {x \in S \cap DOMAIN c : c[x].fresh /\ c[x].outs = {}}
            d == Released(c, S)
<1>1. DOMAIN d = DOMAIN c \ gone
  BY DEF Released, Erase
<1>2. \A x \in DOMAIN d : d[x] = c[x]
  BY DEF Released, Erase
<1>. HIDE DEF d
<1>3. \A x \in DOMAIN d \cap S : ~c[x].fresh \/ c[x].outs # {}
  BY <1>1, Zenon
<1>4. \A x \in DOMAIN c \ DOMAIN d : x \in S /\ c[x].fresh /\ c[x].outs = {}
  BY <1>1, Zenon
<1>5. DOMAIN d \subseteq DOMAIN c
  BY <1>1
<1>. QED  BY <1>2, <1>3, <1>4, <1>5, Zenon DEF d

\* A cache that may be put over the tip when mode is m: its entries have
\* their type, and their flags are true.
CacheOK(c, m) ==
  /\ DOMAIN c \subseteq Txids
  /\ \A x \in DOMAIN c : c[x] \in Entry(x) /\ TrueEntry(c[x], x, m)

\* Releasing leaves the coins of a cache as they are.
LEMMA ReleaseInvisible ==
  ASSUME NEW c, NEW S,
         \A x \in S \cap DOMAIN c : c[x].fresh /\ c[x].outs = {} => TipCoins(x).outs = {}
  PROVE  \A x : OutsIn(Released(c, S), x) = OutsIn(c, x)
<1>. DEFINE d == Released(c, S)
<1>1. /\ DOMAIN d \subseteq DOMAIN c
      /\ \A x \in DOMAIN d : d[x] = c[x]
      /\ \A x \in DOMAIN c \ DOMAIN d : x \in S /\ c[x].fresh /\ c[x].outs = {}
  BY ReleasedIs, Zenon
<1>. HIDE DEF d
<1>2. ASSUME NEW x  PROVE OutsIn(d, x) = OutsIn(c, x)
  <2>1. CASE x \in DOMAIN d
    BY <1>1, <2>1 DEF OutsIn
  <2>2. CASE x \in DOMAIN c /\ x \notin DOMAIN d
    <3>1. x \in S \cap DOMAIN c /\ c[x].fresh /\ c[x].outs = {}
      BY <1>1, <2>2, Zenon
    <3>2. TipCoins(x).outs = {}
      BY <3>1, Zenon
    <3>. QED  BY <2>2, <3>1, <3>2, Zenon DEF OutsIn
  <2>3. CASE x \notin DOMAIN c
    BY <1>1, <2>3 DEF OutsIn
  <2>. QED  BY <2>1, <2>2, <2>3
<1>. QED  BY <1>2 DEF d

\* What is left after releasing is still what it was.
LEMMA ReleaseKeeps ==
  ASSUME NEW c, NEW S, NEW m, CacheOK(c, m)
  PROVE  CacheOK(Released(c, S), m)
<1>1. /\ DOMAIN Released(c, S) \subseteq DOMAIN c
      /\ \A x \in DOMAIN Released(c, S) : Released(c, S)[x] = c[x]
  BY ReleasedIs, Zenon
<1>. QED  BY <1>1 DEF CacheOK

\* ModifyNewCoins: the outputs of t are there, all else is as it was.
LEMMA ModifyNewCoinsIs ==
  ASSUME LevelsFollowChains, NEW t \in Txids, NEW c, NEW m, CacheOK(c, m),
         m = "reconnect" \/ TipCoins(t).outs = {}
  PROVE  /\ CacheOK(ModifyNewCoins(c, t), m)
         /\ \A x \in Txids : OutsIn(ModifyNewCoins(c, t), x) = IF x = t THEN Outputs[t]
                                                                       ELSE OutsIn(c, x)
<1>. DEFINE kept == t \in DOMAIN c /\ c[t].fresh
            new == t \notin CoinBase \/ kept
            e == [outs |-> Outputs[t], fCoinStake |-> t \in CoinStake, dirty |-> TRUE, fresh |-> new]
            p == Put(c, t, e)
            d == Released(p, {t})
<1>1. ModifyNewCoins(c, t) = d
  BY DEF ModifyNewCoins
<1>2. e \in Entry(t) /\ e.outs = Outputs[t]
  <2>1. new \in BOOLEAN /\ (t \in CoinStake) \in BOOLEAN
    OBVIOUS
  <2>. HIDE DEF new
  <2>. QED  BY <2>1 DEF Entry
<1>3. e.dirty
  BY Zenon
<1>. HIDE DEF e
<1>4. DOMAIN p = DOMAIN c \cup {t} /\ p[t] = e /\ \A x \in DOMAIN c \ {t} : p[x] = c[x]
  BY DEF Put
<1>. HIDE DEF p
<1>5. /\ DOMAIN d \subseteq DOMAIN p
      /\ \A x \in DOMAIN d : d[x] = p[x]
      /\ \A x \in DOMAIN d \cap {t} : ~p[x].fresh \/ p[x].outs # {}
      /\ \A x \in DOMAIN p \ DOMAIN d : x \in {t} /\ p[x].fresh /\ p[x].outs = {}
  BY ReleasedIs, Zenon
<1>. HIDE DEF d
<1>6. ASSUME NEW x \in DOMAIN d  PROVE x \in Txids /\ d[x] \in Entry(x) /\ TrueEntry(d[x], x, m)
  <2>1. CASE x = t
    <3>1. d[x] = e
      BY <1>4, <1>5, <2>1
    <3>2. ~e.fresh \/ e.outs # {}
      BY <1>4, <1>5, <2>1, Zenon
    <3>3. TrueEntry(e, t, m)
      BY <1>3, <3>2 DEF TrueEntry
    <3>. QED  BY <1>2, <2>1, <3>1, <3>3
  <2>2. CASE x # t
    <3>1. x \in DOMAIN c /\ d[x] = c[x]
      BY <1>4, <1>5, <2>2
    <3>. QED  BY <3>1 DEF CacheOK
  <2>. QED  BY <2>1, <2>2
<1>7. CacheOK(d, m)
  BY <1>6 DEF CacheOK
<1>8. ASSUME NEW x \in Txids  PROVE OutsIn(d, x) = IF x = t THEN Outputs[t] ELSE OutsIn(c, x)
  <2>1. CASE x = t /\ x \in DOMAIN d
    BY <1>2, <1>4, <1>5, <2>1 DEF OutsIn
  <2>2. CASE x = t /\ x \notin DOMAIN d
    <3>1. t \in DOMAIN p \ DOMAIN d
      BY <1>4, <2>2
    <3>2. e.outs = {}
      BY <1>4, <1>5, <3>1, Zenon
    <3>3. TipCoins(t).outs = {}
      BY <1>2, <3>2, CoinsType
    <3>. QED  BY <1>2, <2>2, <3>2, <3>3 DEF OutsIn
  <2>3. CASE x # t
    <3>1. x \in DOMAIN d <=> x \in DOMAIN c
      BY <1>4, <1>5, <2>3, Zenon
    <3>2. x \in DOMAIN c => d[x] = c[x]
      BY <1>4, <1>5, <2>3, <3>1
    <3>. QED  BY <2>3, <3>1, <3>2 DEF OutsIn
  <2>. QED  BY <2>1, <2>2, <2>3
<1>. QED  BY <1>1, <1>7, <1>8

\* An entry some outputs of which are spent
LEMMA SpentEntry ==
  ASSUME NEW x, NEW e \in Entry(x), NEW T
  PROVE  LET d == [[e EXCEPT !.dirty = TRUE] EXCEPT !.outs = @ \ T]
         IN d \in Entry(x) /\ d.dirty /\ d.outs = e.outs \ T /\ d.fresh = e.fresh
<1>. DEFINE d == [[e EXCEPT !.dirty = TRUE] EXCEPT !.outs = @ \ T]
<1>1. d \in Entry(x)
  BY DEF Entry
<1>2. d.dirty
  BY DEF Entry
<1>3. d.outs = e.outs \ T
  BY DEF Entry
<1>4. d.fresh = e.fresh
  BY DEF Entry
<1>. QED  BY <1>1, <1>2, <1>3, <1>4, Zenon

\* UpdateCoins: the outputs of t are there, what t spends is not any more.
\* An entry the tip has outputs for is not forgotten.
LEMMA UpdateCoinsIs ==
  ASSUME TypeOK, LevelsFollowChains, TipFlagsAreTrue, ViewFlagsAreTrue,
         NEW t \in Txids, NEW S \in SUBSET Txids, Parents(t) \subseteq S,
         HaveInputs(FetchView(S), t),
         NEW m, m = IF mode = "connect" THEN mode ELSE "reconnect",
         m = "reconnect" \/ TipCoins(t).outs = {},
         m = "reconnect" =>
           \A p \in Parents(t) : ViewCoins(p).outs \subseteq SpentOf(t, p) => TipCoins(p).outs = {}
  PROVE  /\ CacheOK(UpdateCoins(t, S), m)
         /\ \A x \in Txids : OutsIn(UpdateCoins(t, S), x) =
                               IF x = t THEN Outputs[t] ELSE ViewCoins(x).outs \ SpentOf(t, x)
<1>. DEFINE read == FetchView(S)
            cache == [x \in DOMAIN read |->
                        IF x \in Parents(t) THEN [read[x] EXCEPT !.dirty = TRUE] ELSE read[x]]
            spent == Spent(cache, t)
            rel == Released(spent, Parents(t))
<1>1. UpdateCoins(t, S) = ModifyNewCoins(rel, t)
  BY DEF UpdateCoins
<1>2. /\ DOMAIN read \subseteq Txids
      /\ \A x \in DOMAIN read : read[x] \in Entry(x) /\ TrueEntry(read[x], x, mode)
      /\ \A x \in Txids : OutsIn(read, x) = ViewCoins(x).outs
  BY FetchViewIs
<1>3. Parents(t) \subseteq DOMAIN read
  BY DEF HaveInputs, Parents
<1>4. DOMAIN spent = DOMAIN read
  BY DEF Spent
<1>5. \A x \in DOMAIN read \ Parents(t) : spent[x] = read[x]
  BY DEF Spent
<1>6. \A x \in Parents(t) : spent[x] = [[read[x] EXCEPT !.dirty = TRUE] EXCEPT !.outs = @ \ SpentOf(t, x)]
  BY <1>3 DEF Spent
<1>. HIDE DEF read, cache, spent
<1>7. ASSUME NEW x \in Parents(t)
      PROVE  /\ spent[x] \in Entry(x) /\ spent[x].dirty
             /\ spent[x].outs = ViewCoins(x).outs \ SpentOf(t, x)
             /\ spent[x].fresh = read[x].fresh
  <2>1. x \in DOMAIN read /\ x \in Txids /\ read[x] \in Entry(x)
    BY <1>2, <1>3
  <2>2. read[x].outs = ViewCoins(x).outs
    BY <1>2, <2>1 DEF OutsIn
  <2>. DEFINE d == [[read[x] EXCEPT !.dirty = TRUE] EXCEPT !.outs = @ \ SpentOf(t, x)]
  <2>4. d \in Entry(x) /\ d.dirty /\ d.outs = read[x].outs \ SpentOf(t, x) /\ d.fresh = read[x].fresh
    BY <2>1, SpentEntry, Zenon
  <2>5. spent[x] = d
    BY <1>6, Zenon
  <2>. HIDE DEF d
  <2>3. /\ spent[x] \in Entry(x) /\ spent[x].dirty
        /\ spent[x].outs = read[x].outs \ SpentOf(t, x)
        /\ spent[x].fresh = read[x].fresh
    BY <2>4, <2>5, Zenon
  <2>. QED  BY <2>2, <2>3, Zenon
<1>8. \A x \in Txids : OutsIn(spent, x) = ViewCoins(x).outs \ SpentOf(t, x)
  <2>. TAKE x \in Txids
  <2>1. CASE x \in Parents(t)
    BY <1>3, <1>4, <1>7, <2>1 DEF OutsIn
  <2>2. CASE x \notin Parents(t)
    <3>1. SpentOf(t, x) = {}
      BY <2>2, ParentsAre
    <3>2. OutsIn(spent, x) = OutsIn(read, x)
      BY <1>4, <1>5, <2>2 DEF OutsIn
    <3>. QED  BY <1>2, <3>1, <3>2
  <2>. QED  BY <2>1, <2>2
<1>9. ASSUME NEW x \in Parents(t), spent[x].fresh  PROVE TipCoins(x).outs = {} \/ mode = "reconnect"
  <2>1. read[x].fresh
    BY <1>7, <1>9, Zenon
  <2>. QED  BY <1>2, <1>3, <2>1 DEF TrueEntry
<1>10. ASSUME NEW x \in Parents(t) \cap DOMAIN spent, spent[x].fresh, spent[x].outs = {}
       PROVE  TipCoins(x).outs = {}
  <2>1. ViewCoins(x).outs \subseteq SpentOf(t, x)
    BY <1>7, <1>10
  <2>. QED  BY <1>9, <1>10, <2>1
<1>11. \A x : OutsIn(rel, x) = OutsIn(spent, x)
  <2>1. \A x \in Parents(t) \cap DOMAIN spent :
          spent[x].fresh /\ spent[x].outs = {} => TipCoins(x).outs = {}
    BY <1>10, Zenon
  <2>. QED  BY <2>1, ReleaseInvisible, Zenon
<1>12. /\ DOMAIN rel \subseteq DOMAIN spent
       /\ \A x \in DOMAIN rel : rel[x] = spent[x]
       /\ \A x \in DOMAIN rel \cap Parents(t) : ~spent[x].fresh \/ spent[x].outs # {}
       /\ \A x \in DOMAIN spent \ DOMAIN rel : x \in Parents(t) /\ spent[x].fresh /\ spent[x].outs = {}
  BY ReleasedIs, Zenon
<1>. HIDE DEF rel
<1>13. ASSUME NEW x \in DOMAIN rel  PROVE rel[x] \in Entry(x) /\ TrueEntry(rel[x], x, m)
  <2>1. CASE x \in Parents(t)
    <3>1. rel[x] = spent[x] /\ spent[x] \in Entry(x)
      BY <1>7, <1>12, <2>1
    <3>2. spent[x].dirty
      BY <1>7, <2>1
    <3>3. ~spent[x].fresh \/ spent[x].outs # {}
      BY <1>12, <2>1, Zenon
    <3>4. ~spent[x].fresh \/ TipCoins(x).outs = {} \/ m = "reconnect"
      BY <1>9, <2>1
    <3>. QED  BY <3>1, <3>2, <3>3, <3>4 DEF TrueEntry
  <2>2. CASE x \notin Parents(t)
    <3>1. x \in DOMAIN read /\ rel[x] = read[x]
      BY <1>4, <1>5, <1>12, <2>2
    <3>. QED  BY <1>2, <3>1 DEF TrueEntry
  <2>. QED  BY <2>1, <2>2
<1>14. CacheOK(rel, m)
  BY <1>2, <1>4, <1>12, <1>13 DEF CacheOK
<1>15. /\ CacheOK(ModifyNewCoins(rel, t), m)
       /\ \A x \in Txids : OutsIn(ModifyNewCoins(rel, t), x) = IF x = t THEN Outputs[t] ELSE OutsIn(rel, x)
  <2>1. ASSUME NEW c, CacheOK(c, m)
        PROVE  /\ CacheOK(ModifyNewCoins(c, t), m)
               /\ \A x \in Txids : OutsIn(ModifyNewCoins(c, t), x) = IF x = t THEN Outputs[t] ELSE OutsIn(c, x)
    BY <2>1, ModifyNewCoinsIs
  <2>. QED  BY <1>14, <2>1, Zenon
<1>. QED  BY <1>1, <1>8, <1>11, <1>15

\* ModifyCoins: the coins of S enter the cache, to be changed there.
LEMMA ModifyCoinsIs ==
  ASSUME TypeOK, LevelsFollowChains, ViewFlagsAreTrue, NEW S \in SUBSET Txids
  PROVE  LET c == ModifyCoins(S)
         IN /\ DOMAIN c = DOMAIN view \cup S
            /\ \A x \in DOMAIN c : /\ c[x] \in Entry(x) /\ TrueEntry(c[x], x, mode)
                                   /\ c[x].outs = ViewCoins(x).outs
                                   /\ x \in S => c[x].dirty
<1>. DEFINE c == ModifyCoins(S)
<1>1. DOMAIN c = DOMAIN view \cup S /\ DOMAIN c \subseteq Txids
  BY DEF ModifyCoins, TypeOK
<1>2. ASSUME NEW x \in DOMAIN c
      PROVE  /\ c[x] \in Entry(x) /\ TrueEntry(c[x], x, mode)
             /\ c[x].outs = ViewCoins(x).outs
             /\ x \in S => c[x].dirty
  <2>. DEFINE e == IF x \in DOMAIN view THEN view[x] ELSE Fetched(TipCoins(x))
  <2>1. c[x] = [e EXCEPT !.dirty = @ \/ x \in S]
    BY <1>1 DEF ModifyCoins
  <2>2. x \in Txids
    BY <1>1
  <2>3. e \in Entry(x) /\ TrueEntry(e, x, mode) /\ e.outs = ViewCoins(x).outs
    <3>1. CASE x \in DOMAIN view
      BY <3>1, CoinsAre DEF TypeOK, ViewFlagsAreTrue, TrueEntry
    <3>2. CASE x \notin DOMAIN view
      <4>1. e = Fetched(TipCoins(x))
        BY <3>2
      <4>. HIDE DEF e
      <4>2. e \in Entry(x)
        BY <2>2, <4>1, CoinsType, CoinStakeType, FetchedType
      <4>3. e.outs = TipCoins(x).outs
        BY <4>1, FetchedIs
      <4>4. e.fresh => TipCoins(x).outs = {}
        BY <4>1, FetchedIs, Zenon
      <4>. QED  BY <3>2, <4>2, <4>3, <4>4, CoinsAre DEF TrueEntry
    <3>. QED  BY <3>1, <3>2
  <2>. HIDE DEF c, e
  <2>. DEFINE d == [e EXCEPT !.dirty = @ \/ x \in S]
  <2>4. d \in Entry(x)
    BY <2>3 DEF Entry
  <2>5. d.outs = e.outs /\ d.fresh = e.fresh
    BY <2>3 DEF Entry
  <2>6. d.dirty <=> e.dirty \/ x \in S
    BY <2>3 DEF Entry
  <2>7. c[x] = d
    BY <2>1
  <2>. HIDE DEF d
  <2>8. TrueEntry(d, x, mode)
    <3>1. d.fresh => e.fresh
      BY <2>5, Zenon
    <3>2. ~d.dirty => ~e.dirty
      BY <2>6, Zenon
    <3>. QED  BY <2>3, <2>5, <3>1, <3>2 DEF TrueEntry
  <2>9. x \in S => d.dirty
    BY <2>6, Zenon
  <2>. QED  BY <2>3, <2>4, <2>5, <2>7, <2>8, <2>9, Zenon
<1>. QED  BY <1>1, <1>2

\* What DisconnectBlock leaves of the cache for one transaction, before
\* entries are released
Restored(u) ==
  LET cache == ModifyCoins(Parents(u.tx) \cup {u.tx})
  IN [x \in DOMAIN cache |->
        IF x = u.tx THEN [cache[x] EXCEPT !.outs = {}, !.fCoinStake = FALSE]
        ELSE IF x \in Parents(u.tx) THEN ApplyTxInUndo(cache[x], u, x)
        ELSE cache[x]]

\* The coins after a disconnection: the transaction is gone, and what it
\* spent is there again.
UndoneOuts(u, x) ==
  IF x = u.tx THEN {}
  ELSE IF x \in Parents(u.tx) /\ x \in u.last THEN SpentOf(u.tx, x)
  ELSE ViewCoins(x).outs \cup SpentOf(u.tx, x)

\* DisconnectBlock: the view reads as before the transaction, and its flags are true.
LEMMA RestoredIs ==
  ASSUME TypeOK, LevelsFollowChains, ViewFlagsAreTrue,
         mode \in {"disconnect", "verify"}, NEW u \in Undone
  PROVE  LET S == Parents(u.tx) \cup {u.tx}
         IN /\ CacheOK(Released(Restored(u), S), mode)
            /\ \A x \in Txids : OutsIn(Released(Restored(u), S), x) = UndoneOuts(u, x)
<1>. DEFINE t == u.tx
            S == Parents(t) \cup {t}
            cache == ModifyCoins(S)
            c == Restored(u)
<1>1. t \in Txids /\ S \in SUBSET Txids
  BY ParentsAre DEF Undone
<1>2. /\ DOMAIN cache = DOMAIN view \cup S
      /\ \A x \in DOMAIN cache : /\ cache[x] \in Entry(x) /\ TrueEntry(cache[x], x, mode)
                                 /\ cache[x].outs = ViewCoins(x).outs
                                 /\ x \in S => cache[x].dirty
  BY <1>1, ModifyCoinsIs
<1>3. DOMAIN c = DOMAIN cache /\ DOMAIN c \subseteq Txids
  BY <1>1, <1>2 DEF Restored, TypeOK
<1>4. \A x \in DOMAIN c : c[x] = IF x = t THEN [cache[x] EXCEPT !.outs = {}, !.fCoinStake = FALSE]
                                 ELSE IF x \in Parents(t) THEN ApplyTxInUndo(cache[x], u, x)
                                 ELSE cache[x]
  BY DEF Restored
<1>. HIDE DEF c, cache
<1>5. ASSUME NEW x \in DOMAIN c
      PROVE  /\ c[x] \in Entry(x)
             /\ c[x].outs = UndoneOuts(u, x)
             /\ c[x].fresh => cache[x].fresh
             /\ x \in S => c[x].dirty
             /\ x \notin S => c[x] = cache[x]
  <2>1. x \in Txids /\ cache[x] \in Entry(x) /\ cache[x].outs = ViewCoins(x).outs
    BY <1>2, <1>3
  <2>2. cache[x].outs \subseteq Outputs[x] /\ SpentOf(t, x) \subseteq Outputs[x]
    BY <1>1, <2>1, ParentsAre, CoinsType
  <2>3. CASE x = t
    <3>1. c[x] = [cache[x] EXCEPT !.outs = {}, !.fCoinStake = FALSE]
      BY <1>4, <2>3
    <3>2. {} \in SUBSET Outputs[x]
      OBVIOUS
    <3>3. c[x] \in Entry(x) /\ c[x].outs = {} /\ c[x].fresh = cache[x].fresh /\ c[x].dirty = cache[x].dirty
      BY <2>1, <3>1, <3>2 DEF Entry
    <3>4. cache[x].dirty /\ x \in S
      BY <1>2, <1>3, <2>3
    <3>5. UndoneOuts(u, x) = {}
      BY <2>3 DEF UndoneOuts
    <3>. QED  BY <3>3, <3>4, <3>5, Zenon
  <2>4. CASE x # t /\ x \in Parents(t)
    <3>1. c[x] = ApplyTxInUndo(cache[x], u, x)
      BY <1>4, <2>4
    <3>2. x \in S /\ cache[x].dirty
      BY <1>2, <1>3, <2>4
    <3>3. CASE x \in u.last
      <4>1. c[x] = [cache[x] EXCEPT !.outs = SpentOf(t, x), !.fCoinStake = FALSE]
        BY <3>1, <3>3 DEF ApplyTxInUndo
      <4>2. /\ c[x] \in Entry(x) /\ c[x].outs = SpentOf(t, x)
            /\ c[x].fresh = cache[x].fresh /\ c[x].dirty = cache[x].dirty
        BY <2>1, <2>2, <4>1 DEF Entry
      <4>3. UndoneOuts(u, x) = SpentOf(t, x)
        BY <2>4, <3>3 DEF UndoneOuts
      <4>. QED  BY <3>2, <4>2, <4>3, Zenon
    <3>4. CASE x \notin u.last
      <4>1. c[x] = [cache[x] EXCEPT !.outs = cache[x].outs \cup SpentOf(t, x)]
        BY <3>1, <3>4 DEF ApplyTxInUndo
      <4>2. cache[x].outs \cup SpentOf(t, x) \in SUBSET Outputs[x]
        BY <2>2
      <4>3. /\ c[x] \in Entry(x) /\ c[x].outs = cache[x].outs \cup SpentOf(t, x)
            /\ c[x].fresh = cache[x].fresh /\ c[x].dirty = cache[x].dirty
        BY <2>1, <4>1, <4>2 DEF Entry
      <4>4. UndoneOuts(u, x) = cache[x].outs \cup SpentOf(t, x)
        BY <2>1, <2>4, <3>4 DEF UndoneOuts
      <4>. QED  BY <3>2, <4>3, <4>4, Zenon
    <3>. QED  BY <3>3, <3>4
  <2>5. CASE x # t /\ x \notin Parents(t)
    <3>1. c[x] = cache[x] /\ x \notin S
      BY <1>4, <2>5
    <3>2. SpentOf(t, x) = {}
      BY <1>1, <2>5, ParentsAre
    <3>3. UndoneOuts(u, x) = ViewCoins(x).outs
      BY <2>5, <3>2 DEF UndoneOuts
    <3>. QED  BY <2>1, <3>1, <3>3, Zenon
  <2>. QED  BY <2>3, <2>4, <2>5
<1>6. ASSUME NEW x \in DOMAIN c, c[x].fresh  PROVE TipCoins(x).outs = {}
  <2>1. cache[x].fresh /\ TrueEntry(cache[x], x, mode)
    BY <1>2, <1>3, <1>5, <1>6, Zenon
  <2>. QED  BY <2>1 DEF TrueEntry
<1>7. CacheOK(c, mode)
  <2>1. ASSUME NEW x \in DOMAIN c  PROVE TrueEntry(c[x], x, mode)
    <3>1. CASE x \in S
      <4>1. c[x].dirty
        BY <1>5, <3>1, Zenon
      <4>. QED  BY <1>6, <4>1 DEF TrueEntry
    <3>2. CASE x \notin S
      BY <1>2, <1>3, <1>5, <3>2
    <3>. QED  BY <3>1, <3>2
  <2>. QED  BY <1>3, <1>5, <2>1 DEF CacheOK
<1>8. \A x \in Txids : OutsIn(c, x) = UndoneOuts(u, x)
  <2>. TAKE x \in Txids
  <2>1. CASE x \in DOMAIN c
    BY <1>5, <2>1 DEF OutsIn
  <2>2. CASE x \notin DOMAIN c
    <3>1. x \notin DOMAIN view /\ x # t /\ x \notin Parents(t)
      BY <1>2, <1>3, <2>2
    <3>2. SpentOf(t, x) = {}
      BY <1>1, <3>1, ParentsAre
    <3>3. UndoneOuts(u, x) = TipCoins(x).outs
      BY <3>1, <3>2, CoinsAre DEF UndoneOuts
    <3>. QED  BY <2>2, <3>3 DEF OutsIn
  <2>. QED  BY <2>1, <2>2
<1>9. CacheOK(Released(c, S), mode)
  BY <1>7, ReleaseKeeps
<1>10. \A x : OutsIn(Released(c, S), x) = OutsIn(c, x)
  <2>1. \A x \in S \cap DOMAIN c : c[x].fresh /\ c[x].outs = {} => TipCoins(x).outs = {}
    BY <1>6, Zenon
  <2>. QED  BY <2>1, ReleaseInvisible, Zenon
<1>. QED  BY <1>8, <1>9, <1>10 DEF c

\* BatchWrite from the view into the tip: the tip returns what the view did,
\* and its flags are true of the disk.
LEMMA BatchWriteTipIs ==
  ASSUME TypeOK, LevelsFollowChains, TipFlagsAreTrue, ViewFlagsAreTrue, mode # "reconnect"
  PROVE  LET c == BatchWriteTip
         IN /\ DOMAIN c \subseteq Txids
            /\ \A x \in DOMAIN c : /\ c[x] \in Entry(x)
                                   /\ c[x].fresh => db[x] = {}
                                   /\ ~c[x].dirty => c[x].outs = db[x]
            /\ \A x \in Txids : ViewCoins(x).outs = IF x \in DOMAIN c THEN c[x].outs ELSE db[x]
<1>. DEFINE written == {x \in DOMAIN view : view[x].dirty}
            gone == {x \in written : Forgotten(x, view[x])}
            c == BatchWriteTip
<1>1. DOMAIN c = (DOMAIN tip \cup written) \ gone
  BY DEF BatchWriteTip
<1>2. \A x \in DOMAIN c : c[x] = IF x \in written THEN MergedFlags(x, view[x]) ELSE tip[x]
  BY <1>1 DEF BatchWriteTip
<1>3. DOMAIN c \subseteq Txids /\ written \subseteq Txids
  BY <1>1 DEF TypeOK
<1>. HIDE DEF c
<1>4. ASSUME NEW x \in DOMAIN view, view[x].fresh  PROVE TipCoins(x).outs = {}
  BY <1>4 DEF ViewFlagsAreTrue
<1>5. ASSUME NEW x \in DOMAIN view, view[x].fresh, x \notin DOMAIN tip  PROVE db[x] = {}
  BY <1>4, <1>5, CoinsAre
<1>6. ASSUME NEW x \in written
      PROVE  LET e == MergedFlags(x, view[x])
             IN e \in Entry(x) /\ e.dirty /\ e.outs = view[x].outs /\ (e.fresh => db[x] = {})
  <2>. DEFINE f == IF x \in DOMAIN tip THEN tip[x].fresh ELSE view[x].fresh
              e == [view[x] EXCEPT !.dirty = TRUE, !.fresh = f]
  <2>1. MergedFlags(x, view[x]) = e
    BY DEF MergedFlags
  <2>2. view[x] \in Entry(x) /\ x \in DOMAIN view
    BY DEF TypeOK
  <2>3. f \in BOOLEAN
    BY <2>2 DEF TypeOK, Entry
  <2>4. f => db[x] = {}
    BY <1>5, <2>2 DEF TipFlagsAreTrue
  <2>. HIDE DEF f
  <2>5. e \in Entry(x) /\ e.outs = view[x].outs
    BY <2>2, <2>3 DEF Entry
  <2>6. e.dirty
    BY <2>2, <2>3 DEF Entry
  <2>7. e.fresh = f
    BY <2>2, <2>3 DEF Entry
  <2>8. e.fresh => db[x] = {}
    BY <2>4, <2>7, Zenon
  <2>. QED  BY <2>1, <2>5, <2>6, <2>8, Zenon
<1>7. ASSUME NEW x \in DOMAIN c
      PROVE  /\ c[x] \in Entry(x)
             /\ c[x].fresh => db[x] = {}
             /\ ~c[x].dirty => c[x].outs = db[x]
  <2>1. CASE x \in written
    BY <1>2, <1>6, <2>1, Zenon
  <2>2. CASE x \notin written
    <3>1. x \in DOMAIN tip /\ c[x] = tip[x]
      BY <1>1, <1>2, <2>2
    <3>. QED  BY <3>1 DEF TypeOK, TipFlagsAreTrue
  <2>. QED  BY <2>1, <2>2
<1>8. ASSUME NEW x \in Txids
      PROVE  ViewCoins(x).outs = IF x \in DOMAIN c THEN c[x].outs ELSE db[x]
  <2>1. CASE x \in gone
    <3>1. x \in DOMAIN view /\ x \notin DOMAIN c
      BY <1>1, <2>1
    <3>2. Forgotten(x, view[x])
      BY <2>1, Zenon
    <3>3. view[x].outs = {} /\ IF x \in DOMAIN tip THEN tip[x].fresh ELSE view[x].fresh
      BY <3>2, Zenon DEF Forgotten
    <3>4. db[x] = {}
      BY <1>5, <3>1, <3>3 DEF TipFlagsAreTrue
    <3>. QED  BY <3>1, <3>3, <3>4, CoinsAre
  <2>2. CASE x \in written \ gone
    <3>1. x \in DOMAIN view /\ x \in DOMAIN c /\ c[x] = MergedFlags(x, view[x])
      BY <1>1, <1>2, <2>2
    <3>2. c[x].outs = view[x].outs
      BY <1>6, <2>2, <3>1, Zenon
    <3>. QED  BY <3>1, <3>2, CoinsAre
  <2>3. CASE x \notin written
    <3>1. ViewCoins(x).outs = TipCoins(x).outs
      <4>1. CASE x \in DOMAIN view
        <5>1. ~view[x].dirty
          BY <2>3, <4>1, Zenon
        <5>. QED  BY <4>1, <5>1, CoinsAre DEF ViewFlagsAreTrue
      <4>2. CASE x \notin DOMAIN view
        BY <4>2, CoinsAre
      <4>. QED  BY <4>1, <4>2
    <3>2. x \in DOMAIN c <=> x \in DOMAIN tip
      BY <1>1, <2>3
    <3>3. x \in DOMAIN c => c[x] = tip[x]
      BY <1>2, <2>3
    <3>. QED  BY <3>1, <3>2, <3>3, CoinsAre
  <2>. QED  BY <2>1, <2>2, <2>3
<1>. QED  BY <1>3, <1>7, <1>8 DEF c

\* BatchWrite from the tip to the disk: it has what the tip returned.
LEMMA BatchWriteDBIs ==
  ASSUME TypeOK, LevelsFollowChains, TipFlagsAreTrue
  PROVE  /\ \A x \in Txids : BatchWriteDB[x] = TipCoins(x).outs
         /\ BatchWriteDB \in [Txids -> SUBSET Nat]
<1>1. ASSUME NEW x \in Txids  PROVE BatchWriteDB[x] = TipCoins(x).outs
  <2>1. CASE x \in DOMAIN tip /\ tip[x].dirty
    BY <2>1, CoinsAre DEF BatchWriteDB
  <2>2. CASE ~(x \in DOMAIN tip /\ tip[x].dirty)
    <3>1. BatchWriteDB[x] = db[x]
      BY <2>2 DEF BatchWriteDB
    <3>. QED  BY <2>2, <3>1, CoinsAre DEF TipFlagsAreTrue
  <2>. QED  BY <2>1, <2>2
<1>2. \A x \in Txids : TipCoins(x).outs \in SUBSET Nat
  <2>1. \A x \in Txids : Outputs[x] \subseteq Nat
    BY TxAssumption
  <2>. QED  BY <2>1, CoinsType
<1>3. BatchWriteDB = [x \in Txids |-> BatchWriteDB[x]]
  BY DEF BatchWriteDB
<1>. QED  BY <1>1, <1>2, <1>3

-----------------------------------------------------------------------------
(* The steps.                                                              *)

\* A step that only reads through the tip leaves what the tip returns.
LEMMA TipReads ==
  ASSUME CoinsInv, NEW S \in SUBSET Txids, tip' = FetchTip(S), db' = db
  PROVE  /\ DOMAIN tip' \subseteq Txids /\ \A x \in DOMAIN tip' : tip'[x] \in Entry(x)
         /\ TipFlagsAreTrue'
         /\ \A x \in Txids : TipCoins(x).outs' = TipCoins(x).outs
<1>. DEFINE c == FetchTip(S)
<1>1. /\ DOMAIN c \subseteq Txids
      /\ \A x \in DOMAIN c : /\ c[x] \in Entry(x)
                             /\ c[x].outs = TipCoins(x).outs
                             /\ c[x].fresh => db[x] = {}
                             /\ ~c[x].dirty => c[x].outs = db[x]
      /\ \A x \in Txids \ DOMAIN c : TipCoins(x).outs = db[x]
  BY FetchTipIs DEF CoinsInv
<1>. HIDE DEF c
<1>2. tip' = c
  BY DEF c
<1>3. TipFlagsAreTrue'
  BY <1>1, <1>2 DEF TipFlagsAreTrue
<1>4. ASSUME NEW x \in Txids  PROVE TipCoins(x).outs' = TipCoins(x).outs
  <2>1. CASE x \in DOMAIN c
    <3>1. TipCoins(x).outs' = c[x].outs
      BY <1>2, <2>1 DEF TipCoins, Coins
    <3>. QED  BY <1>1, <2>1, <3>1
  <2>2. CASE x \notin DOMAIN c
    <3>1. TipCoins(x).outs' = db[x]
      BY <1>2, <2>2 DEF TipCoins, Stored
    <3>. QED  BY <1>1, <2>2, <3>1
  <2>. QED  BY <2>1, <2>2
<1>. QED  BY <1>1, <1>2, <1>3, <1>4

\* A step that leaves what the tip returns and puts a cache over it
LEMMA CacheOver ==
  ASSUME NEW c, NEW m, CacheOK(c, m), view' = c, mode' = m,
         \A x \in Txids : TipCoins(x).outs' = TipCoins(x).outs
  PROVE  /\ DOMAIN view' \subseteq Txids /\ \A x \in DOMAIN view' : view'[x] \in Entry(x)
         /\ ViewFlagsAreTrue'
         /\ \A x \in Txids : ViewCoins(x).outs' = OutsIn(c, x)
<1>1. DOMAIN view' \subseteq Txids /\ \A x \in DOMAIN view' : view'[x] \in Entry(x)
  BY DEF CacheOK
<1>2. ViewFlagsAreTrue'
  BY DEF CacheOK, TrueEntry, ViewFlagsAreTrue
<1>3. ASSUME NEW x \in Txids  PROVE ViewCoins(x).outs' = OutsIn(c, x)
  <2>1. CASE x \in DOMAIN c
    BY <2>1 DEF ViewCoins, Coins, OutsIn
  <2>2. CASE x \notin DOMAIN c
    <3>1. ViewCoins(x).outs' = TipCoins(x).outs'
      BY <2>2 DEF ViewCoins
    <3>. QED  BY <2>2, <3>1 DEF OutsIn
  <2>. QED  BY <2>1, <2>2
<1>. QED  BY <1>1, <1>2, <1>3

\* A transaction that ConnectBlock takes fits, with the undo data it writes;
\* when VerifyDB connects it again, both are those of the tip.
LEMMA ConnectFits ==
  ASSUME CoinsInv, NEW t \in Txids, NEW b \in BOOLEAN, ConnectTx(t, b)
  PROVE  /\ Undo(t) \in Undone /\ Undo(t).tx = t /\ Fits(viewChain, Undo(t))
         /\ mode # "connect" => Begins(Append(viewChain, Undo(t)), tipChain)
<1>. DEFINE S == Parents(t) \cup (IF b THEN {t} ELSE {})
            u == Undo(t)
<1>1. S \in SUBSET Txids /\ HaveInputs(FetchView(S), t)
  BY ParentsAre DEF ConnectTx
<1>2. /\ DOMAIN FetchView(S) \subseteq Txids
      /\ \A x \in Txids : OutsIn(FetchView(S), x) = ViewCoins(x).outs
  BY <1>1, FetchViewIs DEF CoinsInv
<1>3. \A x \in Txids : ViewCoins(x).outs = OutsOf(viewChain, x)
  BY DEF CoinsInv, LevelsFollowChains
<1>4. ASSUME NEW p \in Txids  PROVE SpentOf(t, p) \subseteq OutsOf(viewChain, p)
  <2>. SUFFICES ASSUME NEW n \in SpentOf(t, p)  PROVE n \in OutsOf(viewChain, p)
    OBVIOUS
  <2>1. PICK i \in Inputs[t] : i[1] = p /\ i[2] = n
    BY DEF SpentOf
  <2>2. p \in DOMAIN FetchView(S) /\ n \in FetchView(S)[p].outs
    BY <1>1, <2>1 DEF HaveInputs
  <2>. QED  BY <1>2, <1>3, <2>2 DEF OutsIn
<1>5. u.tx = t /\ u.last = {p \in Parents(t) : OutsOf(viewChain, p) = SpentOf(t, p)}
  BY <1>3, ParentsAre DEF Undo
<1>6. u \in Undone
  BY <1>5, ParentsAre DEF Undo, Undone
<1>7. t \notin TxSet(viewChain)
  BY DEF ConnectTx, TxSet
<1>8. Fits(viewChain, u)
  BY <1>4, <1>5, <1>7 DEF Fits
<1>9. ASSUME mode # "connect"  PROVE Begins(Append(viewChain, u), tipChain)
  <2>1. /\ mode \in {"verify", "reconnect"}
        /\ Len(viewChain) < Len(tipChain)
        /\ t = tipChain[Len(viewChain) + 1].tx
    BY <1>9 DEF ConnectTx
  <2>2. Begins(viewChain, tipChain)
    BY <2>1 DEF CoinsInv, ViewFitsMode
  <2>. DEFINE v == tipChain[Len(viewChain) + 1]
  <2>3. v \in Undone /\ Fits(viewChain, v) /\ Begins(Append(viewChain, v), tipChain)
    BY <2>1, <2>2, BeginsNext DEF CoinsInv, TypeOK, ChainsOK
  <2>4. v.tx = t /\ v.last = u.last
    BY <1>5, <2>1, <2>3 DEF Fits
  <2>. HIDE DEF v, u
  <2>5. v = u
    BY <1>5, <1>6, <2>3, <2>4 DEF Undone
  <2>. QED  BY <2>3, <2>5
<1>. QED  BY <1>5, <1>6, <1>8, <1>9

\* Connecting a transaction gives the view the coins of the longer chain.
LEMMA ConnectCoins ==
  ASSUME CoinsInv, NEW t \in Txids, NEW b \in BOOLEAN, ConnectTx(t, b)
  PROVE  /\ CacheOK(view', mode')
         /\ \A x \in Txids : OutsIn(view', x) = OutsOf(viewChain', x)
<1>. DEFINE S == Parents(t) \cup (IF b THEN {t} ELSE {})
            u == Undo(t)
            m == IF mode = "connect" THEN mode ELSE "reconnect"
<1>1. u \in Undone /\ u.tx = t /\ Fits(viewChain, u)
  BY ConnectFits
<1>2. viewChain' = Append(viewChain, u) /\ view' = UpdateCoins(t, S) /\ mode' = m
  BY DEF ConnectTx
<1>3. S \in SUBSET Txids /\ Parents(t) \subseteq S /\ HaveInputs(FetchView(S), t)
  BY ParentsAre DEF ConnectTx
<1>4. /\ TypeOK /\ LevelsFollowChains /\ TipFlagsAreTrue /\ ViewFlagsAreTrue
      /\ viewChain \in Seq(Undone) /\ tipChain \in Seq(Undone) /\ ChainOK(viewChain)
  BY DEF CoinsInv, TypeOK, ChainsOK
<1>. HIDE DEF u
<1>5. \A x \in Txids : OutsOf(Append(viewChain, u), x) = IF x = t THEN Outputs[x]
                                                          ELSE OutsOf(viewChain, x) \ SpentOf(t, x)
  BY <1>1, <1>4, OutsOfAppend
<1>6. \A x \in Txids : ViewCoins(x).outs = OutsOf(viewChain, x) /\ TipCoins(x).outs = OutsOf(tipChain, x)
  BY <1>4 DEF LevelsFollowChains
<1>7. m = "reconnect" \/ TipCoins(t).outs = {}
  <2>1. CASE mode = "connect"
    <3>1. t \notin TxSet(tipChain)
      BY <1>1, <2>1 DEF CoinsInv, ViewFitsMode, Fits
    <3>. QED  BY <1>6, <3>1 DEF OutsOf
  <2>2. CASE mode # "connect"
    BY <2>2
  <2>. QED  BY <2>1, <2>2
<1>8. ASSUME m = "reconnect", NEW p \in Parents(t), ViewCoins(p).outs \subseteq SpentOf(t, p)
      PROVE  TipCoins(p).outs = {}
  <2>1. mode # "connect"
    BY <1>8
  <2>2. Begins(Append(viewChain, u), tipChain)
    BY <2>1, ConnectFits DEF u
  <2>3. p \in Txids /\ p # t /\ SpentOf(t, p) # {}
    BY <1>8, ParentsAre
  <2>4. OutsOf(Append(viewChain, u), p) = {}
    BY <1>5, <1>6, <1>8, <2>3
  <2>5. p \in TxSet(viewChain)
    BY <1>1, <2>3 DEF Fits, OutsOf
  <2>6. p \in TxSet(Append(viewChain, u)) /\ Append(viewChain, u) \in Seq(Undone)
    BY <1>1, <1>4, <2>5, TxSetOfAppend, AppendIs
  <2>7. OutsOf(tipChain, p) \subseteq {}
    BY <1>4, <2>2, <2>4, <2>6, OutsOfBegins
  <2>. QED  BY <1>6, <2>3, <2>7
<1>9. /\ CacheOK(UpdateCoins(t, S), m)
      /\ \A x \in Txids : OutsIn(UpdateCoins(t, S), x) =
                            IF x = t THEN Outputs[t] ELSE ViewCoins(x).outs \ SpentOf(t, x)
  <2>. HIDE DEF S
  <2>1. m = IF mode = "connect" THEN mode ELSE "reconnect"
    OBVIOUS
  <2>. HIDE DEF m
  <2>. QED  BY <1>3, <1>4, <1>7, <1>8, <2>1, UpdateCoinsIs
<1>. QED  BY <1>2, <1>5, <1>6, <1>9

\* ConnectBlock of a transaction keeps the invariant.
LEMMA ConnectStep ==
  ASSUME CoinsInv, NEW t \in Txids, NEW b \in BOOLEAN, ConnectTx(t, b)
  PROVE  CoinsInv'
<1>. DEFINE S == Parents(t) \cup (IF b THEN {t} ELSE {})
            u == Undo(t)
            m == IF mode = "connect" THEN mode ELSE "reconnect"
<1>1. /\ u \in Undone /\ u.tx = t /\ Fits(viewChain, u)
      /\ mode # "connect" => Begins(Append(viewChain, u), tipChain)
  BY ConnectFits
<1>2. /\ viewChain' = Append(viewChain, u)
      /\ tip' = FetchTip(S \ DOMAIN view) /\ mode' = m
      /\ db' = db /\ dbChain' = dbChain /\ tipChain' = tipChain /\ fClean' = fClean
  BY DEF ConnectTx
<1>3. S \ DOMAIN view \in SUBSET Txids
  BY ParentsAre
<1>. HIDE DEF u
<1>4. /\ DOMAIN tip' \subseteq Txids /\ \A x \in DOMAIN tip' : tip'[x] \in Entry(x)
      /\ TipFlagsAreTrue'
      /\ \A x \in Txids : TipCoins(x).outs' = TipCoins(x).outs
  BY <1>2, <1>3, TipReads
<1>5. CacheOK(view', mode') /\ \A x \in Txids : OutsIn(view', x) = OutsOf(viewChain', x)
  BY ConnectCoins
<1>6. /\ DOMAIN view' \subseteq Txids /\ \A x \in DOMAIN view' : view'[x] \in Entry(x)
      /\ ViewFlagsAreTrue'
      /\ \A x \in Txids : ViewCoins(x).outs' = OutsIn(view', x)
  BY <1>4, <1>5, CacheOver
<1>7. viewChain' \in Seq(Undone)
  BY <1>1, <1>2, AppendIs DEF CoinsInv, TypeOK
<1>8. mode \in {"connect", "verify", "reconnect"} /\ mode' \in Modes
  BY <1>2 DEF ConnectTx, Modes
<1>9. TypeOK'
  BY <1>2, <1>4, <1>6, <1>7, <1>8 DEF CoinsInv, TypeOK
<1>10. ChainsOK'
  <2>1. ChainOK(Append(viewChain, u))
    BY <1>1, ChainOKAppend DEF CoinsInv, TypeOK, ChainsOK
  <2>. QED  BY <1>2, <2>1 DEF CoinsInv, ChainsOK
<1>11. LevelsFollowChains'
  BY <1>2, <1>4, <1>5, <1>6 DEF CoinsInv, LevelsFollowChains
<1>12. ViewFitsMode'
  <2>1. CASE mode = "connect"
    <3>1. TxSet(tipChain) \subseteq TxSet(viewChain) /\ mode' = "connect"
      BY <1>2, <2>1 DEF CoinsInv, ViewFitsMode
    <3>2. TxSet(viewChain') = TxSet(viewChain) \cup {u.tx}
      BY <1>1, <1>2, TxSetOfAppend DEF CoinsInv, TypeOK
    <3>. QED  BY <1>2, <3>1, <3>2 DEF ViewFitsMode
  <2>2. CASE mode # "connect"
    <3>1. mode' = "reconnect"
      BY <1>2, <2>2
    <3>. QED  BY <1>1, <1>2, <2>2, <3>1 DEF ViewFitsMode
  <2>. QED  BY <2>1, <2>2
<1>. QED  BY <1>2, <1>4, <1>6, <1>9, <1>10, <1>11, <1>12 DEF CoinsInv

\* DisconnectBlock of a transaction keeps the invariant; its undo data fits.
LEMMA DisconnectStep ==
  ASSUME CoinsInv, DisconnectTx
  PROVE  CoinsInv'
<1>. DEFINE u == viewChain[Len(viewChain)]
            S == Parents(u.tx) \cup {u.tx}
            b == Front(viewChain, Len(viewChain) - 1)
<1>1. /\ mode \in {"disconnect", "verify"} /\ viewChain # <<>>
      /\ viewChain' = b /\ mode' = mode
      /\ view' = Released(Restored(u), S)
      /\ tip' = FetchTip(S \ DOMAIN view)
      /\ fClean' = (fClean /\ CleanDisconnect(u))
      /\ db' = db /\ dbChain' = dbChain /\ tipChain' = tipChain
  BY DEF DisconnectTx, Restored, Front
<1>2. /\ TypeOK /\ LevelsFollowChains /\ ViewFlagsAreTrue
      /\ viewChain \in Seq(Undone) /\ tipChain \in Seq(Undone) /\ ChainOK(viewChain)
      /\ Begins(viewChain, tipChain) /\ fClean
  BY <1>1 DEF CoinsInv, TypeOK, ChainsOK, ViewFitsMode
<1>3. /\ u \in Undone /\ b \in Seq(Undone) /\ ChainOK(b) /\ Fits(b, u)
      /\ OutsOf(viewChain, u.tx) = Outputs[u.tx] /\ OutsOf(b, u.tx) = {}
      /\ \A p \in Txids \ {u.tx} : /\ OutsOf(viewChain, p) = OutsOf(b, p) \ SpentOf(u.tx, p)
                                   /\ OutsOf(b, p) = OutsOf(viewChain, p) \cup SpentOf(u.tx, p)
  BY <1>1, <1>2, OutsOfFront
<1>4. Begins(b, tipChain)
  BY <1>1, <1>2, BeginsFront
<1>. HIDE DEF u, b
<1>5. u.tx \in Txids /\ S \ DOMAIN view \in SUBSET Txids /\ Parents(u.tx) \subseteq Txids \ {u.tx}
  BY <1>3, ParentsAre DEF Undone
<1>6. \A x \in Txids : ViewCoins(x).outs = OutsOf(viewChain, x)
  BY <1>2 DEF LevelsFollowChains
<1>7. ASSUME NEW p \in Parents(u.tx)
      PROVE  /\ p \in u.last <=> ViewCoins(p).outs = {}
             /\ p \in u.last <=> OutsOf(b, p) = SpentOf(u.tx, p)
             /\ ViewCoins(p).outs \cap SpentOf(u.tx, p) = {}
  <2>1. p \in Txids \ {u.tx}
    BY <1>5
  <2>2. p \in u.last <=> OutsOf(b, p) = SpentOf(u.tx, p)
    BY <1>3 DEF Fits
  <2>3. SpentOf(u.tx, p) \subseteq OutsOf(b, p)
    BY <1>3, <2>1 DEF Fits
  <2>4. ViewCoins(p).outs = OutsOf(b, p) \ SpentOf(u.tx, p)
    BY <1>3, <1>6, <2>1
  <2>. QED  BY <2>2, <2>3, <2>4
<1>8. CleanDisconnect(u)
  BY <1>3, <1>5, <1>6, <1>7 DEF CleanDisconnect
<1>9. \A x \in Txids : UndoneOuts(u, x) = OutsOf(b, x)
  <2>. TAKE x \in Txids
  <2>1. CASE x = u.tx
    BY <1>3, <2>1 DEF UndoneOuts
  <2>2. CASE x # u.tx /\ x \in Parents(u.tx) /\ x \in u.last
    BY <1>7, <2>2 DEF UndoneOuts
  <2>3. CASE x # u.tx /\ ~(x \in Parents(u.tx) /\ x \in u.last)
    BY <1>3, <1>6, <2>3 DEF UndoneOuts
  <2>. QED  BY <2>1, <2>2, <2>3
<1>10. CacheOK(view', mode') /\ \A x \in Txids : OutsIn(view', x) = OutsOf(b, x)
  <2>1. /\ CacheOK(Released(Restored(u), S), mode)
        /\ \A x \in Txids : OutsIn(Released(Restored(u), S), x) = UndoneOuts(u, x)
    BY <1>1, <1>2, <1>3, RestoredIs
  <2>. QED  BY <1>1, <1>9, <2>1
<1>11. /\ DOMAIN tip' \subseteq Txids /\ \A x \in DOMAIN tip' : tip'[x] \in Entry(x)
       /\ TipFlagsAreTrue'
       /\ \A x \in Txids : TipCoins(x).outs' = TipCoins(x).outs
  BY <1>1, <1>5, TipReads
<1>12. /\ DOMAIN view' \subseteq Txids /\ \A x \in DOMAIN view' : view'[x] \in Entry(x)
       /\ ViewFlagsAreTrue'
       /\ \A x \in Txids : ViewCoins(x).outs' = OutsIn(view', x)
  BY <1>10, <1>11, CacheOver
<1>13. fClean' = TRUE
  BY <1>1, <1>2, <1>8
<1>14. TypeOK'
  BY <1>1, <1>2, <1>3, <1>11, <1>12, <1>13 DEF TypeOK
<1>15. ChainsOK'
  BY <1>1, <1>3 DEF CoinsInv, ChainsOK
<1>16. LevelsFollowChains'
  BY <1>1, <1>2, <1>10, <1>11, <1>12 DEF LevelsFollowChains
<1>17. ViewFitsMode'
  BY <1>1, <1>4 DEF ViewFitsMode
<1>. QED  BY <1>11, <1>12, <1>13, <1>14, <1>15, <1>16, <1>17 DEF CoinsInv

\* A step to an idle node with an empty view over the tip
LEMMA IdleStep ==
  ASSUME view' = NoEntries, viewChain' = tipChain', mode' = "idle",
         db' \in [Txids -> SUBSET Nat],
         DOMAIN tip' \subseteq Txids, \A x \in DOMAIN tip' : tip'[x] \in Entry(x),
         dbChain' \in Seq(Undone), tipChain' \in Seq(Undone), fClean' = TRUE,
         ChainOK(dbChain'), ChainOK(tipChain'),
         \A x \in Txids : db'[x] = OutsOf(dbChain', x) /\ TipCoins(x).outs' = OutsOf(tipChain', x),
         TipFlagsAreTrue'
  PROVE  CoinsInv'
<1>1. DOMAIN view' = {}
  BY DEF NoEntries
<1>2. TypeOK'
  BY <1>1 DEF TypeOK, Modes
<1>3. ChainsOK' /\ ViewFitsMode'
  BY DEF ChainsOK, ViewFitsMode, NoEntries
<1>4. ViewFlagsAreTrue'
  BY <1>1 DEF ViewFlagsAreTrue
<1>5. \A x \in Txids : ViewCoins(x)' = TipCoins(x)'
  BY <1>1 DEF ViewCoins
<1>6. LevelsFollowChains'
  BY <1>5 DEF LevelsFollowChains
<1>. QED  BY <1>2, <1>3, <1>4, <1>6 DEF CoinsInv

\* Opening a view keeps the invariant.
LEMMA OpenStep ==
  ASSUME CoinsInv, NEW m \in {"connect", "disconnect", "verify"}, OpenView(m)
  PROVE  CoinsInv'
<1>1. /\ mode = "idle" /\ mode' = m /\ view' = NoEntries /\ viewChain' = tipChain
      /\ db' = db /\ tip' = tip /\ dbChain' = dbChain /\ tipChain' = tipChain /\ fClean' = fClean
  BY DEF OpenView
<1>2. DOMAIN view' = {}
  BY <1>1 DEF NoEntries
<1>3. TypeOK'
  BY <1>1, <1>2 DEF CoinsInv, TypeOK, Modes
<1>4. ChainsOK'
  BY <1>1 DEF CoinsInv, ChainsOK
<1>5. TipFlagsAreTrue' /\ ViewFlagsAreTrue'
  BY <1>1, <1>2 DEF CoinsInv, TipFlagsAreTrue, ViewFlagsAreTrue
<1>6. LevelsFollowChains'
  <2>1. \A x \in Txids : TipCoins(x)' = TipCoins(x) /\ ViewCoins(x)' = TipCoins(x)
    BY <1>1, <1>2 DEF TipCoins, Stored, ViewCoins
  <2>. QED  BY <1>1, <2>1 DEF CoinsInv, LevelsFollowChains
<1>7. ViewFitsMode'
  <2>1. Begins(tipChain, tipChain)
    <3>1. Len(tipChain) \in Nat /\ Front(tipChain, Len(tipChain)) = tipChain
      BY FrontAll, LenProperties DEF CoinsInv, TypeOK
    <3>. QED  BY <3>1 DEF Begins
  <2>. QED  BY <1>1, <2>1 DEF ViewFitsMode
<1>. QED  BY <1>1, <1>3, <1>4, <1>5, <1>6, <1>7 DEF CoinsInv

\* Flushing the view into the tip keeps the invariant.
LEMMA FlushViewStep ==
  ASSUME CoinsInv, FlushView
  PROVE  CoinsInv'
<1>. DEFINE c == BatchWriteTip
<1>1. /\ mode \in {"connect", "disconnect"} /\ tip' = c /\ tipChain' = viewChain
      /\ view' = NoEntries /\ mode' = "idle"
      /\ db' = db /\ dbChain' = dbChain /\ viewChain' = viewChain /\ fClean' = fClean
  BY DEF FlushView
<1>2. /\ TypeOK /\ LevelsFollowChains /\ TipFlagsAreTrue /\ ViewFlagsAreTrue /\ fClean
      /\ ChainOK(dbChain) /\ ChainOK(viewChain)
      /\ db \in [Txids -> SUBSET Nat] /\ dbChain \in Seq(Undone) /\ viewChain \in Seq(Undone)
  BY DEF CoinsInv, TypeOK, ChainsOK
<1>3. /\ DOMAIN c \subseteq Txids
      /\ \A x \in DOMAIN c : /\ c[x] \in Entry(x)
                             /\ c[x].fresh => db[x] = {}
                             /\ ~c[x].dirty => c[x].outs = db[x]
      /\ \A x \in Txids : ViewCoins(x).outs = IF x \in DOMAIN c THEN c[x].outs ELSE db[x]
  BY <1>1, <1>2, BatchWriteTipIs
<1>. HIDE DEF c
<1>4. TipFlagsAreTrue'
  BY <1>1, <1>3 DEF TipFlagsAreTrue
<1>5. ASSUME NEW x \in Txids
      PROVE  db'[x] = OutsOf(dbChain', x) /\ TipCoins(x).outs' = OutsOf(tipChain', x)
  <2>1. TipCoins(x).outs' = IF x \in DOMAIN c THEN c[x].outs ELSE db[x]
    BY <1>1 DEF TipCoins, Coins, Stored
  <2>2. TipCoins(x).outs' = ViewCoins(x).outs
    BY <1>3, <2>1
  <2>. QED  BY <1>1, <1>2, <2>2 DEF LevelsFollowChains
<1>6. DOMAIN tip' \subseteq Txids /\ \A x \in DOMAIN tip' : tip'[x] \in Entry(x)
  BY <1>1, <1>3
<1>. QED  BY <1>1, <1>2, <1>4, <1>5, <1>6, IdleStep

\* Dropping the view keeps the invariant.
LEMMA DropStep ==
  ASSUME CoinsInv, DropView
  PROVE  CoinsInv'
<1>1. /\ view' = NoEntries /\ mode' = "idle" /\ viewChain' = tipChain
      /\ db' = db /\ tip' = tip /\ dbChain' = dbChain /\ tipChain' = tipChain /\ fClean' = fClean
  BY DEF DropView
<1>2. \A x \in Txids : TipCoins(x)' = TipCoins(x)
  BY <1>1 DEF TipCoins, Stored
<1>3. \A x \in Txids : db'[x] = OutsOf(dbChain', x) /\ TipCoins(x).outs' = OutsOf(tipChain', x)
  BY <1>1, <1>2 DEF CoinsInv, LevelsFollowChains
<1>4. TipFlagsAreTrue'
  BY <1>1 DEF CoinsInv, TipFlagsAreTrue
<1>5. /\ db' \in [Txids -> SUBSET Nat] /\ DOMAIN tip' \subseteq Txids
      /\ \A x \in DOMAIN tip' : tip'[x] \in Entry(x)
      /\ dbChain' \in Seq(Undone) /\ tipChain' \in Seq(Undone)
      /\ ChainOK(dbChain') /\ ChainOK(tipChain') /\ fClean' = TRUE
  BY <1>1 DEF CoinsInv, TypeOK, ChainsOK
<1>. QED  BY <1>1, <1>3, <1>4, <1>5, IdleStep

\* Flushing the tip to disk keeps the invariant.
LEMMA FlushTipStep ==
  ASSUME CoinsInv, FlushTip
  PROVE  CoinsInv'
<1>1. /\ mode = "idle" /\ db' = BatchWriteDB /\ dbChain' = tipChain /\ tip' = NoEntries
      /\ view' = view /\ tipChain' = tipChain /\ viewChain' = viewChain /\ mode' = mode
      /\ fClean' = fClean
  BY DEF FlushTip
<1>2. view = NoEntries /\ viewChain = tipChain
  BY <1>1 DEF CoinsInv, ViewFitsMode
<1>3. /\ \A x \in Txids : BatchWriteDB[x] = TipCoins(x).outs
      /\ BatchWriteDB \in [Txids -> SUBSET Nat]
  BY BatchWriteDBIs DEF CoinsInv
<1>4. DOMAIN tip' = {}
  BY <1>1 DEF NoEntries
<1>5. \A x \in Txids : TipCoins(x).outs' = db'[x]
  BY <1>4 DEF TipCoins, Stored
<1>6. \A x \in Txids : db'[x] = OutsOf(dbChain', x) /\ TipCoins(x).outs' = OutsOf(tipChain', x)
  BY <1>1, <1>3, <1>5 DEF CoinsInv, LevelsFollowChains
<1>7. TipFlagsAreTrue'
  BY <1>4 DEF TipFlagsAreTrue
<1>8. /\ tipChain \in Seq(Undone) /\ ChainOK(tipChain) /\ fClean
  BY DEF CoinsInv, TypeOK, ChainsOK
<1>9. DOMAIN tip' \subseteq Txids /\ \A x \in DOMAIN tip' : tip'[x] \in Entry(x)
  BY <1>4
<1>. QED  BY <1>1, <1>2, <1>3, <1>6, <1>7, <1>8, <1>9, IdleStep

\* Reading the tip keeps the invariant.
LEMMA ReadStep ==
  ASSUME CoinsInv, NEW t \in Txids, ReadTip(t)
  PROVE  CoinsInv'
<1>1. /\ mode = "idle" /\ tip' = FetchTip({t})
      /\ db' = db /\ view' = view /\ dbChain' = dbChain /\ tipChain' = tipChain
      /\ viewChain' = viewChain /\ mode' = mode /\ fClean' = fClean
  BY DEF ReadTip
<1>2. view = NoEntries /\ viewChain = tipChain
  BY <1>1 DEF CoinsInv, ViewFitsMode
<1>3. /\ DOMAIN tip' \subseteq Txids /\ \A x \in DOMAIN tip' : tip'[x] \in Entry(x)
      /\ TipFlagsAreTrue'
      /\ \A x \in Txids : TipCoins(x).outs' = TipCoins(x).outs
  BY <1>1, TipReads
<1>4. \A x \in Txids : db'[x] = OutsOf(dbChain', x) /\ TipCoins(x).outs' = OutsOf(tipChain', x)
  BY <1>1, <1>3 DEF CoinsInv, LevelsFollowChains
<1>5. /\ db' \in [Txids -> SUBSET Nat] /\ dbChain' \in Seq(Undone) /\ tipChain' \in Seq(Undone)
      /\ ChainOK(dbChain') /\ ChainOK(tipChain') /\ fClean' = TRUE
  BY <1>1 DEF CoinsInv, TypeOK, ChainsOK
<1>. QED  BY <1>1, <1>2, <1>3, <1>4, <1>5, IdleStep

\* An entry that is neither dirty nor fresh may leave the tip.
LEMMA UncacheStep ==
  ASSUME CoinsInv, NEW t \in Txids, Uncache(t)
  PROVE  CoinsInv'
<1>1. /\ mode = "idle" /\ t \in DOMAIN tip /\ ~tip[t].dirty /\ tip' = Erase(tip, {t})
      /\ db' = db /\ view' = view /\ dbChain' = dbChain /\ tipChain' = tipChain
      /\ viewChain' = viewChain /\ mode' = mode /\ fClean' = fClean
  BY DEF Uncache
<1>2. view = NoEntries /\ viewChain = tipChain
  BY <1>1 DEF CoinsInv, ViewFitsMode
<1>3. DOMAIN tip' = DOMAIN tip \ {t} /\ \A x \in DOMAIN tip' : tip'[x] = tip[x]
  BY <1>1 DEF Erase
<1>4. TipFlagsAreTrue'
  BY <1>1, <1>3 DEF CoinsInv, TipFlagsAreTrue
<1>5. DOMAIN tip' \subseteq Txids /\ \A x \in DOMAIN tip' : tip'[x] \in Entry(x)
  BY <1>3 DEF CoinsInv, TypeOK
<1>6. ASSUME NEW x \in Txids  PROVE TipCoins(x).outs' = TipCoins(x).outs
  <2>1. CASE x \in DOMAIN tip'
    <3>1. TipCoins(x).outs' = tip'[x].outs
      BY <2>1 DEF TipCoins, Coins
    <3>. QED  BY <1>3, <2>1, <3>1, CoinsAre
  <2>2. CASE x \notin DOMAIN tip'
    <3>1. TipCoins(x).outs' = db[x]
      BY <1>1, <2>2 DEF TipCoins, Stored
    <3>2. CASE x = t
      <4>1. tip[x].outs = db[x]
        BY <1>1, <3>2 DEF CoinsInv, TipFlagsAreTrue
      <4>. QED  BY <1>1, <3>1, <3>2, <4>1, CoinsAre
    <3>3. CASE x # t
      BY <1>3, <2>2, <3>1, <3>3, CoinsAre
    <3>. QED  BY <3>2, <3>3
  <2>. QED  BY <2>1, <2>2
<1>7. \A x \in Txids : db'[x] = OutsOf(dbChain', x) /\ TipCoins(x).outs' = OutsOf(tipChain', x)
  BY <1>1, <1>6 DEF CoinsInv, LevelsFollowChains
<1>8. /\ db' \in [Txids -> SUBSET Nat] /\ dbChain' \in Seq(Undone) /\ tipChain' \in Seq(Undone)
      /\ ChainOK(dbChain') /\ ChainOK(tipChain') /\ fClean' = TRUE
  BY <1>1 DEF CoinsInv, TypeOK, ChainsOK
<1>. QED  BY <1>1, <1>2, <1>4, <1>5, <1>7, <1>8, IdleStep

\* A restart from what is on disk keeps the invariant.
LEMMA RestartStep ==
  ASSUME CoinsInv, Restart
  PROVE  CoinsInv'
<1>1. /\ tip' = NoEntries /\ view' = NoEntries /\ tipChain' = dbChain /\ viewChain' = dbChain
      /\ mode' = "idle" /\ db' = db /\ dbChain' = dbChain /\ fClean' = fClean
  BY DEF Restart
<1>2. DOMAIN tip' = {}
  BY <1>1 DEF NoEntries
<1>3. \A x \in Txids : TipCoins(x).outs' = db[x]
  BY <1>1, <1>2 DEF TipCoins, Stored
<1>4. \A x \in Txids : db'[x] = OutsOf(dbChain', x) /\ TipCoins(x).outs' = OutsOf(tipChain', x)
  BY <1>1, <1>3 DEF CoinsInv, LevelsFollowChains
<1>5. TipFlagsAreTrue' /\ DOMAIN tip' \subseteq Txids /\ \A x \in DOMAIN tip' : tip'[x] \in Entry(x)
  BY <1>2 DEF TipFlagsAreTrue
<1>6. /\ db' \in [Txids -> SUBSET Nat] /\ dbChain \in Seq(Undone) /\ ChainOK(dbChain)
      /\ fClean' = TRUE
  BY <1>1 DEF CoinsInv, TypeOK, ChainsOK
<1>. QED  BY <1>1, <1>4, <1>5, <1>6, IdleStep

\* The invariant holds of an empty chain state.
LEMMA CoinsInit ==
  ASSUME Init
  PROVE  CoinsInv
<1>1. DOMAIN tip = {} /\ DOMAIN view = {}
  BY DEF Init, NoEntries
<1>2. <<>> \in Seq(Undone) /\ DOMAIN <<>> = {}
  BY EmptySeq
<1>3. TypeOK
  BY <1>1, <1>2 DEF Init, TypeOK, Modes
<1>4. ChainsOK
  BY <1>2 DEF Init, ChainsOK, ChainOK
<1>5. LevelsFollowChains
  BY <1>1, OutsOfNone DEF Init, LevelsFollowChains, TipCoins, ViewCoins, Stored
<1>6. ViewFitsMode
  BY DEF Init, ViewFitsMode
<1>7. TipFlagsAreTrue /\ ViewFlagsAreTrue
  BY <1>1 DEF TipFlagsAreTrue, ViewFlagsAreTrue
<1>. QED  BY <1>3, <1>4, <1>5, <1>6, <1>7 DEF Init, CoinsInv

\* Every step keeps the invariant.
LEMMA CoinsNext ==
  ASSUME CoinsInv, [Next]_vars
  PROVE  CoinsInv'
<1>1. CASE UNCHANGED vars
  BY <1>1 DEF vars, CoinsInv, TypeOK, ChainsOK, LevelsFollowChains, ViewFitsMode, TipFlagsAreTrue,
              ViewFlagsAreTrue, TipCoins, ViewCoins, Stored
<1>2. ASSUME NEW m \in {"connect", "disconnect", "verify"}, OpenView(m)  PROVE CoinsInv'
  BY <1>2, OpenStep
<1>3. ASSUME NEW t \in Txids, NEW b \in BOOLEAN, ConnectTx(t, b)  PROVE CoinsInv'
  BY <1>3, ConnectStep
<1>4. CASE DisconnectTx
  BY <1>4, DisconnectStep
<1>5. CASE FlushView
  BY <1>5, FlushViewStep
<1>6. CASE DropView
  BY <1>6, DropStep
<1>7. CASE FlushTip
  BY <1>7, FlushTipStep
<1>8. ASSUME NEW t \in Txids, ReadTip(t) \/ Uncache(t)  PROVE CoinsInv'
  BY <1>8, ReadStep, UncacheStep
<1>9. CASE Restart
  BY <1>9, RestartStep
<1>. QED  BY <1>1, <1>2, <1>3, <1>4, <1>5, <1>6, <1>7, <1>8, <1>9 DEF Next

\* Every reachable state satisfies the invariant.
LEMMA CoinsInvariant == Spec => []CoinsInv
<1>1. CoinsInv /\ [Next]_vars => CoinsInv'
  BY CoinsNext
<1>2. Init => CoinsInv
  BY CoinsInit
<1>. QED  BY <1>1, <1>2, PTL DEF Spec

(* The flags of pcoinsTip and of the view of a block are true of the level *)
(* below, and DisconnectBlock never meets coins its undo data does not     *)
(* fit, for every set of transactions (CStateViewCache, ConnectBlock,      *)
(* DisconnectBlock, ApplyTxInUndo).                                        *)
THEOREM CoinsCorrect == Spec => []CoinsAreRight
<1>1. CoinsInv => CoinsAreRight
  BY DEF CoinsInv, CoinsAreRight, DisconnectIsClean
<1>. QED  BY <1>1, CoinsInvariant, PTL

-----------------------------------------------------------------------------
(* The refinement of UtxoSet.                                              *)

\* The outpoints that exist, and those a chain leaves unspent
AllOuts == UNION {Outputs[t] : t \in Txids}
ChainUtxo(c) == {i \in Txids \X AllOuts : i[2] \in OutsOf(c, i[1])}

\* A level of UtxoSet, for a chain
Level(c) == [utxo |-> ChainUtxo(c), chain |-> TxsOf(c)]

\* The levels of the refinement mapping are those of the chains.
LevelsMapped ==
  /\ [utxo |-> UtxoOf(Stored), chain |-> TxsOf(dbChain)] = Level(dbChain)
  /\ [utxo |-> UtxoOf(TipCoins), chain |-> TxsOf(tipChain)] = Level(tipChain)
  /\ [utxo |-> UtxoOf(ViewCoins), chain |-> TxsOf(viewChain)] = Level(viewChain)

\* What a level reads as unspent is what its chain leaves unspent.
LEMMA LevelsAre ==
  ASSUME CoinsInv
  PROVE  LevelsMapped
<1>1. \A t \in Txids : /\ Stored(t).outs = OutsOf(dbChain, t)
                       /\ TipCoins(t).outs = OutsOf(tipChain, t)
                       /\ ViewCoins(t).outs = OutsOf(viewChain, t)
  BY DEF CoinsInv, LevelsFollowChains, Stored
<1>2. UtxoOf(Stored) = ChainUtxo(dbChain)
  BY <1>1 DEF UtxoOf, ChainUtxo, AllOuts
<1>3. UtxoOf(TipCoins) = ChainUtxo(tipChain)
  BY <1>1 DEF UtxoOf, ChainUtxo, AllOuts
<1>4. UtxoOf(ViewCoins) = ChainUtxo(viewChain)
  BY <1>1 DEF UtxoOf, ChainUtxo, AllOuts
<1>. QED  BY <1>2, <1>3, <1>4 DEF Level, LevelsMapped

\* The transactions of a chain, in order
LEMMA TxsOfIs ==
  ASSUME NEW c \in Seq(Undone)
  PROVE  /\ TxsOf(c) \in Seq(Txids)
         /\ Len(TxsOf(c)) = Len(c)
         /\ DOMAIN TxsOf(c) = 1..Len(c)
         /\ \A i \in 1..Len(c) : TxsOf(c)[i] = c[i].tx
<1>1. DOMAIN c = 1..Len(c) /\ Len(c) \in Nat
  BY LenProperties
<1>2. \A i \in 1..Len(c) : c[i].tx \in Txids
  BY <1>1, MemberOfChain
<1>3. TxsOf(c) = [i \in 1..Len(c) |-> c[i].tx]
  BY <1>1 DEF TxsOf
<1>4. TxsOf(c) \in [1..Len(c) -> Txids]
  BY <1>2, <1>3
<1>5. TxsOf(c) \in Seq(Txids)
  BY <1>1, <1>2, <1>3, IsASeq
<1>6. DOMAIN TxsOf(c) = 1..Len(c)
  BY <1>3
<1>7. Len(TxsOf(c)) = Len(c)
  BY <1>1, <1>5, <1>6, LenProperties
<1>. QED  BY <1>3, <1>5, <1>6, <1>7

\* The transactions of a chain that got longer.
LEMMA TxsOfAppend ==
  ASSUME NEW c \in Seq(Undone), NEW u \in Undone
  PROVE  TxsOf(Append(c, u)) = Append(TxsOf(c), u.tx)
<1>. DEFINE d == Append(c, u)
            a == TxsOf(d)
            b == Append(TxsOf(c), u.tx)
<1>1. u.tx \in Txids
  BY DEF Undone
<1>2. Len(c) \in Nat
  BY LenProperties
<1>3. /\ d \in Seq(Undone) /\ Len(d) = Len(c) + 1
      /\ \A i \in 1..Len(c) : d[i] = c[i]
      /\ d[Len(c) + 1] = u
  BY AppendIs
<1>. HIDE DEF d
<1>4. /\ a \in Seq(Txids) /\ Len(a) = Len(c) + 1
      /\ \A i \in 1..(Len(c) + 1) : a[i] = d[i].tx
  BY <1>3, TxsOfIs
<1>5. /\ TxsOf(c) \in Seq(Txids) /\ Len(TxsOf(c)) = Len(c)
      /\ \A i \in 1..Len(c) : TxsOf(c)[i] = c[i].tx
  BY TxsOfIs
<1>6. /\ b \in Seq(Txids) /\ Len(b) = Len(c) + 1
      /\ \A i \in 1..Len(c) : b[i] = TxsOf(c)[i]
      /\ b[Len(c) + 1] = u.tx
  BY <1>1, <1>5, AppendProperties
<1>. HIDE DEF a, b
<1>7. ASSUME NEW i \in 1..(Len(c) + 1)  PROVE a[i] = b[i]
  <2>1. CASE i = Len(c) + 1
    BY <1>3, <1>4, <1>6, <2>1
  <2>2. CASE i # Len(c) + 1
    <3>1. i \in 1..Len(c)
      BY <1>2, <2>2
    <3>. QED  BY <1>3, <1>4, <1>5, <1>6, <3>1
  <2>. QED  BY <2>1, <2>2
<1>8. a = b
  BY <1>4, <1>6, <1>7, SeqEqual
<1>. QED  BY <1>8 DEF a, b, d

\* The transactions of the beginning of a chain.
LEMMA TxsOfFront ==
  ASSUME NEW c \in Seq(Undone), NEW n \in 0..Len(c)
  PROVE  TxsOf(Front(c, n)) = SubSeq(TxsOf(c), 1, n)
<1>. DEFINE d == Front(c, n)
            a == TxsOf(d)
            b == SubSeq(TxsOf(c), 1, n)
<1>1. Len(c) \in Nat
  BY LenProperties
<1>2. d \in Seq(Undone) /\ Len(d) = n /\ \A i \in 1..n : d[i] = c[i]
  BY FrontIs
<1>. HIDE DEF d
<1>3. a \in Seq(Txids) /\ Len(a) = n /\ \A i \in 1..n : a[i] = d[i].tx
  BY <1>2, TxsOfIs
<1>4. /\ TxsOf(c) \in Seq(Txids) /\ Len(TxsOf(c)) = Len(c)
      /\ \A i \in 1..Len(c) : TxsOf(c)[i] = c[i].tx
  BY TxsOfIs
<1>5. b \in Seq(Txids) /\ Len(b) = n /\ \A i \in 1..n : b[i] = TxsOf(c)[i]
  BY <1>1, <1>4, SubSeqProperties
<1>6. \A i \in 1..n : i \in 1..Len(c)
  BY <1>1
<1>. HIDE DEF a, b
<1>7. \A i \in 1..n : a[i] = b[i]
  BY <1>2, <1>3, <1>4, <1>5, <1>6
<1>8. a = b
  BY <1>3, <1>5, <1>7, SeqEqual
<1>. QED  BY <1>8 DEF a, b, d

\* An outpoint is unspent when its position is among the coins of its hash.
LEMMA InUtxo ==
  ASSUME NEW c, NEW x \in Txids, NEW n
  PROVE  <<x, n>> \in ChainUtxo(c) <=> n \in OutsOf(c, x)
BY OutsOfType DEF ChainUtxo, AllOuts

\* Every transaction spends outpoints that exist and makes others.
LEMMA OutpointsAre ==
  ASSUME NEW t \in Txids
  PROVE  /\ Inputs[t] \subseteq Txids \X AllOuts
         /\ Utxo!Outpoints(t) \subseteq Txids \X AllOuts
         /\ \A x \in Txids, n \in AllOuts :
              <<x, n>> \in Utxo!Outpoints(t) <=> x = t /\ n \in Outputs[t]
<1>1. \A i \in Inputs[t] : i \in Txids \X Nat /\ i[2] \in Outputs[i[1]]
  BY TxAssumption
<1>2. \A x \in Txids : Outputs[x] \subseteq AllOuts
  BY DEF AllOuts
<1>3. Inputs[t] \subseteq Txids \X AllOuts
  BY <1>1, <1>2
<1>. QED  BY <1>2, <1>3 DEF Utxo!Outpoints

\* Connecting and disconnecting a transaction, on sets of outpoints.
LEMMA UtxoOfAppend ==
  ASSUME NEW c \in Seq(Undone), ChainOK(c), NEW u \in Undone, Fits(c, u)
  PROVE  /\ Inputs[u.tx] \subseteq ChainUtxo(c)
         /\ ChainUtxo(Append(c, u)) = (ChainUtxo(c) \ Inputs[u.tx]) \cup Utxo!Outpoints(u.tx)
         /\ ChainUtxo(c) = (ChainUtxo(Append(c, u)) \ Utxo!Outpoints(u.tx)) \cup Inputs[u.tx]
<1>. DEFINE d == Append(c, u)
            t == u.tx
<1>1. t \in Txids /\ t \notin TxSet(c) /\ \A x \in Txids : SpentOf(t, x) \subseteq OutsOf(c, x)
  BY DEF Undone, Fits
<1>2. OutsOf(c, t) = {} /\ SpentOf(t, t) = {}
  BY <1>1 DEF OutsOf
<1>3. \A x \in Txids : OutsOf(d, x) = IF x = t THEN Outputs[x] ELSE OutsOf(c, x) \ SpentOf(t, x)
  BY OutsOfAppend
<1>. HIDE DEF d, t
<1>4. /\ Inputs[t] \subseteq Txids \X AllOuts /\ Utxo!Outpoints(t) \subseteq Txids \X AllOuts
      /\ ChainUtxo(c) \subseteq Txids \X AllOuts /\ ChainUtxo(d) \subseteq Txids \X AllOuts
  BY <1>1, OutpointsAre DEF ChainUtxo
<1>5. ASSUME NEW x \in Txids, NEW n \in AllOuts
      PROVE  /\ <<x, n>> \in Inputs[t] => <<x, n>> \in ChainUtxo(c)
             /\ <<x, n>> \in ChainUtxo(d) <=> \/ <<x, n>> \in ChainUtxo(c) /\ <<x, n>> \notin Inputs[t]
                                              \/ <<x, n>> \in Utxo!Outpoints(t)
             /\ <<x, n>> \in ChainUtxo(c) <=> \/ <<x, n>> \in ChainUtxo(d) /\ <<x, n>> \notin Utxo!Outpoints(t)
                                              \/ <<x, n>> \in Inputs[t]
  <2>1. <<x, n>> \in Inputs[t] <=> n \in SpentOf(t, x)
    BY <1>1, SpentOfIs
  <2>2. <<x, n>> \in Utxo!Outpoints(t) <=> x = t /\ n \in Outputs[t]
    BY <1>1, OutpointsAre
  <2>3. /\ <<x, n>> \in ChainUtxo(c) <=> n \in OutsOf(c, x)
        /\ <<x, n>> \in ChainUtxo(d) <=> n \in OutsOf(d, x)
    BY InUtxo
  <2>4. CASE x = t
    BY <1>2, <1>3, <2>1, <2>2, <2>3, <2>4
  <2>5. CASE x # t
    BY <1>1, <1>3, <2>1, <2>2, <2>3, <2>5
  <2>. QED  BY <2>4, <2>5
<1>6. \A i \in Txids \X AllOuts : \E x \in Txids, n \in AllOuts : i = <<x, n>>
  OBVIOUS
<1>7. Inputs[t] \subseteq ChainUtxo(c)
  BY <1>4, <1>5, <1>6
<1>8. ChainUtxo(d) = (ChainUtxo(c) \ Inputs[t]) \cup Utxo!Outpoints(t)
  BY <1>4, <1>5, <1>6
<1>9. ChainUtxo(c) = (ChainUtxo(d) \ Utxo!Outpoints(t)) \cup Inputs[t]
  BY <1>4, <1>5, <1>6
<1>. QED  BY <1>7, <1>8, <1>9 DEF d, t

\* After a step, the levels of the refinement mapping are those of the chains, too.
LEMMA LevelsNext == CoinsInv' => LevelsMapped'
<1>1. CoinsInv => LevelsMapped
  BY LevelsAre
<1>. QED  BY <1>1, PTL

\* OpenView is Open.
LEMMA OpenMaps ==
  ASSUME CoinsInv, CoinsInv', NEW m \in {"connect", "disconnect", "verify"}, OpenView(m)
  PROVE  Utxo!Open(m)
BY LevelsAre, LevelsNext DEF OpenView, Utxo!Open, LevelsMapped

\* ConnectTx is Connect.
LEMMA ConnectMaps ==
  ASSUME CoinsInv, CoinsInv', NEW t \in Txids, NEW b \in BOOLEAN, ConnectTx(t, b)
  PROVE  Utxo!Connect(t)
<1>. DEFINE u == Undo(t)
            n == Len(viewChain)
<1>1. /\ viewChain \in Seq(Undone) /\ tipChain \in Seq(Undone) /\ ChainOK(viewChain)
      /\ u \in Undone /\ u.tx = t /\ Fits(viewChain, u)
  BY ConnectFits DEF CoinsInv, TypeOK, ChainsOK
<1>2. /\ viewChain' = Append(viewChain, u) /\ tipChain' = tipChain /\ dbChain' = dbChain
      /\ mode' = IF mode = "connect" THEN mode ELSE "reconnect"
      /\ \A i \in DOMAIN viewChain : viewChain[i].tx # t
  BY DEF ConnectTx
<1>3. \/ mode = "connect" /\ n < MaxChain
      \/ mode \in {"verify", "reconnect"} /\ n < Len(tipChain) /\ t = tipChain[n + 1].tx
  BY DEF ConnectTx
<1>. HIDE DEF u
<1>4. /\ Len(TxsOf(viewChain)) = n /\ n \in Nat /\ DOMAIN TxsOf(viewChain) = DOMAIN viewChain
      /\ \A i \in DOMAIN viewChain : TxsOf(viewChain)[i] = viewChain[i].tx
  BY <1>1, TxsOfIs, LenProperties
<1>5. /\ Len(TxsOf(tipChain)) = Len(tipChain) /\ Len(tipChain) \in Nat
      /\ \A i \in 1..Len(tipChain) : TxsOf(tipChain)[i] = tipChain[i].tx
  BY <1>1, TxsOfIs, LenProperties
<1>6. \/ mode = "connect" /\ Len(TxsOf(viewChain)) < MaxChain
      \/ /\ mode \in {"verify", "reconnect"}
         /\ Len(TxsOf(viewChain)) < Len(TxsOf(tipChain))
         /\ t = TxsOf(tipChain)[Len(TxsOf(viewChain)) + 1]
  <2>1. CASE mode = "connect" /\ n < MaxChain
    BY <1>4, <2>1
  <2>2. CASE mode \in {"verify", "reconnect"} /\ n < Len(tipChain) /\ t = tipChain[n + 1].tx
    <3>1. n + 1 \in 1..Len(tipChain)
      BY <1>4, <1>5, <2>2
    <3>. QED  BY <1>4, <1>5, <2>2, <3>1
  <2>. QED  BY <1>3, <2>1, <2>2
<1>7. /\ Inputs[t] \subseteq ChainUtxo(viewChain)
      /\ ChainUtxo(viewChain') = (ChainUtxo(viewChain) \ Inputs[t]) \cup Utxo!Outpoints(t)
      /\ TxsOf(viewChain') = Append(TxsOf(viewChain), t)
  BY <1>1, <1>2, UtxoOfAppend, TxsOfAppend
<1>8. \A i \in DOMAIN TxsOf(viewChain) : TxsOf(viewChain)[i] # t
  BY <1>2, <1>4
<1>9. LevelsMapped /\ LevelsMapped'
  BY LevelsAre, LevelsNext
<1>. HIDE DEF n
<1>. QED  BY <1>2, <1>6, <1>7, <1>8, <1>9 DEF Utxo!Connect, LevelsMapped, Level

\* DisconnectTx is Disconnect.
LEMMA DisconnectMaps ==
  ASSUME CoinsInv, CoinsInv', DisconnectTx
  PROVE  Utxo!Disconnect
<1>. DEFINE n == Len(viewChain)
            u == viewChain[n]
            c == Front(viewChain, n - 1)
<1>1. /\ mode \in {"disconnect", "verify"} /\ viewChain # <<>> /\ viewChain' = c
      /\ dbChain' = dbChain /\ tipChain' = tipChain /\ mode' = mode
  BY DEF DisconnectTx, Front
<1>2. viewChain \in Seq(Undone) /\ ChainOK(viewChain)
  BY DEF CoinsInv, TypeOK, ChainsOK
<1>3. n \in Nat \ {0} /\ viewChain = Append(c, u)
  BY <1>1, <1>2, FrontAndLast
<1>4. u \in Undone /\ c \in Seq(Undone) /\ ChainOK(c) /\ Fits(c, u)
  BY <1>1, <1>2, OutsOfFront
<1>5. /\ TxsOf(viewChain) \in Seq(Txids) /\ Len(TxsOf(viewChain)) = n
      /\ TxsOf(viewChain)[n] = u.tx
  BY <1>2, <1>3, TxsOfIs
<1>6. TxsOf(c) = SubSeq(TxsOf(viewChain), 1, n - 1)
  BY <1>2, <1>3, TxsOfFront
<1>7. ChainUtxo(c) = (ChainUtxo(viewChain) \ Utxo!Outpoints(u.tx)) \cup Inputs[u.tx]
  <2>. HIDE DEF c, u
  <2>. QED  BY <1>3, <1>4, UtxoOfAppend
<1>8. TxsOf(viewChain) # <<>>
  BY <1>3, <1>5, EmptySeq
<1>9. LevelsMapped /\ LevelsMapped'
  BY LevelsAre, LevelsNext
<1>. HIDE DEF n, u, c
<1>. QED  BY <1>1, <1>5, <1>6, <1>7, <1>8, <1>9 DEF Utxo!Disconnect, LevelsMapped, Level

\* FlushView is Commit.
LEMMA CommitMaps ==
  ASSUME CoinsInv, CoinsInv', FlushView
  PROVE  Utxo!Commit
BY LevelsAre, LevelsNext DEF FlushView, Utxo!Commit, LevelsMapped

\* DropView is Drop.
LEMMA DropMaps ==
  ASSUME CoinsInv, CoinsInv', DropView
  PROVE  Utxo!Drop
BY LevelsAre, LevelsNext DEF DropView, Utxo!Drop, LevelsMapped

\* FlushTip is Sync.
LEMMA SyncMaps ==
  ASSUME CoinsInv, CoinsInv', FlushTip
  PROVE  Utxo!Sync
BY LevelsAre, LevelsNext DEF FlushTip, Utxo!Sync, LevelsMapped

\* Restart is Crash.
LEMMA CrashMaps ==
  ASSUME CoinsInv, CoinsInv', Restart
  PROVE  Utxo!Crash
BY LevelsAre, LevelsNext DEF Restart, Utxo!Crash, LevelsMapped

\* Reading the tip, leaving its cache and doing nothing change no level.
LEMMA StutterMaps ==
  ASSUME CoinsInv, CoinsInv', dbChain' = dbChain, tipChain' = tipChain, viewChain' = viewChain,
         mode' = mode
  PROVE  UNCHANGED Utxo!uvars
BY LevelsAre, LevelsNext DEF Utxo!uvars, LevelsMapped

\* Every step is a step of UtxoSet or changes nothing there.
LEMMA UtxoNext ==
  ASSUME CoinsInv, CoinsInv', [Next]_vars
  PROVE  [Utxo!Next]_(Utxo!uvars)
<1>1. CASE UNCHANGED vars
  BY <1>1, StutterMaps DEF vars
<1>2. ASSUME NEW m \in {"connect", "disconnect", "verify"}, OpenView(m)  PROVE Utxo!Next
  BY <1>2, OpenMaps DEF Utxo!Next
<1>3. ASSUME NEW t \in Txids, NEW b \in BOOLEAN, ConnectTx(t, b)  PROVE Utxo!Next
  BY <1>3, ConnectMaps DEF Utxo!Next
<1>4. CASE DisconnectTx
  BY <1>4, DisconnectMaps DEF Utxo!Next
<1>5. CASE FlushView
  BY <1>5, CommitMaps DEF Utxo!Next
<1>6. CASE DropView
  BY <1>6, DropMaps DEF Utxo!Next
<1>7. CASE FlushTip
  BY <1>7, SyncMaps DEF Utxo!Next
<1>8. ASSUME NEW t \in Txids, ReadTip(t) \/ Uncache(t)  PROVE UNCHANGED Utxo!uvars
  BY <1>8, StutterMaps DEF ReadTip, Uncache
<1>9. CASE Restart
  BY <1>9, CrashMaps DEF Utxo!Next
<1>. QED  BY <1>1, <1>2, <1>3, <1>4, <1>5, <1>6, <1>7, <1>8, <1>9 DEF Next

\* A node without blocks is the initial state of UtxoSet.
LEMMA UtxoInit ==
  ASSUME Init
  PROVE  Utxo!Init
<1>1. LevelsMapped
  BY CoinsInit, LevelsAre
<1>2. ChainUtxo(<<>>) = {}
  BY OutsOfNone DEF ChainUtxo
<1>3. TxsOf(<<>>) = <<>>
  BY EmptySeq DEF TxsOf
<1>. QED  BY <1>1, <1>2, <1>3 DEF Init, Utxo!Init, Utxo!Genesis, LevelsMapped, Level

(* The caches of coins implement the plain sets of unspent outputs of      *)
(* UtxoSet, for every set of transactions: what CStateViewCache fetches,   *)
(* flags, forgets and flushes is invisible, a block is committed to the    *)
(* tip as a whole or not at all, and a restart finds the unspent outputs   *)
(* of the chain that was flushed last.                                     *)
THEOREM UtxoCorrect == Spec => UtxoSpec
<1>1. Init => Utxo!Init
  BY UtxoInit
<1>2. CoinsInv /\ CoinsInv' /\ [Next]_vars => [Utxo!Next]_(Utxo!uvars)
  BY UtxoNext
<1>. QED  BY <1>1, <1>2, CoinsInvariant, PTL DEF Spec, UtxoSpec, Utxo!Spec
=============================================================================
