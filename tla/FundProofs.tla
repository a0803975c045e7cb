----------------------------- MODULE FundProofs -----------------------------
(***************************************************************************)
(* The books of the community fund balance: the proofs that in every       *)
(* reachable state of CommunityFund, at every block of the chain, the two  *)
(* balances are what the states of the proposals and requests say they     *)
(* are; the requests of a proposal ask for no more than it was granted,    *)
(* neither balance is negative, and every request that is voted on can be  *)
(* honoured.                                                               *)
(***************************************************************************)
EXTENDS CommunityFundProofs

-----------------------------------------------------------------------------
\* What the flags of a block say: f is the flag of each object.

Com(f) == {p \in Proposals : ~IsSuper(p) /\ f[p] \in Locking}
Dra(f) == {r \in Requests : f[r] \in Drawing /\ ~IsSuper(Parent[r])}
DrawnOf(f, p) == {r \in Dra(f) : Parent[r] = p}
DrawnOfCom(f) == {r \in Dra(f) : Parent[r] \in Com(f)}

Books(f, supply, locked, given) ==
  /\ locked = Total(Com(f), Amount) - Total(DrawnOfCom(f), Amount)
  /\ supply + locked + Total(Dra(f), Amount) = given

\* The sets that the books sum over are finite, so their totals are numbers.
LEMMA BooksTypes ==
  ASSUME NEW f
  PROVE  /\ IsFiniteSet(Com(f)) /\ Total(Com(f), Amount) \in Nat
         /\ IsFiniteSet(Dra(f)) /\ Total(Dra(f), Amount) \in Nat
         /\ IsFiniteSet(DrawnOfCom(f)) /\ Total(DrawnOfCom(f), Amount) \in Nat
         /\ \A p : IsFiniteSet(DrawnOf(f, p)) /\ Total(DrawnOf(f, p), Amount) \in Nat
<1>1. IsFiniteSet(Com(f))
  BY FS_Subset, ObjectsAssumption DEF Com
<1>2. IsFiniteSet(Dra(f)) /\ IsFiniteSet(DrawnOfCom(f))
  BY RequestsFinite DEF Dra, DrawnOfCom
<1>3. \A p : IsFiniteSet(DrawnOf(f, p))
  BY RequestsFinite DEF Dra, DrawnOf
<1>. QED  BY <1>1, <1>2, <1>3, TotalType

\* A change of flags that neither locks nor draws money leaves the books alone.
LEMMA BooksSame ==
  ASSUME NEW f, NEW g, NEW s, NEW l, NEW v, Books(f, s, l, v),
         \A p \in Proposals : ~IsSuper(p) => (g[p] \in Locking <=> f[p] \in Locking),
         \A r \in Requests : ~IsSuper(Parent[r]) => (g[r] \in Drawing <=> f[r] \in Drawing)
  PROVE  Books(g, s, l, v)
<1>1. Com(g) = Com(f)
  BY DEF Com
<1>2. Dra(g) = Dra(f)
  BY DEF Dra
<1>. QED  BY <1>1, <1>2 DEF Books, DrawnOfCom

\* VoteStep accepts a request: its amount leaves nCFLocked.
LEMMA BooksDraw ==
  ASSUME NEW f, DOMAIN f = Objects, NEW s \in Int, NEW l \in Int, NEW v \in Int,
         Books(f, s, l, v),
         NEW r \in Requests, f[r] \notin Drawing, Parent[r] \in Com(f)
  PROVE  Books([f EXCEPT ![r] = ACCEPTED], s, l - Amount[r], v)
<1>. DEFINE g == [f EXCEPT ![r] = ACCEPTED]
<1>1. r \in Objects /\ r \notin Proposals /\ ~IsSuper(Parent[r])
  BY RequestObjects DEF Com
<1>2. g[r] = ACCEPTED /\ \A x \in Objects : x # r => g[x] = f[x]
  BY <1>1
<1>. HIDE DEF g
<1>3. Com(g) = Com(f)
  BY <1>1, <1>2 DEF Com, Objects
<1>4. Dra(g) = Dra(f) \cup {r} /\ r \notin Dra(f)
  BY <1>1, <1>2 DEF Dra, Objects, Drawing
<1>5. DrawnOfCom(g) = DrawnOfCom(f) \cup {r} /\ r \notin DrawnOfCom(f)
  BY <1>3, <1>4 DEF DrawnOfCom
<1>6. Amount[r] \in 0..MaxAmount /\ Amount[r] \in Nat
  BY <1>1, AmountType
<1>7. Total(Dra(g), Amount) = Total(Dra(f), Amount) + Amount[r]
  BY <1>4, <1>6, BooksTypes, TotalAdd
<1>8. Total(DrawnOfCom(g), Amount) = Total(DrawnOfCom(f), Amount) + Amount[r]
  BY <1>5, <1>6, BooksTypes, TotalAdd
<1>9. Books(g, s, l - Amount[r], v)
  BY <1>3, <1>6, <1>7, <1>8, BooksTypes DEF Books
<1>. QED  BY <1>9 DEF g

\* What the requests of p and of the other committed proposals drew.
LEMMA DrawnSplit ==
  ASSUME NEW f, NEW g, NEW p \in Proposals, p \notin Com(f),
         Com(g) = Com(f) \cup {p}, Dra(g) = Dra(f)
  PROVE  Total(DrawnOfCom(g), Amount) =
           Total(DrawnOfCom(f), Amount) + Total(DrawnOf(f, p), Amount)
<1>1. DrawnOfCom(g) = DrawnOfCom(f) \cup DrawnOf(f, p)
  BY DEF DrawnOfCom, DrawnOf
<1>2. DrawnOfCom(f) \cap DrawnOf(f, p) = {}
  BY DEF DrawnOfCom, DrawnOf
<1>. QED  BY <1>1, <1>2, BooksTypes, TotalUnion

\* VoteStep accepts a proposal: what it may draw moves from nCFSupply to
\* nCFLocked.
LEMMA BooksLock ==
  ASSUME NEW f, DOMAIN f = Objects, NEW s \in Int, NEW l \in Int, NEW v \in Int,
         Books(f, s, l, v),
         NEW p \in Proposals, f[p] \notin Locking, ~IsSuper(p),
         NEW a, a = Amount[p] - Total(DrawnOf(f, p), Amount)
  PROVE  Books([f EXCEPT ![p] = ACCEPTED], s - a, l + a, v)
<1>. DEFINE g == [f EXCEPT ![p] = ACCEPTED]
<1>1. p \in Objects /\ p \notin Requests
  BY ProposalObjects, ObjectsAssumption
<1>2. g[p] = ACCEPTED /\ \A x \in Objects : x # p => g[x] = f[x]
  BY <1>1
<1>. HIDE DEF g
<1>3. Com(g) = Com(f) \cup {p} /\ p \notin Com(f)
  BY <1>1, <1>2 DEF Com, Objects, Locking
<1>4. Dra(g) = Dra(f)
  BY <1>1, <1>2 DEF Dra, Objects
<1>5. Amount[p] \in 0..MaxAmount /\ Amount[p] \in Nat
  BY <1>1, AmountType
<1>6. Total(Com(g), Amount) = Total(Com(f), Amount) + Amount[p]
  BY <1>3, <1>5, BooksTypes, TotalAdd
<1>7. Total(DrawnOfCom(g), Amount) = Total(DrawnOfCom(f), Amount) + Total(DrawnOf(f, p), Amount)
  BY <1>3, <1>4, DrawnSplit
<1>8. Books(g, s - a, l + a, v)
  BY <1>4, <1>5, <1>6, <1>7, BooksTypes DEF Books
<1>. QED  BY <1>8 DEF g

\* An accepted proposal expires: what it did not draw returns to nCFSupply.
LEMMA BooksRelease ==
  ASSUME NEW f, DOMAIN f = Objects, NEW s \in Int, NEW l \in Int, NEW v \in Int,
         Books(f, s, l, v), NEW p \in Proposals, p \in Com(f),
         NEW a, a = Amount[p] - Total(DrawnOf(f, p), Amount)
  PROVE  Books([f EXCEPT ![p] = ACCEPTED_EXPIRED], s + a, l - a, v)
<1>. DEFINE g == [f EXCEPT ![p] = ACCEPTED_EXPIRED]
<1>1. p \in Objects /\ p \notin Requests
  BY ProposalObjects, ObjectsAssumption
<1>2. g[p] = ACCEPTED_EXPIRED /\ \A x \in Objects : x # p => g[x] = f[x]
  BY <1>1
<1>. HIDE DEF g
<1>3. Com(g) = Com(f) \ {p} /\ Com(f) = Com(g) \cup {p} /\ p \notin Com(g)
  <2>1. ACCEPTED_EXPIRED \notin Locking
    BY DEF Locking, ACCEPTED, PENDING_VOTING_PREQ, ACCEPTED_EXPIRED
  <2>. QED  BY <1>1, <1>2, <2>1 DEF Com, Objects
<1>4. Dra(g) = Dra(f)
  BY <1>1, <1>2 DEF Dra, Objects
<1>5. Amount[p] \in 0..MaxAmount /\ Amount[p] \in Nat
  BY <1>1, AmountType
<1>6. Total(Com(g), Amount) = Total(Com(f), Amount) - Amount[p]
  BY <1>3, <1>5, BooksTypes, TotalRemove
<1>7. Total(DrawnOfCom(f), Amount) = Total(DrawnOfCom(g), Amount) + Total(DrawnOf(g, p), Amount)
  BY <1>3, <1>4, DrawnSplit
<1>8. DrawnOf(g, p) = DrawnOf(f, p)
  BY <1>4 DEF DrawnOf
<1>9. Books(g, s + a, l - a, v)
  BY <1>4, <1>5, <1>6, <1>7, <1>8, BooksTypes DEF Books
<1>. QED  BY <1>9 DEF g

-----------------------------------------------------------------------------
\* GetAvailable counts the accepted and paid requests of the proposal.
LEMMA AvailableIs ==
  ASSUME HistoryInv, NEW p \in Proposals, ~IsSuper(p)
  PROVE  GetAvailable(p, FALSE) = Amount[p] - Total(DrawnOf(FlagsAt(tip), p), Amount)
<1>1. FlagsAt(tip) = [x \in Objects |-> State(x)]
  BY FlagsNow, TipType DEF HistoryInv
<1>2. ASSUME NEW r \in Requests
      PROVE  FlagsAt(tip)[r] = State(r) /\ (State(r) \in Drawing => Exists(r))
  <2>1. r \in Objects
    BY RequestObjects
  <2>2. NIL \notin Drawing
    BY DEF Drawing, NIL, ACCEPTED, PAID
  <2>. QED  BY <1>1, <2>1, <2>2, StateGiven
<1>3. {r \in RequestsOf(p) : State(r) \in {ACCEPTED, PAID}} = DrawnOf(FlagsAt(tip), p)
  BY <1>2 DEF RequestsOf, DrawnOf, Dra, Drawing
<1>. QED  BY <1>3 DEF GetAvailable

-----------------------------------------------------------------------------
BooksAt(h) == Books(FlagsAt(h), chain[h].nCFSupply, chain[h].nCFLocked, chain[h].given)

BooksInv == FavouredInv /\ \A h \in 1..tip : BooksAt(h)

\* A step at the tip needs to balance the books of the tip only.
LEMMA TipBooks ==
  ASSUME BooksInv, NEW x \in Objects, NEW flag \in FlagsOf(x), GiveState(x, flag),
         \/ UNCHANGED chain
         \/ \E s \in Int, l \in Int : SetBalances(s, l),
         Books([FlagsAt(tip) EXCEPT ![x] = flag],
               chain'[tip].nCFSupply, chain'[tip].nCFLocked, chain'[tip].given)
  PROVE  \A h \in 1..tip' : BooksAt(h)'
<1>1. tip' = tip /\ \A h \in 1..tip : h # tip => chain'[h] = chain[h]
  BY ChainKept DEF BooksInv, FavouredInv, HistoryInv, tip
<1>. SUFFICES ASSUME NEW h \in 1..tip
     PROVE  Books(FlagsAt(h)', chain'[h].nCFSupply, chain'[h].nCFLocked, chain'[h].given)
  BY <1>1 DEF BooksAt, Books, Com, Dra, DrawnOfCom
<1>2. CASE h = tip
  <2>1. FlagsAt(h)' = [FlagsAt(tip) EXCEPT ![x] = flag]
    BY <1>2, FlagsGiven DEF BooksInv, FavouredInv
  <2>. QED  BY <1>2, <2>1
<1>3. CASE h # tip
  <2>1. FlagsAt(h)' = FlagsAt(h) /\ chain'[h] = chain[h]
    BY <1>1, <1>3, FlagsGiven DEF BooksInv, FavouredInv
  <2>. QED  BY <2>1 DEF BooksInv, BooksAt
<1>. QED  BY <1>2, <1>3

\* A step that changes neither the balances nor a history.
LEMMA NothingBooks ==
  ASSUME BooksInv, UNCHANGED <<chain, mapState>>
  PROVE  \A h \in 1..tip' : BooksAt(h)'
<1>1. tip' = tip
  BY DEF tip
<1>2. ASSUME NEW h \in 1..tip
      PROVE  BooksAt(h)'
  <2>1. FlagsAt(h)' = FlagsAt(h)
    BY DEF FlagsAt, FlagAt
  <2>2. Books(FlagsAt(h)', chain'[h].nCFSupply, chain'[h].nCFLocked, chain'[h].given)
    BY <2>1 DEF BooksInv, BooksAt
  <2>. QED  BY <2>2 DEF BooksAt, Books, Com, Dra, DrawnOfCom
<1>. QED  BY <1>1, <1>2

\* What the books of the tip look like before a step.
LEMMA BooksNow ==
  ASSUME BooksInv
  PROVE  /\ DOMAIN FlagsAt(tip) = Objects
         /\ \A x \in Objects : FlagsAt(tip)[x] = State(x)
         /\ chain[tip].nCFSupply \in Int /\ chain[tip].nCFLocked \in Int /\ chain[tip].given \in Int
         /\ Books(FlagsAt(tip), chain[tip].nCFSupply, chain[tip].nCFLocked, chain[tip].given)
<1>1. TypeOK /\ HistoryInv /\ tip \in Nat /\ tip \in 1..tip /\ chain[tip] \in BlockIndex
  BY TipType DEF BooksInv, FavouredInv, HistoryInv
<1>2. FlagsAt(tip) = [x \in Objects |-> State(x)]
  BY <1>1, FlagsNow
<1>3. Books(FlagsAt(tip), chain[tip].nCFSupply, chain[tip].nCFLocked, chain[tip].given)
  BY <1>1 DEF BooksInv, BooksAt
<1>. QED  BY <1>1, <1>2, <1>3 DEF BlockIndex

\* A flag that locks and draws nothing, given while the chain stays, keeps the
\* books in balance.
LEMMA PlainFlagBooks ==
  ASSUME BooksInv, NEW x \in Objects, NEW flag \in FlagsOf(x), GiveState(x, flag),
         UNCHANGED chain,
         x \in Proposals /\ ~IsSuper(x) => (flag \in Locking <=> State(x) \in Locking),
         x \in Requests /\ ~IsSuper(Parent[x]) => (flag \in Drawing <=> State(x) \in Drawing)
  PROVE  \A h \in 1..tip' : BooksAt(h)'
<1>. DEFINE f == FlagsAt(tip)
            g == [f EXCEPT ![x] = flag]
<1>1. /\ DOMAIN f = Objects /\ f[x] = State(x)
      /\ Books(f, chain[tip].nCFSupply, chain[tip].nCFLocked, chain[tip].given)
  BY BooksNow
<1>. HIDE DEF f
<1>2. g[x] = flag /\ \A y \in Objects : y # x => g[y] = f[y]
  BY <1>1
<1>. HIDE DEF g
<1>3. Books(g, chain[tip].nCFSupply, chain[tip].nCFLocked, chain[tip].given)
  BY <1>1, <1>2, BooksSame DEF Objects
<1>. QED  BY <1>3, TipBooks DEF f, g

\* A visit of the loop over the requests.
LEMMA RequestBooks ==
  ASSUME BooksInv, NEW r \in Requests, UpdateRequest(r)
  PROVE  \A h \in 1..tip' : BooksAt(h)'
<1>1. r \in Objects /\ r \notin Proposals /\ FlagsOf(r) = RequestFlags /\ Parent[r] \in Objects
      /\ Parent[r] \in Proposals
  BY RequestObjects, ProposalObjects
<1>2. HistoryInv /\ TypeOK /\ Favoured
  BY DEF BooksInv, FavouredInv, HistoryInv
<1>3. Drawing \subseteq Approving /\ Locking \subseteq Approving /\ NIL \notin Approving
  BY ApprovingFlags
<1>4. CASE ExpireRequest(r)
  <2>1. GiveState(r, EXPIRED) /\ UNCHANGED chain /\ EXPIRED \in FlagsOf(r)
    BY <1>1, <1>4 DEF ExpireRequest, RequestFlags
  <2>2. State(r) \notin Drawing
    BY <1>4 DEF ExpireRequest, RequestExpires, IsExpiredRequest, Drawing
  <2>. QED  BY <1>1, <2>1, <2>2, PlainFlagBooks DEF Drawing, EXPIRED, ACCEPTED, PAID
<1>5. CASE RejectRequest(r)
  <2>1. GiveState(r, REJECTED) /\ UNCHANGED chain /\ REJECTED \in FlagsOf(r)
    BY <1>1, <1>5 DEF RejectRequest, RequestFlags
  <2>2. Against(r, votes[r])
    BY <1>5 DEF RejectRequest, RequestFails, IsRejected
  <2>3. State(r) \notin Drawing
    BY <1>1, <1>2, <1>3, <2>2, StateFavoured, NotBoth
  <2>. QED  BY <1>1, <2>1, <2>3, PlainFlagBooks DEF Drawing, REJECTED, ACCEPTED, PAID
<1>6. CASE AcceptRequest(r)
  <2>1. GiveState(r, ACCEPTED) /\ ACCEPTED \in FlagsOf(r)
    BY <1>1, <1>6 DEF AcceptRequest, RequestFlags
  <2>2. State(r) = NIL /\ State(Parent[r]) \in Locking
    BY <1>6 DEF AcceptRequest, RequestPasses, IsAccepted, Locking
  <2>3. CASE IsSuper(Parent[r])
    <3>1. UNCHANGED chain
      BY <1>6, <2>3 DEF AcceptRequest
    <3>. QED  BY <1>1, <2>1, <2>3, <3>1, PlainFlagBooks
  <2>4. CASE ~IsSuper(Parent[r])
    <3>. DEFINE f == FlagsAt(tip)
                s == chain[tip].nCFSupply
                l == chain[tip].nCFLocked
    <3>1. SetBalances(s, l - Amount[r])
      BY <1>6, <2>4 DEF AcceptRequest
    <3>2. /\ DOMAIN f = Objects /\ f[r] = State(r) /\ f[Parent[r]] = State(Parent[r])
          /\ s \in Int /\ l \in Int /\ chain[tip].given \in Int
          /\ Books(f, s, l, chain[tip].given)
      BY <1>1, BooksNow
    <3>3. Amount[r] \in Nat
      BY <1>1, AmountType
    <3>. HIDE DEF f, s, l
    <3>4. Parent[r] \in Com(f)
      BY <1>1, <2>2, <2>4, <3>2 DEF Com
    <3>5. Books([f EXCEPT ![r] = ACCEPTED], s, l - Amount[r], chain[tip].given)
      BY <1>3, <2>2, <3>2, <3>4, BooksDraw
    <3>6. l - Amount[r] \in Int
      BY <3>2, <3>3
    <3>7. /\ chain'[tip].nCFSupply = s /\ chain'[tip].nCFLocked = l - Amount[r]
          /\ chain'[tip].given = chain[tip].given
      BY <1>2, <3>1, <3>2, <3>6, SetBalancesType, TipType
    <3>. QED  BY <1>1, <2>1, <3>1, <3>2, <3>5, <3>6, <3>7, TipBooks DEF f
  <2>. QED  BY <2>3, <2>4
<1>7. CASE KeepRequest(r)
  BY <1>7, NothingBooks DEF KeepRequest
<1>. QED  BY <1>4, <1>5, <1>6, <1>7 DEF UpdateRequest

\* A visit of the loop over the proposals.
LEMMA ProposalBooks ==
  ASSUME BooksInv, NEW p \in Proposals, UpdateProposal(p)
  PROVE  \A h \in 1..tip' : BooksAt(h)'
<1>1. p \in Objects /\ p \notin Requests /\ FlagsOf(p) = ProposalFlags
  BY ProposalObjects, ObjectsAssumption
<1>2. HistoryInv /\ TypeOK /\ Favoured
  BY DEF BooksInv, FavouredInv, HistoryInv
<1>3. /\ EXPIRED \notin Locking /\ REJECTED \notin Locking /\ NIL \notin Locking
      /\ Locking \subseteq Approving /\ PENDING_FUNDS \notin Locking /\ ACCEPTED_EXPIRED \notin Locking
  BY ApprovingFlags
<1>. DEFINE f == FlagsAt(tip)
            s == chain[tip].nCFSupply
            l == chain[tip].nCFLocked
            a == GetAvailable(p, FALSE)
<1>4. /\ DOMAIN f = Objects /\ f[p] = State(p)
      /\ s \in Int /\ l \in Int /\ chain[tip].given \in Int
      /\ Books(f, s, l, chain[tip].given)
  BY <1>1, BooksNow
<1>5. a \in Int
  BY GetAvailableType, Zenon
<1>6. ~IsSuper(p) => a = Amount[p] - Total(DrawnOf(f, p), Amount)
  BY <1>2, AvailableIs
<1>. HIDE DEF f, s, l, a
<1>7. s - a \in Int /\ l + a \in Int /\ s + a \in Int /\ l - a \in Int
  BY <1>4, <1>5
<1>8. ASSUME NEW flag \in FlagsOf(p), GiveState(p, flag), NEW s1 \in Int, NEW l1 \in Int,
             SetBalances(s1, l1), Books([f EXCEPT ![p] = flag], s1, l1, chain[tip].given)
      PROVE  \A h \in 1..tip' : BooksAt(h)'
  <2>1. /\ chain'[tip].nCFSupply = s1 /\ chain'[tip].nCFLocked = l1
        /\ chain'[tip].given = chain[tip].given
    BY <1>2, <1>8, SetBalancesType, TipType
  <2>. QED  BY <1>1, <1>8, <2>1, TipBooks DEF f
<1>9. CASE DelayProposal(p)
  <2>1. GiveState(p, PENDING_VOTING_PREQ) /\ UNCHANGED chain /\ PENDING_VOTING_PREQ \in FlagsOf(p)
    BY <1>1, <1>9 DEF DelayProposal, ProposalFlags
  <2>2. State(p) \in Locking
    BY <1>9 DEF DelayProposal, HasPendingPaymentRequests, RequestsOf, CanVote, Locking
  <2>3. PENDING_VOTING_PREQ \in Locking
    BY DEF Locking
  <2>. QED  BY <1>1, <2>1, <2>2, <2>3, PlainFlagBooks
<1>10. CASE ReleaseProposal(p)
  <2>1. GiveState(p, ACCEPTED_EXPIRED) /\ ACCEPTED_EXPIRED \in FlagsOf(p) /\ State(p) \in Locking
    BY <1>1, <1>10 DEF ReleaseProposal, ProposalFlags, Locking
  <2>2. CASE IsSuper(p)
    <3>1. UNCHANGED chain
      BY <1>10, <2>2 DEF ReleaseProposal
    <3>. QED  BY <1>1, <2>1, <2>2, <3>1, PlainFlagBooks
  <2>3. CASE ~IsSuper(p)
    <3>1. SetBalances(s + a, l - a)
      BY <1>10, <2>3 DEF ReleaseProposal, s, l, a
    <3>2. p \in Com(f)
      BY <1>4, <2>1, <2>3 DEF Com
    <3>3. Books([f EXCEPT ![p] = ACCEPTED_EXPIRED], s + a, l - a, chain[tip].given)
      BY <1>4, <1>6, <2>3, <3>2, BooksRelease
    <3>. QED  BY <1>7, <1>8, <2>1, <3>1, <3>3
  <2>. QED  BY <2>2, <2>3
<1>11. CASE ExpireProposal(p)
  <2>1. GiveState(p, EXPIRED) /\ UNCHANGED chain /\ EXPIRED \in FlagsOf(p) /\ State(p) \notin Locking
    BY <1>1, <1>11 DEF ExpireProposal, ProposalFlags, Locking
  <2>. QED  BY <1>1, <1>3, <2>1, PlainFlagBooks
<1>12. CASE RejectProposal(p)
  <2>1. GiveState(p, REJECTED) /\ UNCHANGED chain /\ REJECTED \in FlagsOf(p)
    BY <1>1, <1>12 DEF RejectProposal, ProposalFlags
  <2>2. Against(p, votes[p])
    BY <1>12 DEF RejectProposal, ProposalFails, IsRejected
  <2>3. State(p) \notin Locking
    BY <1>1, <1>2, <1>3, <2>2, StateFavoured, NotBoth
  <2>. QED  BY <1>1, <1>3, <2>1, <2>3, PlainFlagBooks
<1>13. CASE AcceptProposal(p)
  <2>1. GiveState(p, ACCEPTED) /\ ACCEPTED \in FlagsOf(p)
    BY <1>1, <1>13 DEF AcceptProposal, ProposalFlags
  <2>2. State(p) \in {NIL, PENDING_FUNDS}
    BY <1>13 DEF AcceptProposal, ProposalPasses, IsAccepted
  <2>3. CASE IsSuper(p)
    <3>1. UNCHANGED chain
      BY <1>13, <2>3 DEF AcceptProposal
    <3>. QED  BY <1>1, <2>1, <2>3, <3>1, PlainFlagBooks
  <2>4. CASE ~IsSuper(p)
    <3>1. SetBalances(s - a, l + a)
      BY <1>13, <2>4 DEF AcceptProposal, s, l, a
    <3>2. Books([f EXCEPT ![p] = ACCEPTED], s - a, l + a, chain[tip].given)
      BY <1>3, <1>4, <1>6, <2>2, <2>4, BooksLock
    <3>. QED  BY <1>7, <1>8, <2>1, <3>1, <3>2
  <2>. QED  BY <2>3, <2>4
<1>14. CASE SuspendProposal(p)
  <2>1. GiveState(p, PENDING_FUNDS) /\ UNCHANGED chain /\ PENDING_FUNDS \in FlagsOf(p)
    BY <1>1, <1>14 DEF SuspendProposal, ProposalFlags
  <2>2. State(p) \notin Locking
    BY <1>3, <1>14 DEF SuspendProposal, ProposalPasses, IsAccepted
  <2>. QED  BY <1>1, <1>3, <2>1, <2>2, PlainFlagBooks
<1>15. CASE KeepProposal(p)
  BY <1>15, NothingBooks DEF KeepProposal
<1>. QED  BY <1>9, <1>10, <1>11, <1>12, <1>13, <1>14, <1>15 DEF UpdateProposal

\* A new block starts with the books of its predecessor and what it contributes.
LEMMA ConnectBooks ==
  ASSUME BooksInv, NEW fork \in Forks, NEW step \in TimeSteps, NEW contribution \in Contributions,
         ConnectBlock(fork, step, contribution)
  PROVE  \A h \in 1..tip' : BooksAt(h)'
<1>1. TypeOK /\ HistoryInv /\ tip \in Nat /\ contribution \in Nat
  BY TipType, InputsAssumption DEF BooksInv, FavouredInv, HistoryInv
<1>. DEFINE b == [fork      |-> fork,
                  time      |-> TipTime + step,
                  nCFSupply |-> chain[tip].nCFSupply + contribution,
                  nCFLocked |-> chain[tip].nCFLocked,
                  given     |-> chain[tip].given + contribution]
<1>2. chain' = Append(chain, b) /\ UNCHANGED mapState
  BY DEF ConnectBlock
<1>3. /\ b.nCFSupply = chain[tip].nCFSupply + contribution
      /\ b.nCFLocked = chain[tip].nCFLocked
      /\ b.given = chain[tip].given + contribution
  OBVIOUS
<1>. HIDE DEF b
<1>4. tip' = tip + 1 /\ chain'[tip + 1] = b /\ \A h \in 1..tip : chain'[h] = chain[h]
  <2>1. chain \in Seq(BlockIndex)
    BY <1>1 DEF TypeOK
  <2>. QED  BY <1>2, <2>1 DEF tip
<1>5. ASSUME NEW h \in 1..(tip + 1)
      PROVE  BooksAt(h)'
  <2>1. FlagsAt(h)' = FlagsAt(h)
    BY <1>2 DEF FlagsAt, FlagAt
  <2>2. Books(FlagsAt(h)', chain'[h].nCFSupply, chain'[h].nCFLocked, chain'[h].given)
    <3>1. CASE h = tip + 1
      <4>. DEFINE f == FlagsAt(tip)
      <4>1. FlagsAt(h) = f
        BY <1>1, <3>1, FlagsNow
      <4>2. /\ chain[tip].nCFSupply \in Int /\ chain[tip].nCFLocked \in Int
            /\ chain[tip].given \in Int
            /\ Books(f, chain[tip].nCFSupply, chain[tip].nCFLocked, chain[tip].given)
        BY BooksNow
      <4>. HIDE DEF f
      <4>3. Books(f, chain[tip].nCFSupply + contribution, chain[tip].nCFLocked,
                  chain[tip].given + contribution)
        <5>1. Total(Com(f), Amount) \in Nat /\ Total(Dra(f), Amount) \in Nat
          BY BooksTypes
        <5>. QED  BY <1>1, <4>2, <5>1 DEF Books
      <4>. QED  BY <1>3, <1>4, <2>1, <3>1, <4>1, <4>3
    <3>2. CASE h # tip + 1
      <4>1. h \in 1..tip
        BY <1>1, <3>2
      <4>. QED  BY <1>4, <2>1, <4>1 DEF BooksInv, BooksAt
    <3>. QED  BY <3>1, <3>2
  <2>. QED  BY <2>2 DEF BooksAt, Books, Com, Dra, DrawnOfCom
<1>. QED  BY <1>4, <1>5

\* The coinbase pays a request: its money left the fund when it was accepted.
LEMMA PayBooks ==
  ASSUME BooksInv, NEW r \in Requests, PayRequest(r)
  PROVE  \A h \in 1..tip' : BooksAt(h)'
<1>1. r \in Objects /\ r \notin Proposals /\ PAID \in FlagsOf(r) /\ PAID \in Drawing
  BY RequestObjects DEF RequestFlags, Drawing
<1>2. GiveState(r, PAID) /\ UNCHANGED chain /\ State(r) \in Drawing
  BY DEF PayRequest, Payable, GiveState, Drawing
<1>. QED  BY <1>1, <1>2, PlainFlagBooks

\* Disconnecting the tip leaves the books of the blocks below it.
LEMMA DisconnectBooks ==
  ASSUME BooksInv, DisconnectTip
  PROVE  \A h \in 1..tip' : BooksAt(h)'
<1>1. HistoryInv /\ TypeOK /\ tip \in Nat /\ tip > 1
  BY TipType DEF BooksInv, FavouredInv, HistoryInv, DisconnectTip
<1>2. tip' = tip - 1 /\ \A h \in 1..(tip - 1) : chain'[h] = chain[h]
  BY <1>1, ShorterChain
<1>3. ASSUME NEW h \in 1..(tip - 1)
      PROVE  BooksAt(h)'
  <2>1. FlagsAt(h)' = FlagsAt(h) /\ h \in 1..tip
    BY <1>1, FlagsKept
  <2>2. Books(FlagsAt(h)', chain'[h].nCFSupply, chain'[h].nCFLocked, chain'[h].given)
    BY <1>2, <2>1 DEF BooksInv, BooksAt
  <2>. QED  BY <2>2 DEF BooksAt, Books, Com, Dra, DrawnOfCom
<1>. QED  BY <1>2, <1>3

-----------------------------------------------------------------------------
\* The fund starts empty.
LEMMA BooksInit == Init => BooksInv
<1>. SUFFICES ASSUME Init PROVE BooksInv
  OBVIOUS
<1>1. HistoryInv
  BY HistoryInit
<1>2. FavouredInv
  BY FavouredInit
<1>3. tip = 1 /\ chain[1].nCFSupply = 0 /\ chain[1].nCFLocked = 0 /\ chain[1].given = 0
  BY DEF Init, tip
<1>4. \A x \in Objects : State(x) = NIL
  BY DEF Init, State, GetLastState, NoHistory
<1>5. FlagsAt(1) = [x \in Objects |-> State(x)]
  BY <1>1, <1>3, FlagsNow
<1>6. NIL \notin Locking /\ NIL \notin Drawing
  BY DEF Locking, Drawing, NIL, ACCEPTED, PAID, PENDING_VOTING_PREQ
<1>7. Com(FlagsAt(1)) = {} /\ Dra(FlagsAt(1)) = {}
  BY <1>4, <1>5, <1>6 DEF Com, Dra, Objects
<1>8. DrawnOfCom(FlagsAt(1)) = {}
  BY <1>7 DEF DrawnOfCom
<1>9. BooksAt(1)
  BY <1>3, <1>7, <1>8, TotalEmpty DEF BooksAt, Books
<1>. QED  BY <1>2, <1>3, <1>9 DEF BooksInv

\* Every step keeps the books.
LEMMA BooksStep == BooksInv /\ [Next]_vars => BooksInv'
<1>. SUFFICES ASSUME BooksInv, [Next]_vars PROVE BooksInv'
  OBVIOUS
<1>1. FavouredInv'
  BY FavouredStep DEF BooksInv
<1>. DEFINE Kept == \A h \in 1..tip' : BooksAt(h)'
<1>2. ASSUME UNCHANGED <<chain, mapState>> PROVE Kept
  BY <1>2, NothingBooks
<1>3. ASSUME NEW p \in Proposals, AddProposal(p) PROVE Kept
  BY <1>2, <1>3 DEF AddProposal
<1>4. ASSUME NEW r \in Requests, AddPaymentRequest(r) PROVE Kept
  BY <1>2, <1>4 DEF AddPaymentRequest
<1>5. ASSUME NEW exclude \in Excludes, NEW tally \in [Counted -> Tallies],
             CountVotes(exclude, tally)
      PROVE  Kept
  BY <1>2, <1>5 DEF CountVotes
<1>6. ASSUME RequestsDone \/ ConnectTipDone \/ UNCHANGED vars PROVE Kept
  BY <1>2, <1>6 DEF RequestsDone, ConnectTipDone, vars
<1>7. Kept
  BY <1>3, <1>4, <1>5, <1>6, ConnectBooks, PayBooks, RequestBooks, ProposalBooks,
     DisconnectBooks DEF Next
<1>. QED  BY <1>1, <1>7 DEF BooksInv

\* The books are those the properties speak of.
LEMMA BooksSay == BooksInv => LockedIsCommitted /\ FundConserved
<1>. SUFFICES ASSUME BooksInv PROVE LockedIsCommitted /\ FundConserved
  OBVIOUS
<1>1. ASSUME NEW h \in 1..tip
      PROVE  CommittedAt(h) = Com(FlagsAt(h)) /\ DrawnAt(h) = Dra(FlagsAt(h))
  BY DEF CommittedAt, DrawnAt, Com, Dra, FlagsAt, Objects, Locking, Drawing
<1>2. ASSUME NEW h \in 1..tip
      PROVE  /\ chain[h].nCFLocked = Total(CommittedAt(h), Amount)
                   - Total({r \in DrawnAt(h) : Parent[r] \in CommittedAt(h)}, Amount)
             /\ chain[h].nCFSupply + chain[h].nCFLocked + Total(DrawnAt(h), Amount) = chain[h].given
  BY <1>1 DEF BooksInv, BooksAt, Books, DrawnOfCom
<1>. QED  BY <1>2 DEF LockedIsCommitted, FundConserved

\* At every block of every chain the code can build, nCFLocked is exactly what
\* the accepted proposals may still draw: the three places of VoteStep that
\* change it agree on what a proposal has available.
THEOREM LockedCorrect == Spec => []LockedIsCommitted
BY BooksInit, BooksStep, BooksSay, PTL DEF Spec

\* VoteStep neither creates nor loses money of the fund, whatever blocks are
\* connected and disconnected.
THEOREM ConservedCorrect == Spec => []FundConserved
BY BooksInit, BooksStep, BooksSay, PTL DEF Spec

-----------------------------------------------------------------------------
\* The requests of a proposal never ask for more than it was granted.

Dead == {REJECTED, EXPIRED}

AliveAt(p, h) == {r \in Requests : /\ Parent[r] = p /\ ExistsAt(r, h)
                                   /\ FlagAt(r, h) \notin Dead}

Granted(h) == \A p \in Proposals : Total(AliveAt(p, h), Amount) <= Amount[p]

GrantInv == HistoryInv /\ \A h \in 1..tip : Granted(h)

\* A step under which no request comes alive, at any block, asks for no more.
LEMMA NoneRevived ==
  ASSUME NEW h, Granted(h), \A p \in Proposals : AliveAt(p, h)' \subseteq AliveAt(p, h)
  PROVE  Granted(h)'
<1>1. ASSUME NEW p \in Proposals
      PROVE  Total(AliveAt(p, h)', Amount) <= Amount[p]
  <2>. DEFINE S == AliveAt(p, h)
              T == AliveAt(p, h)'
  <2>1. IsFiniteSet(S) /\ T \subseteq S
    BY RequestsFinite DEF AliveAt
  <2>2. Total(S, Amount) <= Amount[p]
    BY DEF Granted
  <2>. HIDE DEF S, T
  <2>3. Total(T, Amount) <= Total(S, Amount) /\ Total(T, Amount) \in Nat /\ Total(S, Amount) \in Nat
    BY <2>1, TotalSubset, TotalType, FS_Subset
  <2>4. Amount[p] \in Nat
    BY AmountType, ProposalObjects
  <2>5. Total(T, Amount) <= Amount[p]
    BY <2>2, <2>3, <2>4
  <2>. QED  BY <2>5 DEF T
<1>. QED  BY <1>1 DEF Granted

\* A flag at the tip revives no request if it is not given to a dead one.
LEMMA FlagRevivesNone ==
  ASSUME HistoryInv, NEW x \in Objects, NEW flag \in FlagsOf(x), GiveState(x, flag),
         x \in Requests /\ State(x) \in Dead => flag \in Dead, UNCHANGED txblock,
         NEW h \in 1..tip
  PROVE  \A p \in Proposals : AliveAt(p, h)' \subseteq AliveAt(p, h)
<1>1. FlagsAt(h)' = IF h = tip THEN [FlagsAt(h) EXCEPT ![x] = flag] ELSE FlagsAt(h)
  BY FlagsGiven
<1>2. FlagsAt(tip) = [y \in Objects |-> State(y)]
  BY FlagsNow, TipType DEF HistoryInv
<1>3. \A r \in Requests : r \in Objects
  BY RequestObjects
<1>4. \A r \in Requests : FlagAt(r, h) = FlagsAt(h)[r] /\ FlagAt(r, h)' = FlagsAt(h)'[r]
  BY <1>3 DEF FlagsAt
<1>5. \A r \in Requests : FlagAt(r, h)' = FlagAt(r, h) \/ (FlagAt(r, h) \in Dead => FlagAt(r, h)' \in Dead)
  BY <1>1, <1>2, <1>3, <1>4
<1>6. \A r \in Requests : ExistsAt(r, h)' <=> ExistsAt(r, h)
  BY DEF ExistsAt, Exists
<1>. QED  BY <1>5, <1>6 DEF AliveAt

\* The requests that are alive at the tip are the ones GetAvailable counts when
\* it is asked to include undecided requests.
LEMMA AliveNow ==
  ASSUME HistoryInv, NEW p \in Proposals, NEW h \in Nat, h >= tip
  PROVE  AliveAt(p, h) = {r \in RequestsOf(p) : State(r) \notin Dead}
<1>1. FlagsAt(h) = [x \in Objects |-> State(x)]
  BY FlagsNow
<1>2. ASSUME NEW r \in Requests
      PROVE  FlagAt(r, h) = State(r) /\ (ExistsAt(r, h) <=> Exists(r))
  <2>1. r \in Objects
    BY RequestObjects
  <2>2. FlagAt(r, h) = State(r)
    BY <1>1, <2>1 DEF FlagsAt
  <2>3. Exists(r) => OnChain(txblock[r])
    BY <2>1 DEF HistoryInv, HistoryOnChain
  <2>4. Exists(r) => Height(txblock[r]) \in Nat /\ Height(txblock[r]) <= tip
    BY <2>3, InputsAssumption DEF OnChain, Blocks, Heights, Height
  <2>5. tip \in Nat
    BY TipType DEF HistoryInv
  <2>. QED  BY <2>2, <2>4, <2>5 DEF ExistsAt
<1>. QED  BY <1>2 DEF AliveAt, RequestsOf

\* IsValidPaymentRequest lets a request in only if what its proposal has left,
\* after all requests that are alive, covers it.
LEMMA RequestGranted ==
  ASSUME GrantInv, NEW r \in Requests, AddPaymentRequest(r)
  PROVE  \A h \in 1..tip' : Granted(h)'
<1>1. HistoryInv /\ TypeOK /\ tip \in Nat /\ r \in Objects
  BY TipType, RequestObjects DEF GrantInv, HistoryInv
<1>2. UNCHANGED <<chain, mapState>> /\ txblock' = [txblock EXCEPT ![r] = TipBlock] /\ tip' = tip
  BY DEF AddPaymentRequest, tip
<1>3. /\ txblock'[r] = TipBlock /\ Height(TipBlock) = tip /\ TipBlock # NoBlock
      /\ \A q \in Requests : q # r => txblock'[q] = txblock[q]
  BY <1>1, <1>2, TipType, RequestObjects DEF TypeOK, NoBlock, Height
<1>4. ~Exists(r) /\ DOMAIN mapState[r] = {}
  BY <1>1 DEF AddPaymentRequest, HistoryInv, HistoryOnChain
<1>5. ASSUME NEW h \in 1..tip, NEW q \in Requests
      PROVE  /\ FlagAt(q, h)' = FlagAt(q, h)
             /\ ExistsAt(q, h)' <=> ExistsAt(q, h) \/ (q = r /\ h = tip)
  <2>1. FlagAt(q, h)' = FlagAt(q, h)
    BY <1>2 DEF FlagAt
  <2>2. CASE q = r
    BY <1>1, <1>3, <1>4, <2>1, <2>2 DEF ExistsAt, Exists
  <2>3. CASE q # r
    BY <1>3, <2>1, <2>3 DEF ExistsAt, Exists
  <2>. QED  BY <2>1, <2>2, <2>3
<1>6. ASSUME NEW h \in 1..tip, h # tip
      PROVE  Granted(h)'
  <2>1. \A p \in Proposals : AliveAt(p, h)' \subseteq AliveAt(p, h)
    BY <1>5, <1>6 DEF AliveAt
  <2>. QED  BY <2>1, NoneRevived DEF GrantInv
<1>7. ASSUME NEW h \in 1..tip, h = tip
      PROVE  Granted(h)'
  <2>. SUFFICES ASSUME NEW p \in Proposals
       PROVE  Total(AliveAt(p, h)', Amount) <= Amount[p]
    BY DEF Granted
  <2>. DEFINE S == AliveAt(p, h)
              T == AliveAt(p, h)'
  <2>1. IsFiniteSet(S)
    BY RequestsFinite DEF AliveAt
  <2>2. Total(S, Amount) \in Nat /\ Amount[p] \in Nat /\ Amount[r] \in Nat /\ Amount[r] \in 0..MaxAmount
    BY <1>1, <2>1, TotalType, AmountType, ProposalObjects
  <2>3. Total(S, Amount) <= Amount[p]
    BY DEF GrantInv, Granted
  <2>4. CASE Parent[r] # p
    <3>1. T \subseteq S
      BY <1>5, <2>4 DEF AliveAt
    <3>. HIDE DEF S, T
    <3>2. Total(T, Amount) <= Total(S, Amount) /\ Total(T, Amount) \in Nat
      BY <2>1, <3>1, TotalSubset, TotalType, FS_Subset
    <3>3. Total(T, Amount) <= Amount[p]
      BY <2>2, <2>3, <3>2
    <3>. QED  BY <3>3 DEF T
  <2>5. CASE Parent[r] = p
    <3>1. r \notin S
      BY <1>4 DEF AliveAt, ExistsAt
    <3>2. FlagAt(r, h) \notin Dead
      <4>1. FlagsAt(h) = [x \in Objects |-> State(x)]
        BY <1>1, <1>7, FlagsNow
      <4>2. FlagAt(r, h) = State(r)
        BY <1>1, <4>1 DEF FlagsAt
      <4>3. State(r) = NIL
        BY <1>4 DEF State, GetLastState
      <4>. QED  BY <4>2, <4>3 DEF Dead, NIL, REJECTED, EXPIRED
    <3>3. T = S \cup {r}
      BY <1>5, <1>7, <2>5, <3>2 DEF AliveAt
    <3>4. S = {q \in RequestsOf(p) : State(q) \notin {REJECTED, EXPIRED}}
      BY <1>1, <1>7, AliveNow DEF Dead
    <3>5. GetAvailable(p, TRUE) = Amount[p] - Total(S, Amount)
      BY <3>4 DEF GetAvailable
    <3>6. Amount[r] <= GetAvailable(p, TRUE)
      BY <2>5 DEF AddPaymentRequest, ValidPaymentRequest
    <3>7. Amount[r] <= Amount[p] - Total(S, Amount)
      BY <3>5, <3>6, Zenon
    <3>. HIDE DEF S, T
    <3>8. Total(T, Amount) = Total(S, Amount) + Amount[r]
      BY <2>1, <2>2, <3>1, <3>3, TotalAdd
    <3>9. Total(T, Amount) <= Amount[p]
      BY <2>2, <3>7, <3>8
    <3>. QED  BY <3>9 DEF T
  <2>. QED  BY <2>4, <2>5
<1>. QED  BY <1>2, <1>6, <1>7

\* A new proposal has no requests yet, a new block no flags of its own.
LEMMA OthersGranted ==
  ASSUME GrantInv,
         \/ \E p \in Proposals : AddProposal(p)
         \/ UNCHANGED <<chain, txblock, mapState>>
  PROVE  \A h \in 1..tip' : Granted(h)'
<1>1. UNCHANGED <<chain, mapState>> /\ \A q \in Requests : txblock'[q] = txblock[q]
  BY ObjectsAssumption DEF AddProposal, GrantInv, HistoryInv, TypeOK, Objects
<1>2. ASSUME NEW h \in 1..tip
      PROVE  Granted(h)'
  <2>1. \A p \in Proposals : AliveAt(p, h)' \subseteq AliveAt(p, h)
    BY <1>1 DEF AliveAt, ExistsAt, Exists, FlagAt
  <2>. QED  BY <2>1, NoneRevived DEF GrantInv
<1>3. tip' = tip
  BY <1>1 DEF tip
<1>. QED  BY <1>2, <1>3

\* The flags of a new block are those of its predecessor.
LEMMA ConnectGranted ==
  ASSUME GrantInv, NEW b, chain' = Append(chain, b), UNCHANGED <<txblock, mapState>>
  PROVE  \A h \in 1..tip' : Granted(h)'
<1>1. HistoryInv /\ chain \in Seq(BlockIndex) /\ tip \in Nat /\ tip \in 1..tip
  <2>1. HistoryInv
    BY DEF GrantInv
  <2>2. TypeOK
    BY <2>1 DEF HistoryInv
  <2>3. chain \in Seq(BlockIndex)
    BY <2>2 DEF TypeOK
  <2>4. tip \in Nat /\ tip \in 1..tip
    BY <2>2, TipType
  <2>. QED  BY <2>1, <2>3, <2>4
<1>2. tip' = tip + 1
  BY <1>1 DEF tip
<1>3. ASSUME NEW h \in 1..(tip + 1)
      PROVE  Granted(h)'
  <2>1. Granted(h)
    <3>1. CASE h \in 1..tip
      BY <3>1 DEF GrantInv
    <3>2. CASE h = tip + 1
      <4>1. ASSUME NEW p \in Proposals
            PROVE  AliveAt(p, h) = AliveAt(p, tip)
        <5>1. h \in Nat /\ h >= tip /\ tip >= tip
          BY <1>1, <3>2
        <5>2. AliveAt(p, tip) = {r \in RequestsOf(p) : State(r) \notin Dead}
          BY <1>1, <5>1, AliveNow
        <5>3. AliveAt(p, h) = {r \in RequestsOf(p) : State(r) \notin Dead}
          BY <1>1, <5>1, AliveNow
        <5>. QED  BY <5>2, <5>3
      <4>2. Granted(tip)
        BY <1>1 DEF GrantInv
      <4>. QED  BY <4>1, <4>2 DEF Granted
    <3>. QED  BY <1>1, <3>1, <3>2
  <2>2. \A p \in Proposals : AliveAt(p, h)' \subseteq AliveAt(p, h)
    BY DEF AliveAt, ExistsAt, Exists, FlagAt
  <2>. QED  BY <2>1, <2>2, NoneRevived
<1>. QED  BY <1>2, <1>3

\* Disconnecting the tip revives no request at the blocks below it.
LEMMA DisconnectGranted ==
  ASSUME GrantInv, DisconnectTip
  PROVE  \A h \in 1..tip' : Granted(h)'
<1>1. HistoryInv /\ chain \in Seq(BlockIndex) /\ tip \in Nat /\ tip > 1
  BY TipType DEF GrantInv, HistoryInv, TypeOK, DisconnectTip
<1>2. tip' = tip - 1
  BY ShorterChain DEF GrantInv, HistoryInv
<1>3. ASSUME NEW h \in 1..(tip - 1)
      PROVE  Granted(h)'
  <2>1. FlagsAt(h)' = FlagsAt(h) /\ h \in 1..tip
    BY <1>1, FlagsKept
  <2>2. ASSUME NEW r \in Requests
        PROVE  FlagAt(r, h)' = FlagAt(r, h) /\ (ExistsAt(r, h)' => ExistsAt(r, h))
    <3>1. r \in Objects
      BY RequestObjects
    <3>2. FlagAt(r, h)' = FlagAt(r, h)
      BY <2>1, <3>1 DEF FlagsAt
    <3>. QED  BY <3>1, <3>2 DEF DisconnectTip, ExistsAt, Exists
  <2>3. \A p \in Proposals : AliveAt(p, h)' \subseteq AliveAt(p, h)
    BY <2>2 DEF AliveAt
  <2>. QED  BY <2>1, <2>3, NoneRevived DEF GrantInv
<1>. QED  BY <1>2, <1>3

\* Before the first block no request asks for anything.
LEMMA GrantInit == Init => GrantInv
<1>. SUFFICES ASSUME Init PROVE GrantInv
  OBVIOUS
<1>1. HistoryInv /\ tip = 1
  BY HistoryInit DEF Init, tip
<1>2. ASSUME NEW p \in Proposals
      PROVE  Total(AliveAt(p, 1), Amount) <= Amount[p]
  <2>1. AliveAt(p, 1) = {}
    BY RequestObjects DEF Init, AliveAt, ExistsAt, Exists
  <2>2. Amount[p] \in Nat
    BY AmountType, ProposalObjects
  <2>. QED  BY <2>1, <2>2, TotalEmpty
<1>. QED  BY <1>1, <1>2 DEF GrantInv, Granted

\* A flag at the tip keeps every proposal within its grant.
LEMMA FlagGranted ==
  ASSUME GrantInv, NEW x \in Objects, NEW flag \in FlagsOf(x), GiveState(x, flag),
         x \in Requests /\ State(x) \in Dead => flag \in Dead, UNCHANGED txblock,
         tip' = tip
  PROVE  \A h \in 1..tip' : Granted(h)'
<1>1. ASSUME NEW h \in 1..tip
      PROVE  Granted(h)'
  <2>1. \A p \in Proposals : AliveAt(p, h)' \subseteq AliveAt(p, h)
    BY FlagRevivesNone DEF GrantInv
  <2>. QED  BY <2>1, NoneRevived DEF GrantInv
<1>. QED  BY <1>1

\* VoteStep never revives a rejected or an expired request.
LEMMA UpdateGranted ==
  ASSUME GrantInv,
         \/ \E r \in Requests : UpdateRequest(r)
         \/ \E p \in Proposals : UpdateProposal(p)
  PROVE  \A h \in 1..tip' : Granted(h)'
<1>1. HistoryInv /\ TypeOK
  BY DEF GrantInv, HistoryInv
<1>2. ASSUME NEW r \in Requests, UpdateRequest(r)
      PROVE  \A h \in 1..tip' : Granted(h)'
  <2>1. r \in Objects /\ FlagsOf(r) = RequestFlags /\ UNCHANGED txblock
    BY <1>2, RequestObjects DEF UpdateRequest
  <2>2. tip' = tip
    BY <1>1, <1>2, RequestVisit, ChainKept DEF tip
  <2>3. \/ UNCHANGED <<chain, mapState>>
        \/ \E flag \in FlagsOf(r) : GiveState(r, flag) /\ (State(r) \in Dead => flag \in Dead)
    <3>1. CASE ExpireRequest(r)
      BY <2>1, <3>1 DEF ExpireRequest, RequestFlags, Dead
    <3>2. CASE RejectRequest(r)
      BY <2>1, <3>2 DEF RejectRequest, RequestFlags, Dead
    <3>3. CASE AcceptRequest(r)
      <4>1. State(r) \notin Dead
        BY <3>3 DEF AcceptRequest, RequestPasses, Dead, NIL, REJECTED, EXPIRED
      <4>. QED  BY <2>1, <3>3, <4>1 DEF AcceptRequest, RequestFlags
    <3>4. CASE KeepRequest(r)
      BY <3>4 DEF KeepRequest
    <3>. QED  BY <1>2, <3>1, <3>2, <3>3, <3>4 DEF UpdateRequest
  <2>. QED  BY <2>1, <2>2, <2>3, OthersGranted, FlagGranted
<1>3. ASSUME NEW p \in Proposals, UpdateProposal(p)
      PROVE  \A h \in 1..tip' : Granted(h)'
  <2>1. p \in Objects /\ p \notin Requests /\ UNCHANGED txblock
    BY <1>3, ProposalObjects, ObjectsAssumption DEF UpdateProposal
  <2>2. tip' = tip
    BY <1>1, <1>3, ProposalVisit, ChainKept DEF tip
  <2>3. CASE \E flag \in FlagsOf(p) : GiveState(p, flag)
    BY <2>1, <2>2, <2>3, FlagGranted
  <2>4. CASE UNCHANGED mapState
    <3>1. ASSUME NEW h \in 1..tip
          PROVE  Granted(h)'
      <4>1. \A q \in Proposals : AliveAt(q, h)' \subseteq AliveAt(q, h)
        BY <2>1, <2>4 DEF AliveAt, ExistsAt, Exists, FlagAt
      <4>. QED  BY <4>1, NoneRevived DEF GrantInv
    <3>. QED  BY <2>2, <3>1
  <2>. QED  BY <1>1, <1>3, <2>3, <2>4, ProposalVisit
<1>. QED  BY <1>2, <1>3

\* Every step keeps every proposal within its grant.
LEMMA GrantStep == GrantInv /\ [Next]_vars => GrantInv'
<1>. SUFFICES ASSUME GrantInv, [Next]_vars PROVE GrantInv'
  OBVIOUS
<1>1. HistoryInv'
  BY HistoryStep DEF GrantInv
<1>. DEFINE Kept == \A h \in 1..tip' : Granted(h)'
<1>2. ASSUME NEW fork \in Forks, NEW step \in TimeSteps, NEW contribution \in Contributions,
             ConnectBlock(fork, step, contribution)
      PROVE  Kept
  BY <1>2, ConnectGranted DEF ConnectBlock
<1>3. ASSUME NEW r \in Requests, PayRequest(r) PROVE Kept
  <2>1. r \in Objects /\ PAID \in FlagsOf(r)
    BY RequestObjects DEF RequestFlags
  <2>2. GiveState(r, PAID) /\ State(r) \notin Dead
    BY <1>3 DEF PayRequest, Payable, GiveState, Dead, ACCEPTED, REJECTED, EXPIRED
  <2>3. UNCHANGED txblock /\ tip' = tip
    BY <1>3 DEF PayRequest, tip
  <2>. QED  BY <2>1, <2>2, <2>3, FlagGranted
<1>4. ASSUME NEW exclude \in Excludes, NEW tally \in [Counted -> Tallies],
             CountVotes(exclude, tally)
      PROVE  Kept
  BY <1>4, OthersGranted DEF CountVotes
<1>5. ASSUME RequestsDone \/ ConnectTipDone \/ UNCHANGED vars PROVE Kept
  BY <1>5, OthersGranted DEF RequestsDone, ConnectTipDone, vars
<1>6. ASSUME NEW p \in Proposals, AddProposal(p) PROVE Kept
  BY <1>6, OthersGranted
<1>7. Kept
  BY <1>2, <1>3, <1>4, <1>5, <1>6, RequestGranted, UpdateGranted, DisconnectGranted DEF Next
<1>. QED  BY <1>1, <1>7 DEF GrantInv

\* What GrantInv says is NotOverdrawn.
LEMMA GrantSays == GrantInv => NotOverdrawn
BY DEF GrantInv, Granted, AliveAt, Dead, NotOverdrawn

\* The requests of a proposal that are alive never ask for more than it was
\* granted: IsValidPaymentRequest counts every request VoteStep may still
\* accept, and VoteStep revives none.
THEOREM NotOverdrawnCorrect == Spec => []NotOverdrawn
BY GrantInit, GrantStep, GrantSays, PTL DEF Spec

-----------------------------------------------------------------------------
\* The balances.

\* A request that has drawn money was alive, at every block.
LEMMA DrawnIsAlive ==
  ASSUME HistoryInv, NEW h \in Nat, NEW p \in Proposals
  PROVE  DrawnOf(FlagsAt(h), p) \subseteq AliveAt(p, h)
<1>. SUFFICES ASSUME NEW r \in Requests, Parent[r] = p, FlagsAt(h)[r] \in Drawing
     PROVE  ExistsAt(r, h) /\ FlagAt(r, h) \notin Dead
  BY DEF DrawnOf, Dra, AliveAt
<1>1. r \in Objects /\ FlagAt(r, h) \in Drawing
  BY RequestObjects DEF FlagsAt
<1>2. FlagAt(r, h) # NIL /\ FlagAt(r, h) \notin Dead
  BY <1>1 DEF Drawing, Dead, NIL, ACCEPTED, PAID, REJECTED, EXPIRED
<1>3. PICK b \in DOMAIN mapState[r] : Height(b) <= h
  BY <1>2 DEF FlagAt, StateAt, GetLastState, Upto
<1>4. Exists(r) /\ Height(txblock[r]) <= Height(b)
  BY <1>1, <1>3 DEF HistoryInv, HistoryOnChain
<1>5. Height(b) \in Nat /\ Height(txblock[r]) \in Nat
  <2>1. Height(b) \in Nat
    BY <1>1, HistoryBlocks
  <2>2. txblock[r] \in Blocks \cup {NoBlock}
    BY <1>1 DEF HistoryInv, TypeOK
  <2>. QED  BY <2>1, <2>2, InputsAssumption DEF Blocks, Heights, NoBlock, Height
<1>. QED  BY <1>2, <1>3, <1>4, <1>5 DEF ExistsAt

\* What accepted proposals may still draw covers what a set of their live
\* requests, which holds all that drew money, asks for.
LEMMA CommittedCovers ==
  ASSUME BooksInv, GrantInv, NEW h \in 1..tip, NEW D, D \subseteq Requests,
         \A p \in Proposals : {r \in D : Parent[r] = p} \subseteq AliveAt(p, h)
  PROVE  Total({r \in D : Parent[r] \in Com(FlagsAt(h))}, Amount) <= Total(Com(FlagsAt(h)), Amount)
<1>. DEFINE C == Com(FlagsAt(h))
<1>1. C \subseteq Proposals /\ IsFiniteSet(C) /\ IsFiniteSet(D)
  BY BooksTypes, RequestsFinite DEF Com
<1>2. ASSUME NEW p \in C
      PROVE  Total({r \in D : Parent[r] = p}, Amount) <= Amount[p] /\ Amount[p] \in 0..MaxAmount
  <2>. DEFINE S == AliveAt(p, h)
              T == {r \in D : Parent[r] = p}
  <2>1. p \in Proposals /\ IsFiniteSet(S) /\ T \subseteq S
    BY <1>1, <1>2, RequestsFinite DEF AliveAt
  <2>2. Total(S, Amount) <= Amount[p]
    BY <2>1 DEF GrantInv, Granted
  <2>3. Amount[p] \in Nat /\ Amount[p] \in 0..MaxAmount
    BY <2>1, AmountType, ProposalObjects
  <2>. HIDE DEF S, T
  <2>4. Total(T, Amount) <= Total(S, Amount) /\ Total(T, Amount) \in Nat /\ Total(S, Amount) \in Nat
    BY <2>1, TotalSubset, TotalType, FS_Subset
  <2>5. Total(T, Amount) <= Amount[p]
    BY <2>2, <2>3, <2>4
  <2>. QED  BY <2>3, <2>5 DEF T
<1>. HIDE DEF C
<1>3. Total({r \in D : Parent[r] \in C}, Amount) <= Total(C, Amount)
  BY <1>1, <1>2, TotalByParent
<1>. QED  BY <1>3 DEF C

\* nCFLocked is not negative at any block.
LEMMA LockedNotNegative ==
  ASSUME BooksInv, GrantInv, NEW h \in 1..tip
  PROVE  chain[h].nCFLocked >= 0
<1>. DEFINE f == FlagsAt(h)
<1>1. HistoryInv /\ h \in Nat
  BY TipType DEF BooksInv, FavouredInv, HistoryInv
<1>2. Dra(f) \subseteq Requests
  BY DEF Dra
<1>3. \A p \in Proposals : {r \in Dra(f) : Parent[r] = p} \subseteq AliveAt(p, h)
  BY <1>1, DrawnIsAlive DEF DrawnOf
<1>4. Total({r \in Dra(f) : Parent[r] \in Com(f)}, Amount) <= Total(Com(f), Amount)
  BY <1>2, <1>3, CommittedCovers
<1>5. chain[h].nCFLocked = Total(Com(f), Amount) - Total(DrawnOfCom(f), Amount)
  BY DEF BooksInv, BooksAt, Books
<1>. HIDE DEF f
<1>6. Total(DrawnOfCom(f), Amount) <= Total(Com(f), Amount)
  BY <1>4 DEF DrawnOfCom
<1>. QED  BY <1>5, <1>6, BooksTypes

\* What a proposal has available is not negative.
LEMMA AvailableNotNegative ==
  ASSUME GrantInv, NEW p \in Proposals, ~IsSuper(p)
  PROVE  GetAvailable(p, FALSE) \in Nat
<1>1. HistoryInv /\ tip \in Nat /\ tip \in 1..tip
  BY TipType DEF GrantInv, HistoryInv
<1>. DEFINE T == DrawnOf(FlagsAt(tip), p)
            S == AliveAt(p, tip)
<1>2. GetAvailable(p, FALSE) = Amount[p] - Total(T, Amount)
  BY <1>1, AvailableIs
<1>3. T \subseteq S /\ IsFiniteSet(S)
  BY <1>1, DrawnIsAlive, RequestsFinite DEF AliveAt
<1>4. Total(S, Amount) <= Amount[p] /\ Amount[p] \in Nat
  BY <1>1, AmountType, ProposalObjects DEF GrantInv, Granted
<1>. HIDE DEF S, T
<1>5. Total(T, Amount) <= Total(S, Amount) /\ Total(T, Amount) \in Nat /\ Total(S, Amount) \in Nat
  BY <1>3, TotalSubset, TotalType, FS_Subset
<1>6. Amount[p] - Total(T, Amount) \in Nat
  BY <1>4, <1>5
<1>. QED  BY <1>2, <1>6, Zenon

SolventInv == BooksInv /\ GrantInv /\ \A h \in 1..tip : chain[h].nCFSupply >= 0

\* Every step that takes from nCFSupply makes sure that it suffices, and what
\* returns to it is not negative.
LEMMA SupplyStep ==
  ASSUME SolventInv, [Next]_vars
  PROVE  \A h \in 1..tip' : chain'[h].nCFSupply >= 0
<1>1. TypeOK /\ HistoryInv /\ BooksInv /\ GrantInv
  BY DEF SolventInv, BooksInv, FavouredInv, HistoryInv
<1>2. /\ chain \in Seq(BlockIndex) /\ tip \in Nat /\ tip \in 1..tip
      /\ chain[tip].nCFSupply \in Int /\ chain[tip].nCFLocked \in Int
      /\ \A h \in 1..tip : chain[h].nCFSupply >= 0
  <2>1. chain \in Seq(BlockIndex) /\ tip \in Nat /\ tip \in 1..tip
    BY <1>1, TipType DEF TypeOK
  <2>2. chain[tip].nCFSupply \in Int /\ chain[tip].nCFLocked \in Int
    BY <1>1, BooksNow
  <2>. QED  BY <2>1, <2>2 DEF SolventInv
<1>. DEFINE Kept == \A h \in 1..tip' : chain'[h].nCFSupply >= 0
<1>3. ASSUME UNCHANGED chain PROVE Kept
  BY <1>2, <1>3 DEF tip
<1>4. ASSUME NEW s \in Int, NEW l \in Int, SetBalances(s, l), s >= 0 PROVE Kept
  <2>1. tip' = tip /\ \A h \in 1..tip : chain'[h].nCFSupply = IF h = tip THEN s ELSE chain[h].nCFSupply
    BY <1>1, <1>4, SetBalancesType DEF tip
  <2>. QED  BY <1>2, <1>4, <2>1
<1>5. ASSUME NEW fork \in Forks, NEW step \in TimeSteps, NEW contribution \in Contributions,
             ConnectBlock(fork, step, contribution)
      PROVE  Kept
  <2>. DEFINE b == [fork      |-> fork,
                    time      |-> TipTime + step,
                    nCFSupply |-> chain[tip].nCFSupply + contribution,
                    nCFLocked |-> chain[tip].nCFLocked,
                    given     |-> chain[tip].given + contribution]
  <2>1. chain' = Append(chain, b)
    BY <1>5 DEF ConnectBlock
  <2>2. b.nCFSupply >= 0
    BY <1>2, InputsAssumption
  <2>. HIDE DEF b
  <2>3. tip' = tip + 1 /\ \A h \in 1..(tip + 1) : chain'[h] = IF h = tip + 1 THEN b ELSE chain[h]
    BY <1>2, <2>1 DEF tip
  <2>. QED  BY <1>2, <2>2, <2>3
<1>6. ASSUME NEW r \in Requests, UpdateRequest(r) PROVE Kept
  <2>1. CASE AcceptRequest(r) /\ ~IsSuper(Parent[r])
    <3>1. SetBalances(chain[tip].nCFSupply, chain[tip].nCFLocked - Amount[r])
      BY <2>1 DEF AcceptRequest
    <3>2. Amount[r] \in Nat
      BY AmountType, RequestObjects
    <3>3. chain[tip].nCFLocked - Amount[r] \in Int
      BY <1>2, <3>2
    <3>. QED  BY <1>2, <1>4, <3>1, <3>3
  <2>2. CASE UNCHANGED chain
    BY <1>3, <2>2
  <2>. QED  BY <1>6, <2>1, <2>2
            DEF UpdateRequest, ExpireRequest, RejectRequest, AcceptRequest, KeepRequest
<1>7. ASSUME NEW p \in Proposals, UpdateProposal(p) PROVE Kept
  <2>. DEFINE s == chain[tip].nCFSupply
              l == chain[tip].nCFLocked
              a == GetAvailable(p, FALSE)
  <2>1. ~IsSuper(p) => a \in Nat
    BY <1>1, AvailableNotNegative, Zenon
  <2>2. s \in Int /\ l \in Int /\ s >= 0
    BY <1>2
  <2>3. CASE ReleaseProposal(p) /\ ~IsSuper(p)
    <3>1. SetBalances(s + a, l - a)
      BY <2>3 DEF ReleaseProposal
    <3>. HIDE DEF s, l, a
    <3>2. s + a \in Int /\ l - a \in Int /\ s + a >= 0
      BY <2>1, <2>2, <2>3
    <3>. QED  BY <1>4, <3>1, <3>2
  <2>4. CASE AcceptProposal(p) /\ ~IsSuper(p)
    <3>1. SetBalances(s - a, l + a) /\ s >= a
      BY <2>4 DEF AcceptProposal, FundsSuffice
    <3>. HIDE DEF s, l, a
    <3>2. s - a \in Int /\ l + a \in Int /\ s - a >= 0
      BY <2>1, <2>2, <2>4, <3>1
    <3>. QED  BY <1>4, <3>1, <3>2
  <2>5. CASE UNCHANGED chain
    BY <1>3, <2>5
  <2>. HIDE DEF s, l, a
  <2>. QED  BY <1>7, <2>3, <2>4, <2>5
            DEF UpdateProposal, DelayProposal, ReleaseProposal, ExpireProposal, RejectProposal,
                AcceptProposal, SuspendProposal, KeepProposal
<1>8. ASSUME DisconnectTip PROVE Kept
  <2>1. tip' = tip - 1 /\ \A h \in 1..(tip - 1) : chain'[h] = chain[h]
    BY <1>1, <1>8, ShorterChain
  <2>. QED  BY <1>2, <2>1
<1>9. ASSUME NEW p \in Proposals, AddProposal(p) PROVE Kept
  BY <1>3, <1>9 DEF AddProposal
<1>10. ASSUME NEW r \in Requests, AddPaymentRequest(r) \/ PayRequest(r) PROVE Kept
  BY <1>3, <1>10 DEF AddPaymentRequest, PayRequest
<1>11. ASSUME NEW exclude \in Excludes, NEW tally \in [Counted -> Tallies],
              CountVotes(exclude, tally)
       PROVE  Kept
  BY <1>3, <1>11 DEF CountVotes
<1>12. ASSUME RequestsDone \/ ConnectTipDone \/ UNCHANGED vars PROVE Kept
  BY <1>3, <1>12 DEF RequestsDone, ConnectTipDone, vars
<1>. QED  BY <1>5, <1>6, <1>7, <1>8, <1>9, <1>10, <1>11, <1>12 DEF Next

\* The fund starts solvent...
LEMMA SolventInit == Init => SolventInv
<1>1. Init => \A h \in 1..tip : chain[h].nCFSupply >= 0
  BY DEF Init, tip
<1>. QED  BY <1>1, BooksInit, GrantInit DEF SolventInv

\* ...and stays so.
LEMMA SolventStep == SolventInv /\ [Next]_vars => SolventInv'
<1>1. SolventInv /\ [Next]_vars => BooksInv' /\ GrantInv'
  BY BooksStep, GrantStep DEF SolventInv
<1>2. SolventInv /\ [Next]_vars => (\A h \in 1..tip : chain[h].nCFSupply >= 0)'
  BY SupplyStep
<1>. QED  BY <1>1, <1>2 DEF SolventInv

\* What SolventInv says is FundSolvent.
LEMMA SolventSays == SolventInv => FundSolvent
BY LockedNotNegative DEF SolventInv, FundSolvent

\* A request that is voted on is covered by what its proposal has left and by
\* what the fund has locked.
LEMMA PendingCovered == SolventInv => PendingIsCovered
<1>. SUFFICES ASSUME SolventInv, NEW r \in Requests, Exists(r), State(r) = NIL,
                     State(Parent[r]) \in Locking
     PROVE  /\ Amount[r] <= GetAvailable(Parent[r], FALSE)
            /\ IsSuper(Parent[r]) \/ Amount[r] <= chain[tip].nCFLocked
  BY DEF PendingIsCovered, Locking
<1>. DEFINE p == Parent[r]
            f == FlagsAt(tip)
            S == AliveAt(p, tip)
            T == {q \in RequestsOf(p) : State(q) \in {ACCEPTED, PAID}}
<1>1. HistoryInv /\ BooksInv /\ GrantInv /\ tip \in Nat /\ tip \in 1..tip /\ tip >= tip
  BY TipType DEF SolventInv, BooksInv, FavouredInv, HistoryInv
<1>2. /\ p \in Proposals /\ p \in Objects /\ r \in Objects /\ Amount[r] \in 0..MaxAmount
      /\ Amount[r] \in Nat /\ Amount[p] \in Nat
  BY RequestObjects, ProposalObjects, AmountType
<1>3. NIL \notin Drawing /\ NIL \notin Dead /\ \A s \in Drawing : s \notin Dead
  BY DEF Drawing, Dead, NIL, ACCEPTED, PAID, REJECTED, EXPIRED
<1>4. S = {q \in RequestsOf(p) : State(q) \notin Dead}
  BY <1>1, <1>2, AliveNow
<1>5. T \cup {r} \subseteq S /\ r \notin T /\ T \subseteq Requests
  BY <1>3, <1>4 DEF RequestsOf, Drawing
<1>6. IsFiniteSet(S) /\ IsFiniteSet(T)
  BY <1>5, RequestsFinite DEF AliveAt
<1>7. Total(S, Amount) <= Amount[p]
  BY <1>1, <1>2 DEF GrantInv, Granted
<1>8. GetAvailable(p, FALSE) = Amount[p] - Total(T, Amount)
  BY DEF GetAvailable
<1>9. Amount[r] <= Amount[p] - Total(T, Amount)
  <2>. HIDE DEF S, T, p
  <2>1. Total(T \cup {r}, Amount) = Total(T, Amount) + Amount[r]
    BY <1>2, <1>5, <1>6, TotalAdd
  <2>2. Total(T \cup {r}, Amount) <= Total(S, Amount)
    BY <1>5, <1>6, TotalSubset
  <2>3. Total(T, Amount) \in Nat /\ Total(S, Amount) \in Nat
    BY <1>6, TotalType
  <2>. QED  BY <1>2, <1>7, <2>1, <2>2, <2>3
<1>10. Amount[r] <= GetAvailable(p, FALSE)
  BY <1>8, <1>9, Zenon
<1>11. ASSUME ~IsSuper(p)
       PROVE  Amount[r] <= chain[tip].nCFLocked
  <2>. DEFINE D == Dra(f) \cup {r}
              E == {q \in D : Parent[q] \in Com(f)}
  <2>1. /\ f[r] = NIL /\ f[p] \in Locking
        /\ chain[tip].nCFLocked = Total(Com(f), Amount) - Total(DrawnOfCom(f), Amount)
    BY <1>1, <1>2, BooksNow DEF Books
  <2>2. D \subseteq Requests
    BY DEF Dra
  <2>3. ASSUME NEW q \in Proposals
        PROVE  {x \in D : Parent[x] = q} \subseteq AliveAt(q, tip)
    <3>1. DrawnOf(f, q) \subseteq AliveAt(q, tip)
      BY <1>1, DrawnIsAlive
    <3>2. r \in S
      BY <1>5
    <3>. QED  BY <3>1, <3>2 DEF DrawnOf
  <2>4. Total(E, Amount) <= Total(Com(f), Amount)
    BY <1>1, <2>2, <2>3, CommittedCovers
  <2>. HIDE DEF f
  <2>5. p \in Com(f)
    BY <1>2, <1>11, <2>1 DEF Com
  <2>6. E = DrawnOfCom(f) \cup {r} /\ r \notin DrawnOfCom(f)
    BY <1>3, <2>1, <2>5 DEF DrawnOfCom, Dra
  <2>7. Total(E, Amount) = Total(DrawnOfCom(f), Amount) + Amount[r]
    BY <1>2, <2>6, BooksTypes, TotalAdd
  <2>8. Total(Com(f), Amount) \in Nat /\ Total(DrawnOfCom(f), Amount) \in Nat
    BY BooksTypes
  <2>. DEFINE c == Total(Com(f), Amount)
              d == Total(DrawnOfCom(f), Amount)
              l == chain[tip].nCFLocked
              a == Amount[r]
  <2>. HIDE DEF E
  <2>9. a \in Nat /\ c \in Nat /\ d \in Nat /\ l = c - d /\ d + a <= c
    BY <1>2, <2>1, <2>4, <2>7, <2>8
  <2>. HIDE DEF a, c, d, l
  <2>10. a <= l
    BY <2>9
  <2>. QED  BY <2>10 DEF a, l
<1>. QED  BY <1>10, <1>11, Zenon

\* Neither balance of the fund is ever negative: the subtraction that VoteStep
\* does not guard, when an accepted proposal expires, takes no more than is
\* locked.
THEOREM SolventCorrect == Spec => []FundSolvent
BY SolventInit, SolventStep, SolventSays, PTL DEF Spec

\* The two balance checks VoteStep makes before it accepts a request never
\* stop a request that is in the view and whose proposal is accepted.
THEOREM PendingCorrect == Spec => []PendingIsCovered
BY SolventInit, SolventStep, PendingCovered, PTL DEF Spec
=============================================================================
