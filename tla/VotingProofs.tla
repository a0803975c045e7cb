---------------------------- MODULE VotingProofs ----------------------------
(***************************************************************************)
(* Voting ends in time: the proof that in every reachable state of         *)
(* CommunityFund no proposal or request is voted on for more cycles than   *)
(* it may be.                                                              *)
(***************************************************************************)
EXTENDS CommunityFundProofs

\* nVotingCycle of an undecided proposal is that of the block below the tip
\* until VoteStep visits it, and that of the tip afterwards.
CycleOf(p) ==
  /\ ~Exists(p) => nVotingCycle[p] = 0
  /\ Exists(p) /\ State(p) = NIL =>
       nVotingCycle[p] = IF ~Fresh(p) THEN VotingCycles(p, tip)
                         ELSE IF txblock[p] = TipBlock THEN 0
                         ELSE VotingCycles(p, tip - 1)

CycleInv == \A p \in Proposals : CycleOf(p)

\* No undecided object was voted on for too long at the block of height h.
InTime(x, h) == h \div CycleLength - Height(txblock[x]) \div CycleLength <= MaxVotingCycles(x)

InTimeAt(h) ==
  (h + 1) % CycleLength = 0 =>
    \A x \in Objects : ExistsAt(x, h) /\ FlagAt(x, h) = NIL => InTime(x, h)

\* Voting ended in time at every connected block, and at the one that connects
\* for the objects already visited.
BoundInv ==
  /\ \A h \in 1..Connected : InTimeAt(h)
  /\ pc # "idle" /\ EndOfCycle =>
       \A x \in Objects : ~Fresh(x) /\ Exists(x) /\ State(x) = NIL => InTime(x, tip)

VoteInv == HistoryInv /\ CycleInv /\ BoundInv

\* Division with remainder.
LEMMA DivMod ==
  ASSUME NEW a \in Int, NEW c \in Nat, c > 0
  PROVE  /\ a = c * (a \div c) + (a % c)
         /\ a \div c \in Int /\ a % c \in Int /\ a % c >= 0 /\ a % c < c
BY SMT

\* A multiple of c that is closer to 0 than c is 0.
LEMMA OneMultiple ==
  ASSUME NEW c \in Nat, c > 0, NEW q \in Int, NEW p \in Int, NEW s \in Int,
         c * q - c * p = s, s > -c, s < c
  PROVE  q = p
<1>0. ASSUME NEW k \in Int, k >= 1 PROVE c * k >= c
  BY <1>0, SMT
<1>1. CASE q >= p + 1
  <2>1. c * (q - p) >= c
    BY <1>0, <1>1
  <2>. QED  BY <2>1
<1>2. CASE p >= q + 1
  <2>1. c * (p - q) >= c
    BY <1>0, <1>2
  <2>. QED  BY <2>1
<1>. QED  BY <1>1, <1>2

\* The last two blocks of a cycle are blocks of one cycle.
LEMMA LastTwo ==
  ASSUME NEW c \in Nat, c > 1, NEW n \in Nat, (n + 1) % c = 0
  PROVE  (n - 1) \div c = n \div c
<1>. DEFINE q == n \div c
            r == n % c
            p == (n - 1) \div c
            s == (n - 1) % c
            t == (n + 1) \div c
<1>1. n = c * q + r /\ q \in Int /\ r \in Int /\ r >= 0 /\ r < c
  BY DivMod
<1>2. n - 1 = c * p + s /\ p \in Int /\ s \in Int /\ s >= 0 /\ s < c
  BY DivMod
<1>3. n + 1 = c * t /\ t \in Int
  <2>1. n + 1 = c * t + ((n + 1) % c) /\ t \in Int
    BY DivMod
  <2>. HIDE DEF t
  <2>. QED  BY <2>1
<1>. HIDE DEF q, r, p, s, t
<1>4. c * q \in Int /\ c * p \in Int /\ c * t \in Int
  BY <1>1, <1>2, <1>3
<1>5. r # 0
  <2>1. SUFFICES ASSUME r = 0 PROVE FALSE
    OBVIOUS
  <2>2. c * t - c * q = 1
    BY <1>1, <1>3, <1>4, <2>1
  <2>3. t = q
    BY <1>1, <1>3, <2>2, OneMultiple
  <2>. QED  BY <1>4, <2>2, <2>3
<1>6. c * q - c * p = s - r + 1
  BY <1>1, <1>2, <1>4
<1>7. q = p
  BY <1>1, <1>2, <1>5, <1>6, OneMultiple
<1>. QED  BY <1>7 DEF q, p

\* What the numbers of cycles are made of.
LEMMA CycleNumbers ==
  ASSUME HistoryInv, NEW x \in Objects, NEW h \in Int
  PROVE  /\ h \div CycleLength \in Int /\ Height(txblock[x]) \div CycleLength \in Int
         /\ CycleLength \in Nat /\ CycleLength > 1 /\ RequestMaxCycles <= CycleLength
         /\ ProposalMaxCycles \in Nat /\ RequestMaxCycles \in Nat
<1>1. CycleLength \in Nat /\ CycleLength > 1 /\ RequestMaxCycles <= CycleLength
  BY CycleParameters, CyclesAssumption
<1>2. txblock[x] \in Blocks \cup {NoBlock}
  BY DEF HistoryInv, TypeOK
<1>3. Height(txblock[x]) \in Int
  BY <1>2, InputsAssumption DEF Blocks, Heights, NoBlock, Height
<1>. QED  BY <1>1, <1>3, DivMod, CycleParameters

\* A request that did not expire was not voted on for too long.
LEMMA RequestInTime ==
  ASSUME HistoryInv, NEW r \in Requests, EndOfCycle, State(r) = NIL, ~RequestExpires(r)
  PROVE  InTime(r, tip)
<1>1. r \in Objects /\ r \notin Proposals /\ tip \in Int
  BY RequestObjects, TipType DEF HistoryInv
<1>. DEFINE d == tip \div CycleLength - Height(txblock[r]) \div CycleLength
<1>2. d \in Int
  BY <1>1, CycleNumbers
<1>3. ~(RequestCycle(r) > RequestMaxCycles)
  BY DEF RequestExpires, IsExpiredRequest, NIL, ACCEPTED, REJECTED, PAID
<1>4. RequestCycle(r) = MinOf(d, CycleLength + 1)
  BY <1>1 DEF RequestCycle, VotingCycles
<1>. HIDE DEF d
<1>5. d <= RequestMaxCycles
  BY <1>1, <1>2, <1>3, <1>4, CycleNumbers DEF MinOf
<1>. QED  BY <1>1, <1>5 DEF InTime, MaxVotingCycles, d

\* Nor was a proposal, which is judged with the cycle of the block before.
LEMMA ProposalInTime ==
  ASSUME HistoryInv, CycleInv, NEW p \in Proposals, Exists(p), Fresh(p), EndOfCycle,
         State(p) = NIL, ~ProposalExpires(p)
  PROVE  InTime(p, tip)
<1>1. p \in Objects /\ tip \in Nat /\ Height(TipBlock) = tip
  BY ProposalObjects, TipType DEF HistoryInv
<1>2. /\ CycleLength \in Nat /\ CycleLength > 1 /\ ProposalMaxCycles \in Nat
      /\ tip \div CycleLength \in Int /\ Height(txblock[p]) \div CycleLength \in Int
  BY <1>1, CycleNumbers
<1>3. CASE txblock[p] = TipBlock
  <2>1. tip \div CycleLength - Height(txblock[p]) \div CycleLength = 0
    BY <1>1, <1>2, <1>3
  <2>. QED  BY <1>2, <2>1 DEF InTime, MaxVotingCycles
<1>4. CASE txblock[p] # TipBlock
  <2>. DEFINE d == (tip - 1) \div CycleLength - Height(txblock[p]) \div CycleLength
  <2>1. (tip - 1) \div CycleLength = tip \div CycleLength
    BY <1>1, <1>2, LastTwo DEF EndOfCycle
  <2>2. d \in Int
    BY <1>2, <2>1
  <2>3. nVotingCycle[p] = MinOf(d, ProposalMaxCycles + 1)
    BY <1>4 DEF CycleInv, CycleOf, VotingCycles
  <2>4. ~(nVotingCycle[p] > ProposalMaxCycles)
    BY DEF ProposalExpires, IsExpiredProposal
  <2>. HIDE DEF d
  <2>5. d <= ProposalMaxCycles
    BY <1>2, <2>2, <2>3, <2>4 DEF MinOf
  <2>. QED  BY <2>1, <2>5 DEF InTime, MaxVotingCycles, d
<1>. QED  BY <1>3, <1>4

\* A step that leaves a proposal alone leaves its cycle right.
LEMMA CycleSame ==
  ASSUME NEW p \in Proposals, CycleOf(p), tip' = tip, TipBlock' = TipBlock,
         txblock'[p] = txblock[p], mapState'[p] = mapState[p],
         nVotingCycle'[p] = nVotingCycle[p], Exists(p) => (Fresh(p)' <=> Fresh(p))
  PROVE  CycleOf(p)'
<1>1. (Exists(p)' <=> Exists(p)) /\ State(p)' = State(p)
  BY DEF Exists, State
<1>2. VotingCycles(p, tip)' = VotingCycles(p, tip) /\ VotingCycles(p, tip - 1)' = VotingCycles(p, tip - 1)
  BY DEF VotingCycles
<1>. QED  BY <1>1, <1>2 DEF CycleOf

\* Before the loop over the proposals none of them has been visited.
LEMMA ProposalsFresh ==
  ASSUME NEW p \in Proposals
  PROVE  /\ pc \in {"txs", "coinbase", "requests"} => Fresh(p)
         /\ pc' \in {"txs", "coinbase", "requests"} => Fresh(p)'
         /\ pc = "idle" => ~Fresh(p)
         /\ pc' = "idle" => ~Fresh(p)'
BY DEF Fresh

\* A new block finds the cycles of the block below.
LEMMA CycleConnect ==
  ASSUME HistoryInv, CycleInv, NEW fork \in Forks, NEW step \in TimeSteps,
         NEW contribution \in Contributions, ConnectBlock(fork, step, contribution)
  PROVE  CycleInv'
<1>1. pc = "idle" /\ pc' = "txs" /\ UNCHANGED <<txblock, mapState, nVotingCycle>>
  BY DEF ConnectBlock
<1>2. tip \in Nat /\ tip' = tip + 1 /\ Height(TipBlock') = tip + 1
  BY TipConnected, TipType DEF HistoryInv, TipBlock, Height
<1>3. ASSUME NEW p \in Proposals PROVE CycleOf(p)'
  <2>1. CycleOf(p) /\ p \in Objects
    BY ProposalObjects DEF CycleInv
  <2>2. (Exists(p)' <=> Exists(p)) /\ State(p)' = State(p)
    BY <1>1 DEF Exists, State
  <2>3. ~Fresh(p) /\ Fresh(p)'
    BY <1>1, ProposalsFresh
  <2>4. Exists(p) => txblock'[p] # TipBlock'
    BY <1>1, <1>2, <2>1, CreationHeight
  <2>5. VotingCycles(p, tip - 1)' = VotingCycles(p, tip)
    <3>1. tip' - 1 = tip
      BY <1>2
    <3>. QED  BY <1>1, <3>1 DEF VotingCycles
  <2>. QED  BY <1>1, <2>1, <2>2, <2>3, <2>4, <2>5 DEF CycleOf
<1>. QED  BY <1>3 DEF CycleInv

\* The visit of a proposal brings its cycle up to date.
LEMMA CycleProposal ==
  ASSUME HistoryInv, CycleInv, NEW q \in Proposals, UpdateProposal(q)
  PROVE  CycleInv'
<1>1. TypeOK /\ q \in Objects /\ q \in todo /\ Exists(q)
  BY ProposalObjects DEF HistoryInv, TodoExists, UpdateProposal, Visited
<1>2. /\ pc = "proposals" /\ pc' = pc /\ todo' = todo \ {q} /\ UNCHANGED txblock
      /\ nVotingCycle'[q] = IF State(q) = NIL THEN VotingCycles(q, tip) ELSE nVotingCycle[q]
      /\ \A x \in Objects : x # q => nVotingCycle'[x] = nVotingCycle[x]
  BY <1>1 DEF UpdateProposal, TypeOK
<1>3. tip' = tip /\ TipBlock' = TipBlock
  BY <1>1, ProposalVisit, TipKept
<1>4. /\ UNCHANGED mapState \/ \E flag \in FlagsOf(q) : GiveState(q, flag)
      /\ \A x \in Objects : x # q => mapState'[x] = mapState[x]
  BY <1>1, ProposalVisit, StateGivenNow
<1>5. State(q)' = NIL => State(q) = NIL
  <2>1. CASE UNCHANGED mapState
    BY <2>1 DEF State
  <2>2. ASSUME NEW flag \in FlagsOf(q), GiveState(q, flag) PROVE State(q)' # NIL
    BY <1>1, <2>2, StateGivenNow, NilIsNoFlag
  <2>. QED  BY <1>4, <2>1, <2>2
<1>6. ASSUME NEW p \in Proposals PROVE CycleOf(p)'
  <2>1. CASE p = q
    <3>1. ~Fresh(q)' /\ Exists(q)'
      BY <1>1, <1>2 DEF Fresh, Exists
    <3>2. VotingCycles(q, tip)' = VotingCycles(q, tip)
      BY <1>2, <1>3 DEF VotingCycles
    <3>. QED  BY <1>2, <1>5, <2>1, <3>1, <3>2 DEF CycleOf
  <2>2. CASE p # q
    <3>1. Fresh(p)' <=> Fresh(p)
      BY <1>2, <2>2 DEF Fresh
    <3>2. CycleOf(p) /\ p \in Objects
      BY ProposalObjects DEF CycleInv
    <3>. QED  BY <1>2, <1>3, <1>4, <2>2, <3>1, <3>2, CycleSame
  <2>. QED  BY <2>1, <2>2
<1>. QED  BY <1>6 DEF CycleInv

\* Disconnecting the tip gives undecided proposals the cycle of the block below.
LEMMA CycleDisconnect ==
  ASSUME HistoryInv, DisconnectTip
  PROVE  CycleInv'
<1>1. pc' = "idle" /\ tip' = tip - 1
  BY ShorterChain DEF DisconnectTip, HistoryInv
<1>2. ASSUME NEW p \in Proposals PROVE CycleOf(p)'
  <2>1. p \in Objects /\ ~Fresh(p)'
    BY <1>1, ProposalObjects, ProposalsFresh
  <2>2. /\ txblock'[p] = IF txblock[p] = TipBlock THEN NoBlock ELSE txblock[p]
        /\ mapState'[p] = Undone(p)
        /\ nVotingCycle'[p] = IF txblock[p] \in {NoBlock, TipBlock} THEN 0
                              ELSE IF GetLastState(Undone(p)) = NIL THEN VotingCycles(p, tip - 1)
                              ELSE nVotingCycle[p]
    BY <2>1 DEF DisconnectTip
  <2>3. CASE ~Exists(p)'
    BY <2>2, <2>3 DEF CycleOf, Exists
  <2>4. CASE Exists(p)'
    <3>1. txblock'[p] = txblock[p] /\ txblock[p] \notin {NoBlock, TipBlock}
      BY <2>2, <2>4 DEF Exists
    <3>2. VotingCycles(p, tip)' = VotingCycles(p, tip - 1)
      BY <1>1, <3>1 DEF VotingCycles
    <3>3. State(p)' = GetLastState(Undone(p))
      BY <2>2 DEF State
    <3>. QED  BY <2>1, <2>2, <2>4, <3>1, <3>2, <3>3 DEF CycleOf
  <2>. QED  BY <2>3, <2>4
<1>. QED  BY <1>2 DEF CycleInv

\* CycleInv is kept by every step.
LEMMA CycleStep == HistoryInv /\ CycleInv /\ [Next]_vars => CycleInv'
<1>. SUFFICES ASSUME HistoryInv, CycleInv, [Next]_vars PROVE CycleInv'
  OBVIOUS
<1>0. TypeOK
  BY DEF HistoryInv
<1>1. ASSUME UNCHANGED <<chain, txblock, mapState, nVotingCycle>>,
             \A p \in Proposals : Exists(p) => (Fresh(p)' <=> Fresh(p))
      PROVE  CycleInv'
  BY <1>1, CycleSame DEF CycleInv, tip, TipBlock
<1>2. ASSUME NEW q \in Proposals, AddProposal(q) PROVE CycleInv'
  <2>1. /\ pc = "txs" /\ pc' = "txs" /\ ~Exists(q)
        /\ tip' = tip /\ TipBlock' = TipBlock /\ UNCHANGED <<mapState, nVotingCycle>>
    BY <1>2 DEF AddProposal, tip, TipBlock
  <2>2. txblock'[q] = TipBlock /\ \A x \in Objects : x # q => txblock'[x] = txblock[x]
    BY <1>0, <1>2, ProposalObjects DEF AddProposal, TypeOK
  <2>3. TipBlock # NoBlock
    BY <1>0, TipType DEF NoBlock, Height
  <2>4. ASSUME NEW p \in Proposals PROVE CycleOf(p)'
    <3>1. CycleOf(p) /\ p \in Objects /\ Fresh(p) /\ Fresh(p)'
      BY <2>1, ProposalObjects, ProposalsFresh DEF CycleInv
    <3>2. CASE p = q
      BY <2>1, <2>2, <2>3, <3>1, <3>2 DEF CycleOf, Exists
    <3>3. CASE p # q
      BY <2>1, <2>2, <3>1, <3>3, CycleSame
    <3>. QED  BY <3>2, <3>3
  <2>. QED  BY <2>4 DEF CycleInv
<1>3. ASSUME NEW r \in Requests, AddPaymentRequest(r) PROVE CycleInv'
  <2>1. /\ pc = "txs" /\ pc' = "txs" /\ tip' = tip /\ TipBlock' = TipBlock
        /\ UNCHANGED <<mapState, nVotingCycle>>
    BY <1>3 DEF AddPaymentRequest, tip, TipBlock
  <2>2. ASSUME NEW p \in Proposals PROVE txblock'[p] = txblock[p]
    BY <1>0, <1>3, ProposalObjects, RequestObjects DEF AddPaymentRequest, TypeOK
  <2>. QED  BY <2>1, <2>2, CycleSame, ProposalsFresh DEF CycleInv
<1>4. ASSUME NEW r \in Requests, PayRequest(r) PROVE CycleInv'
  <2>1. /\ pc \in {"txs", "coinbase"} /\ pc' = "coinbase" /\ tip' = tip /\ TipBlock' = TipBlock
        /\ UNCHANGED <<txblock, nVotingCycle>>
    BY <1>4 DEF PayRequest, tip, TipBlock
  <2>2. ASSUME NEW p \in Proposals PROVE mapState'[p] = mapState[p]
    BY <1>0, <1>4, ProposalObjects, RequestObjects DEF PayRequest, TypeOK
  <2>. QED  BY <2>1, <2>2, CycleSame, ProposalsFresh DEF CycleInv
<1>5. ASSUME NEW exclude \in Excludes, NEW tally \in [Counted -> Tallies],
             CountVotes(exclude, tally)
      PROVE  CycleInv'
  <2>1. pc \in {"txs", "coinbase"} /\ pc' = "requests"
    BY <1>5 DEF CountVotes
  <2>. QED  BY <1>1, <1>5, <2>1, ProposalsFresh DEF CountVotes
<1>6. ASSUME NEW r \in Requests, UpdateRequest(r) PROVE CycleInv'
  <2>1. pc = "requests" /\ pc' = "requests" /\ UNCHANGED txblock /\ r \in Objects
    BY <1>6, RequestObjects DEF UpdateRequest
  <2>2. tip' = tip /\ TipBlock' = TipBlock
    BY <1>0, <1>6, RequestVisit, TipKept
  <2>3. ASSUME NEW p \in Proposals
        PROVE  mapState'[p] = mapState[p] /\ nVotingCycle'[p] = nVotingCycle[p]
    <3>1. p \in Objects /\ p # r
      BY ProposalObjects, RequestObjects
    <3>2. nVotingCycle'[p] = nVotingCycle[p]
      BY <1>0, <1>6, <3>1 DEF UpdateRequest, TypeOK
    <3>3. UNCHANGED mapState \/ \E flag : GiveState(r, flag)
      BY <1>0, <1>6, RequestVisit
    <3>. QED  BY <2>1, <3>1, <3>2, <3>3, StateGivenNow
  <2>. QED  BY <2>1, <2>2, <2>3, CycleSame, ProposalsFresh DEF CycleInv
<1>7. CASE RequestsDone
  <2>1. pc = "requests" /\ pc' = "proposals" /\ todo' = {p \in Proposals : Exists(p)}
    BY <1>7 DEF RequestsDone
  <2>2. \A p \in Proposals : Exists(p) => Fresh(p)' /\ Fresh(p)
    BY <2>1 DEF Fresh
  <2>. QED  BY <1>1, <1>7, <2>2 DEF RequestsDone
<1>8. CASE ConnectTipDone
  <2>1. \A p \in Proposals : ~Fresh(p) /\ ~Fresh(p)'
    BY <1>8 DEF ConnectTipDone, Fresh
  <2>. QED  BY <1>1, <1>8, <2>1 DEF ConnectTipDone
<1>9. CASE UNCHANGED vars
  BY <1>1, <1>9 DEF vars, Fresh
<1>. QED  BY <1>2, <1>3, <1>4, <1>5, <1>6, <1>7, <1>8, <1>9, CycleConnect, CycleProposal,
             CycleDisconnect DEF Next

-----------------------------------------------------------------------------
\* In time at the tip, in the words of the histories and in those of the code.
LEMMA InTimeNow ==
  HistoryInv => ( InTimeAt(tip) <=> ( EndOfCycle =>
                    \A x \in Objects : Exists(x) /\ State(x) = NIL => InTime(x, tip) ) )
<1>. SUFFICES ASSUME HistoryInv
              PROVE  InTimeAt(tip) <=> ( EndOfCycle =>
                       \A x \in Objects : Exists(x) /\ State(x) = NIL => InTime(x, tip) )
  OBVIOUS
<1>1. tip \in Nat
  BY TipType DEF HistoryInv
<1>2. \A x \in Objects : FlagAt(x, tip) = State(x)
  BY <1>1, FlagsNow DEF FlagsAt
<1>. QED  BY <1>2, ExistsAtTip DEF InTimeAt, EndOfCycle

\* A block stays in time as long as the flags and the objects below it stay.
LEMMA InTimeKept ==
  ASSUME NEW h, InTimeAt(h), FlagsAt(h)' = FlagsAt(h),
         \A x \in Objects : ExistsAt(x, h)' => ExistsAt(x, h) /\ txblock'[x] = txblock[x]
  PROVE  InTimeAt(h)'
<1>1. ASSUME NEW x \in Objects PROVE FlagAt(x, h)' = FlagAt(x, h)
  BY DEF FlagsAt
<1>2. ASSUME NEW x \in Objects, txblock'[x] = txblock[x] PROVE InTime(x, h)' <=> InTime(x, h)
  BY <1>2 DEF InTime
<1>. QED  BY <1>1, <1>2 DEF InTimeAt

\* What a step of a block under way must show.
LEMMA BoundInBlock ==
  ASSUME HistoryInv, BoundInv, pc # "idle", pc' # "idle", tip' = tip,
         \/ UNCHANGED mapState
         \/ \E x \in Objects : \E flag \in FlagsOf(x) : GiveState(x, flag),
         \A x \in Objects : txblock'[x] = txblock[x] \/ (~Exists(x) /\ txblock'[x] = TipBlock),
         EndOfCycle => \A x \in Objects : ~Fresh(x)' /\ Exists(x)' /\ State(x)' = NIL =>
                                            InTime(x, tip) /\ txblock'[x] = txblock[x]
  PROVE  BoundInv'
<1>1. Connected = tip - 1 /\ Connected' = tip - 1
  BY DEF Connected
<1>2. ASSUME NEW h \in 1..(tip - 1) PROVE InTimeAt(h)'
  <2>1. InTimeAt(h)
    BY <1>1 DEF BoundInv
  <2>. QED  BY <2>1, BelowTip, InTimeKept
<1>3. ASSUME NEW x \in Objects, txblock'[x] = txblock[x], InTime(x, tip) PROVE InTime(x, tip)'
  BY <1>3 DEF InTime
<1>4. EndOfCycle' <=> EndOfCycle
  BY DEF EndOfCycle
<1>5. EndOfCycle' => \A x \in Objects : ~Fresh(x)' /\ Exists(x)' /\ State(x)' = NIL => InTime(x, tip)'
  BY <1>3, <1>4
<1>. QED  BY <1>1, <1>2, <1>5 DEF BoundInv

\* The visit of a request at the end of a cycle.
LEMMA BoundRequest ==
  ASSUME HistoryInv, BoundInv, NEW r \in Requests, UpdateRequest(r)
  PROVE  BoundInv'
<1>1. TypeOK /\ r \in Objects /\ r \notin Proposals
  BY RequestObjects DEF HistoryInv
<1>2. pc = "requests" /\ pc' = pc /\ todo' = todo \ {r} /\ UNCHANGED txblock
  BY DEF UpdateRequest
<1>3. tip' = tip /\ (UNCHANGED mapState \/ \E flag \in FlagsOf(r) : GiveState(r, flag))
  BY <1>1, RequestVisit, TipKept
<1>4. ASSUME EndOfCycle, NEW x \in Objects, ~Fresh(x)', Exists(x)', State(x)' = NIL
      PROVE  InTime(x, tip)
  <2>1. CASE x = r
    <3>1. ~GiveState(r, EXPIRED) /\ ~GiveState(r, REJECTED) /\ ~GiveState(r, ACCEPTED)
      BY <1>1, <1>4, <2>1, StateGivenNow DEF NIL, EXPIRED, REJECTED, ACCEPTED
    <3>2. KeepRequest(r)
      BY <3>1 DEF UpdateRequest, ExpireRequest, RejectRequest, AcceptRequest
    <3>3. State(r) = NIL
      BY <1>4, <2>1, <3>2 DEF KeepRequest, State
    <3>4. ~RequestExpires(r)
      BY <3>2, <3>3 DEF KeepRequest, NIL, EXPIRED, ACCEPTED, REJECTED
    <3>. QED  BY <1>4, <2>1, <3>3, <3>4, RequestInTime
  <2>2. CASE x # r
    <3>1. ~Fresh(x) /\ Exists(x)
      BY <1>2, <1>4, <2>2 DEF Fresh, Exists
    <3>2. State(x)' = State(x)
      BY <1>1, <1>3, <2>2, StateGivenNow DEF State
    <3>. QED  BY <1>2, <1>4, <3>1, <3>2 DEF BoundInv
  <2>. QED  BY <2>1, <2>2
<1>5. \A x \in Objects : txblock'[x] = txblock[x]
  BY <1>2
<1>. QED  BY <1>1, <1>2, <1>3, <1>4, <1>5, BoundInBlock

\* The visit of a proposal at the end of a cycle.
LEMMA BoundProposal ==
  ASSUME HistoryInv, CycleInv, BoundInv, NEW p \in Proposals, UpdateProposal(p)
  PROVE  BoundInv'
<1>1. TypeOK /\ p \in Objects /\ Exists(p)
  BY ProposalObjects DEF HistoryInv, TodoExists, UpdateProposal, Visited
<1>2. pc = "proposals" /\ pc' = pc /\ p \in todo /\ todo' = todo \ {p} /\ UNCHANGED txblock
  BY DEF UpdateProposal, Visited
<1>3. tip' = tip /\ (UNCHANGED mapState \/ \E flag \in FlagsOf(p) : GiveState(p, flag))
  BY <1>1, ProposalVisit, TipKept
<1>4. ASSUME EndOfCycle, NEW x \in Objects, ~Fresh(x)', Exists(x)', State(x)' = NIL
      PROVE  InTime(x, tip)
  <2>1. CASE x = p
    <3>1. ASSUME NEW flag \in ProposalFlags, GiveState(p, flag) PROVE FALSE
      <4>1. State(p)' = flag
        BY <1>1, <3>1, StateGivenNow
      <4>2. flag # NIL
        BY <3>1, NilIsNoFlag, ProposalObjects
      <4>. QED  BY <1>4, <2>1, <4>1, <4>2
    <3>2. KeepProposal(p)
      BY <3>1 DEF UpdateProposal, DelayProposal, ReleaseProposal, ExpireProposal, RejectProposal,
         AcceptProposal, SuspendProposal, ProposalFlags
    <3>3. State(p) = NIL
      BY <1>4, <2>1, <3>2 DEF KeepProposal, State
    <3>4. ~ProposalExpires(p)
      BY <3>2, <3>3 DEF KeepProposal, NewlyExpired, NIL, EXPIRED, ACCEPTED_EXPIRED, REJECTED
    <3>5. Fresh(p)
      BY <1>2 DEF Fresh
    <3>. QED  BY <1>1, <1>4, <2>1, <3>3, <3>4, <3>5, ProposalInTime
  <2>2. CASE x # p
    <3>1. ~Fresh(x) /\ Exists(x)
      BY <1>2, <1>4, <2>2 DEF Fresh, Exists
    <3>2. State(x)' = State(x)
      BY <1>1, <1>3, <2>2, StateGivenNow DEF State
    <3>. QED  BY <1>2, <1>4, <3>1, <3>2 DEF BoundInv
  <2>. QED  BY <2>1, <2>2
<1>5. \A x \in Objects : txblock'[x] = txblock[x]
  BY <1>2
<1>. QED  BY <1>1, <1>2, <1>3, <1>4, <1>5, BoundInBlock

\* No step breaks BoundInv.
LEMMA BoundStep ==
  HistoryInv /\ CycleInv /\ BoundInv /\ [Next]_vars => BoundInv'
<1>. SUFFICES ASSUME HistoryInv, CycleInv, BoundInv, [Next]_vars PROVE BoundInv'
  OBVIOUS
<1>0. TypeOK /\ tip \in Nat /\ tip >= 1
  BY TipType DEF HistoryInv
<1>1. ASSUME NEW fork \in Forks, NEW step \in TimeSteps, NEW contribution \in Contributions,
             ConnectBlock(fork, step, contribution)
      PROVE  BoundInv'
  <2>1. pc = "idle" /\ pc' = "txs" /\ tip' = tip + 1 /\ UNCHANGED <<txblock, mapState>>
    BY <1>1, TipConnected DEF ConnectBlock
  <2>2. Connected = tip /\ Connected' = tip /\ \A x : Fresh(x)'
    BY <1>0, <2>1 DEF Connected, Fresh
  <2>3. ASSUME NEW h \in 1..tip PROVE InTimeAt(h)'
    <3>1. FlagsAt(h)' = FlagsAt(h) /\ \A x \in Objects : ExistsAt(x, h)' => ExistsAt(x, h)
      BY <2>1 DEF FlagsAt, FlagAt, ExistsAt, Exists
    <3>. QED  BY <2>1, <2>2, <3>1, InTimeKept DEF BoundInv
  <2>. QED  BY <2>2, <2>3 DEF BoundInv
<1>2. ASSUME UNCHANGED chain, pc \in {"txs", "coinbase"}, pc' \in {"txs", "coinbase"},
             \/ UNCHANGED mapState
             \/ \E x \in Objects : \E flag \in FlagsOf(x) : GiveState(x, flag),
             \A x \in Objects : txblock'[x] = txblock[x] \/ (~Exists(x) /\ txblock'[x] = TipBlock)
      PROVE  BoundInv'
  <2>1. \A x : Fresh(x)'
    BY <1>2 DEF Fresh
  <2>. QED  BY <1>2, <2>1, BoundInBlock DEF tip
<1>3. ASSUME NEW p \in Proposals, AddProposal(p) PROVE BoundInv'
  <2>1. \A x \in Objects : txblock'[x] = txblock[x] \/ (~Exists(x) /\ txblock'[x] = TipBlock)
    BY <1>0, <1>3, ProposalObjects DEF AddProposal, TypeOK
  <2>. QED  BY <1>2, <1>3, <2>1 DEF AddProposal
<1>4. ASSUME NEW r \in Requests, AddPaymentRequest(r) PROVE BoundInv'
  <2>1. \A x \in Objects : txblock'[x] = txblock[x] \/ (~Exists(x) /\ txblock'[x] = TipBlock)
    BY <1>0, <1>4, RequestObjects DEF AddPaymentRequest, TypeOK
  <2>. QED  BY <1>2, <1>4, <2>1 DEF AddPaymentRequest
<1>5. ASSUME NEW r \in Requests, PayRequest(r) PROVE BoundInv'
  <2>1. r \in Objects /\ PAID \in FlagsOf(r) /\ GiveState(r, PAID)
    BY <1>5, RequestObjects DEF PayRequest, GiveState, RequestFlags
  <2>. QED  BY <1>2, <1>5, <2>1 DEF PayRequest
<1>6. ASSUME pc # "idle", pc' # "idle", UNCHANGED <<chain, txblock, mapState>>,
             \A x \in Objects : Exists(x) /\ Fresh(x) => Fresh(x)'
      PROVE  BoundInv'
  <2>1. tip' = tip /\ \A x \in Objects : State(x)' = State(x) /\ (Exists(x)' <=> Exists(x))
    BY <1>6 DEF tip, State, Exists
  <2>2. ASSUME EndOfCycle, NEW x \in Objects, ~Fresh(x)', Exists(x)', State(x)' = NIL
        PROVE  InTime(x, tip)
    BY <1>6, <2>1, <2>2 DEF BoundInv
  <2>. QED  BY <1>6, <2>1, <2>2, BoundInBlock
<1>7. ASSUME NEW exclude \in Excludes, NEW tally \in [Counted -> Tallies],
             CountVotes(exclude, tally)
      PROVE  BoundInv'
  <2>1. /\ pc \in {"txs", "coinbase"} /\ pc' = "requests" /\ todo' = {r \in Requests : Exists(r)}
        /\ UNCHANGED <<chain, txblock, mapState>>
    BY <1>7 DEF CountVotes
  <2>2. \A x \in Objects : Exists(x) => Fresh(x)'
    BY <2>1 DEF Fresh, Objects
  <2>. QED  BY <1>6, <2>1, <2>2
<1>8. CASE RequestsDone
  <2>1. /\ pc = "requests" /\ pc' = "proposals" /\ todo = {}
        /\ todo' = {p \in Proposals : Exists(p)} /\ UNCHANGED <<chain, txblock, mapState>>
    BY <1>8 DEF RequestsDone
  <2>2. \A x \in Objects : Exists(x) /\ Fresh(x) => Fresh(x)'
    BY <2>1 DEF Fresh
  <2>. QED  BY <1>6, <2>1, <2>2
<1>9. CASE ConnectTipDone
  <2>1. pc = "proposals" /\ todo = {} /\ pc' = "idle" /\ UNCHANGED <<chain, txblock, mapState>>
    BY <1>9 DEF ConnectTipDone
  <2>2. tip' = tip /\ Connected = tip - 1 /\ Connected' = tip
    BY <2>1 DEF tip, Connected
  <2>3. \A x : ~Fresh(x)
    BY <2>1 DEF Fresh
  <2>4. InTimeAt(tip)
    BY <2>1, <2>3, InTimeNow DEF BoundInv
  <2>5. ASSUME NEW h \in 1..tip PROVE InTimeAt(h)
    <3>1. CASE h = tip
      BY <2>4, <3>1
    <3>2. CASE h # tip
      <4>1. h \in 1..(tip - 1)
        BY <1>0, <3>2
      <4>. QED  BY <2>2, <4>1 DEF BoundInv
    <3>. QED  BY <3>1, <3>2
  <2>6. ASSUME NEW h \in 1..tip PROVE InTimeAt(h)'
    <3>1. FlagsAt(h)' = FlagsAt(h) /\ \A x \in Objects : ExistsAt(x, h)' => ExistsAt(x, h)
      BY <2>1 DEF FlagsAt, FlagAt, ExistsAt, Exists
    <3>. QED  BY <2>1, <2>5, <3>1, InTimeKept
  <2>. QED  BY <2>1, <2>2, <2>6 DEF BoundInv
<1>10. CASE DisconnectTip
  <2>1. pc = "idle" /\ pc' = "idle" /\ tip' = tip - 1
    BY <1>0, <1>10, ShorterChain DEF DisconnectTip
  <2>2. Connected = tip /\ Connected' = tip - 1
    BY <2>1 DEF Connected
  <2>3. ASSUME NEW h \in 1..(tip - 1) PROVE InTimeAt(h)'
    <3>1. h \in 1..tip
      BY <1>0
    <3>2. InTimeAt(h)
      BY <2>2, <3>1 DEF BoundInv
    <3>. QED  BY <1>10, <3>2, BelowUndone, InTimeKept
  <2>. QED  BY <2>1, <2>2, <2>3 DEF BoundInv
<1>11. CASE UNCHANGED vars
  <2>1. /\ UNCHANGED <<txblock, mapState, pc, todo>> /\ tip' = tip
        /\ Connected' = Connected /\ (EndOfCycle' <=> EndOfCycle)
    BY <1>11 DEF vars, tip, Connected, EndOfCycle
  <2>2. ASSUME NEW h \in 1..Connected PROVE InTimeAt(h)'
    <3>1. FlagsAt(h)' = FlagsAt(h) /\ \A x \in Objects : ExistsAt(x, h)' => ExistsAt(x, h)
      BY <2>1 DEF FlagsAt, FlagAt, ExistsAt, Exists
    <3>. QED  BY <2>1, <3>1, InTimeKept DEF BoundInv
  <2>3. ASSUME NEW x \in Objects
        PROVE  /\ (Fresh(x)' <=> Fresh(x)) /\ (Exists(x)' <=> Exists(x)) /\ State(x)' = State(x)
               /\ InTime(x, tip)' <=> InTime(x, tip)
    BY <2>1 DEF Fresh, Exists, State, InTime
  <2>. QED  BY <2>1, <2>2, <2>3 DEF BoundInv
<1>. QED  BY <1>1, <1>3, <1>4, <1>5, <1>7, <1>8, <1>9, <1>10, <1>11, BoundRequest,
             BoundProposal DEF Next

\* Before the first block nothing is voted on.
LEMMA VoteInit == Init => VoteInv
<1>. SUFFICES ASSUME Init PROVE VoteInv
  OBVIOUS
<1>1. \A x \in Objects : ~Exists(x) /\ nVotingCycle[x] = 0
  BY DEF Init, Exists
<1>2. CycleInv
  BY <1>1, ProposalObjects DEF CycleInv, CycleOf
<1>3. BoundInv
  BY <1>1 DEF BoundInv, InTimeAt, ExistsAt, Init
<1>. QED  BY <1>2, <1>3, HistoryInit DEF VoteInv

\* Voting ends (IsExpired and VoteStep): at the end of a cycle no undecided
\* proposal or request has been voted on for more than its maximum of voting
\* cycles, however often the end of the cycle was disconnected and connected.
THEOREM VotingCorrect == Spec => []VotingIsBounded
<1>1. VoteInv /\ [Next]_vars => VoteInv'
  BY HistoryStep, CycleStep, BoundStep DEF VoteInv
<1>2. VoteInv => VotingIsBounded
  <2>. SUFFICES ASSUME VoteInv, pc = "idle", EndOfCycle,
                       NEW x \in Objects, Exists(x), State(x) = NIL
                PROVE  InTime(x, tip)
    BY DEF VotingIsBounded, InTime
  <2>1. HistoryInv /\ BoundInv
    BY DEF VoteInv
  <2>2. tip \in 1..Connected
    BY <2>1, TipType DEF HistoryInv, Connected
  <2>3. InTimeAt(tip)
    BY <2>1, <2>2 DEF BoundInv
  <2>. QED  BY <2>1, <2>3, InTimeNow
<1>. QED  BY <1>1, <1>2, VoteInit, PTL DEF Spec
=============================================================================
