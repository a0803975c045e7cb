----------------------------- MODULE LifeProofs -----------------------------
(***************************************************************************)
(* The life of proposals and payment requests: the proofs that every step  *)
(* of CommunityFund takes them along the states of FundLife and that       *)
(* requests follow their approvals.                                        *)
(***************************************************************************)
EXTENDS CommunityFundProofs, FundLife

-----------------------------------------------------------------------------
\* What one block does to an object.

\* The block at the tip gave the object no flag.
Unflagged(x) == TipBlock \notin DOMAIN mapState[x]

\* The coinbase of the block at the tip paid the request.
PaidNow(x) == /\ pc # "txs" /\ x \in Requests
              /\ FlagAt(x, tip - 1) = ACCEPTED /\ State(x) = PAID

\* The states an object had after the block below the tip and has now.
Before(x) == IF ExistsAt(x, tip - 1) THEN FlagAt(x, tip - 1) ELSE "ABSENT"
Now(x) == IF Exists(x) THEN State(x) ELSE "ABSENT"

NextOf(x) == IF x \in Proposals THEN ProposalNext ELSE RequestNext

\* While a block connects, an object it has not visited has at most been paid,
\* and the others followed the life of their kind.
LifeInv ==
  pc # "idle" => \A x \in Objects :
    /\ Fresh(x) => Unflagged(x) \/ PaidNow(x)
    /\ Follows(NextOf(x), Before(x), Now(x))

\* An expired request keeps the number of cycles that made it expire.
ExpiredInv ==
  \A r \in Requests : \A b \in DOMAIN mapState[r] :
    mapState[r][b] = EXPIRED => nVotingCycle[r] > RequestMaxCycles

\* What was contributed to the fund only grows along the chain.
GivenGrows == \A h \in 1..(tip - 1) : chain[h].given <= chain[h + 1].given

\* The todo list holds objects of the kind the running loop visits, and only
\* blocks above the first one are connected.
LoopInv ==
  /\ pc # "idle" => tip > 1
  /\ pc = "requests" => todo \subseteq Requests
  /\ pc = "proposals" => todo \subseteq Proposals

-----------------------------------------------------------------------------
\* The words of FundLife.

\* The table of the states of a proposal, entry by entry.
LEMMA ProposalLife ==
  /\ ProposalNext["ABSENT"] = {NIL}
  /\ ProposalNext[NIL] = {ACCEPTED, REJECTED, EXPIRED, PENDING_FUNDS}
  /\ ProposalNext[PENDING_FUNDS] = {ACCEPTED}
  /\ ProposalNext[ACCEPTED] = {PENDING_VOTING_PREQ, ACCEPTED_EXPIRED}
  /\ ProposalNext[PENDING_VOTING_PREQ] = {ACCEPTED_EXPIRED}
BY DEF ProposalNext, ProposalFlags, ABSENT, NIL, ACCEPTED, REJECTED, EXPIRED, PENDING_FUNDS,
       PENDING_VOTING_PREQ, ACCEPTED_EXPIRED

\* The table of the states of a payment request.
LEMMA RequestLife ==
  /\ RequestNext["ABSENT"] = {NIL}
  /\ RequestNext[NIL] = {ACCEPTED, REJECTED, EXPIRED}
  /\ RequestNext[ACCEPTED] = {PAID}
BY DEF RequestNext, RequestFlags, ABSENT, NIL, ACCEPTED, REJECTED, EXPIRED, PAID

\* What Follows says, entry by entry.
LEMMA FollowsIs ==
  ASSUME NEW next, NEW f, NEW g
  PROVE  Follows(next, f, g) <=> \/ g = f
                                 \/ g \in next[f]
                                 \/ f = "ABSENT" /\ g \in next[NIL]
BY DEF Follows, ABSENT

-----------------------------------------------------------------------------
\* What VoteStep may do to an object it visits.

\* VoteStep decides about a request once: its state was NIL before.
LEMMA RequestDecided ==
  ASSUME FavouredInv, ExpiredInv, NEW r \in Requests, UpdateRequest(r)
  PROVE  \/ UNCHANGED mapState
         \/ /\ State(r) = NIL
            /\ \E flag \in {ACCEPTED, REJECTED, EXPIRED} :
                 /\ GiveState(r, flag)
                 /\ flag = EXPIRED => RequestCycle(r) > RequestMaxCycles
<1>1. r \in Objects /\ FlagsOf(r) = RequestFlags /\ HistoryInv /\ TypeOK /\ Favoured
  BY RequestObjects DEF FavouredInv, HistoryInv
<1>2. State(r) \in {NIL, ACCEPTED, REJECTED, EXPIRED, PAID}
  BY <1>1, StateGiven DEF RequestFlags
<1>3. CASE ExpireRequest(r)
  BY <1>2, <1>3 DEF ExpireRequest, RequestExpires, IsExpiredRequest
<1>4. CASE RejectRequest(r)
  <2>1. Against(r, votes[r]) /\ State(r) # REJECTED /\ GiveState(r, REJECTED)
    BY <1>4 DEF RejectRequest, RequestFails, IsRejected
  <2>2. State(r) \notin {ACCEPTED, PAID}
    <3>1. {ACCEPTED, PAID} \subseteq Approving
      BY DEF Approving, Drawing
    <3>. QED  BY <1>1, <2>1, <3>1, StateFavoured, NotBoth
  <2>3. ASSUME State(r) = EXPIRED PROVE FALSE
    <3>1. EXPIRED # NIL /\ EXPIRED \notin {ACCEPTED, REJECTED, PAID}
      BY DEF EXPIRED, NIL, ACCEPTED, REJECTED, PAID
    <3>2. nVotingCycle[r] > RequestMaxCycles
      BY <1>1, <2>3, <3>1, StateGiven DEF ExpiredInv
    <3>3. RequestCycle(r) = nVotingCycle[r]
      BY <2>3, <3>1 DEF RequestCycle
    <3>4. RequestExpires(r)
      BY <1>4, <2>3, <3>1, <3>2, <3>3 DEF RejectRequest, RequestFails, RequestExpires, IsExpiredRequest
    <3>. QED  BY <1>4, <3>4 DEF RejectRequest, RequestFails
  <2>4. REJECTED # EXPIRED
    BY DEF REJECTED, EXPIRED
  <2>. QED  BY <1>2, <2>1, <2>2, <2>3, <2>4
<1>5. CASE AcceptRequest(r)
  <2>1. ACCEPTED # EXPIRED
    BY DEF ACCEPTED, EXPIRED
  <2>. QED  BY <1>5, <2>1 DEF AcceptRequest, RequestPasses
<1>6. CASE KeepRequest(r)
  BY <1>6 DEF KeepRequest
<1>. QED  BY <1>3, <1>4, <1>5, <1>6 DEF UpdateRequest

\* VoteStep leads a proposal to a state its state can lead to.
LEMMA ProposalDecided ==
  ASSUME FavouredInv, NEW p \in Proposals, UpdateProposal(p)
  PROVE  \/ UNCHANGED mapState
         \/ \E flag \in ProposalFlags :
              /\ GiveState(p, flag)
              /\ flag = State(p) \/ flag \in ProposalNext[State(p)]
<1>1. p \in Objects /\ FlagsOf(p) = ProposalFlags /\ HistoryInv /\ TypeOK /\ Favoured
  BY ProposalObjects DEF FavouredInv, HistoryInv
<1>2. State(p) \in {NIL, ACCEPTED, REJECTED, EXPIRED, PENDING_FUNDS, PENDING_VOTING_PREQ,
                    ACCEPTED_EXPIRED}
  BY <1>1, StateGiven DEF ProposalFlags
<1>3. CASE DelayProposal(p)
  <2>1. GiveState(p, PENDING_VOTING_PREQ) /\ State(p) \in {ACCEPTED, PENDING_VOTING_PREQ}
    BY <1>3 DEF DelayProposal, HasPendingPaymentRequests, RequestsOf, CanVote
  <2>. QED  BY <2>1, ProposalLife DEF ProposalFlags
<1>4. CASE ReleaseProposal(p)
  BY <1>4, ProposalLife DEF ReleaseProposal, ProposalFlags
<1>5. CASE ExpireProposal(p)
  <2>1. State(p) = NIL
    BY <1>5 DEF ExpireProposal, NewlyExpired, ProposalExpires, IsExpiredProposal
  <2>. QED  BY <1>5, <2>1, ProposalLife DEF ExpireProposal, ProposalFlags
<1>6. CASE RejectProposal(p)
  <2>1. Against(p, votes[p]) /\ State(p) # REJECTED /\ GiveState(p, REJECTED)
    BY <1>6 DEF RejectProposal, ProposalFails, IsRejected
  <2>2. State(p) \notin Approving
    BY <1>1, <2>1, StateFavoured, NotBoth
  <2>3. State(p) # EXPIRED
    BY <1>6 DEF RejectProposal, ProposalFails, ProposalExpires, IsExpiredProposal
  <2>4. State(p) = NIL
    BY <1>2, <2>1, <2>2, <2>3 DEF Approving, Locking, Drawing
  <2>. QED  BY <2>1, <2>4, ProposalLife DEF ProposalFlags
<1>7. CASE AcceptProposal(p)
  BY <1>7, ProposalLife DEF AcceptProposal, ProposalPasses, ProposalFlags
<1>8. CASE SuspendProposal(p)
  BY <1>8, ProposalLife DEF SuspendProposal, ProposalPasses, ProposalFlags
<1>9. CASE KeepProposal(p)
  BY <1>9 DEF KeepProposal
<1>. QED  BY <1>3, <1>4, <1>5, <1>6, <1>7, <1>8, <1>9 DEF UpdateProposal
-----------------------------------------------------------------------------
\* One block leads every object one step further in its life.

\* An object the tip gave no flag is in the state it had below the tip.
LEMMA UnflaggedState ==
  ASSUME HistoryInv, NEW x \in Objects, Unflagged(x)
  PROVE  FlagAt(x, tip - 1) = State(x)
<1>1. tip \in Nat
  BY TipType DEF HistoryInv
<1>2. \A c \in DOMAIN mapState[x] : Height(c) <= tip - 1
  BY <1>1, HistoryBlocks DEF Unflagged
<1>3. Upto(mapState[x], tip - 1) = mapState[x]
  BY <1>2, HistoryBlocks, UptoAll
<1>. QED  BY <1>3 DEF FlagAt, StateAt, State

\* An object the tip created and gave no flag is undecided.
LEMMA CreatedNow ==
  ASSUME HistoryInv, NEW x \in Objects, Exists(x), ~ExistsAt(x, tip - 1), Unflagged(x)
  PROVE  State(x) = NIL
<1>1. tip \in Nat /\ OnChain(txblock[x]) /\ txblock[x] \in Blocks
  BY TipType DEF HistoryInv, HistoryOnChain, OnChain
<1>2. Height(txblock[x]) \in Nat /\ Height(txblock[x]) > tip - 1
  BY <1>1, InputsAssumption DEF Blocks, Heights, Height, ExistsAt
<1>3. ASSUME NEW c \in DOMAIN mapState[x] PROVE FALSE
  <2>1. Height(c) \in Nat /\ Height(c) < tip
    BY HistoryBlocks DEF Unflagged
  <2>2. Height(txblock[x]) <= Height(c)
    BY DEF HistoryInv, HistoryOnChain
  <2>. QED  BY <1>1, <1>2, <2>1, <2>2
<1>. QED  BY <1>3 DEF State, GetLastState

\* A flag given by the tip changes nothing about the blocks below it.
LEMMA BelowKept ==
  ASSUME HistoryInv, NEW x \in Objects, NEW flag \in FlagsOf(x), GiveState(x, flag),
         tip > 1, tip' = tip, UNCHANGED txblock
  PROVE  \A y \in Objects : Before(y)' = Before(y) /\ FlagAt(y, tip - 1)' = FlagAt(y, tip - 1)
<1>1. tip \in Nat /\ tip - 1 \in 1..tip /\ tip - 1 # tip
  BY TipType DEF HistoryInv
<1>2. ASSUME NEW h \in 1..tip, h # tip
      PROVE  \A y \in Objects : StateAt(mapState'[y], h) = StateAt(mapState[y], h)
  <2>1. FlagsAt(h)' = FlagsAt(h)
    BY <1>2, FlagsGiven
  <2>. QED  BY <2>1 DEF FlagsAt, FlagAt
<1>3. \A y \in Objects : StateAt(mapState'[y], tip - 1) = StateAt(mapState[y], tip - 1)
  BY <1>1, <1>2
<1>4. \A y \in Objects : FlagAt(y, tip - 1)' = FlagAt(y, tip - 1)
  BY <1>3 DEF FlagAt
<1>. QED  BY <1>4 DEF Before, ExistsAt, Exists

\* A step that neither adds a block nor touches a history.
LEMMA LifeSame ==
  ASSUME LifeInv, pc # "idle", tip' = tip, TipBlock' = TipBlock, UNCHANGED <<txblock, mapState>>,
         pc' = "txs" => pc = "txs", \A x \in Objects : Fresh(x)' => Fresh(x)
  PROVE  LifeInv'
<1>1. \A x : State(x)' = State(x) /\ FlagAt(x, tip - 1)' = FlagAt(x, tip - 1)
  BY DEF State, FlagAt
<1>2. \A x \in Objects : Before(x)' = Before(x) /\ Now(x)' = Now(x)
  BY <1>1 DEF Before, Now, ExistsAt, Exists
<1>3. \A x \in Objects : /\ Unflagged(x) => Unflagged(x)'
                         /\ PaidNow(x) => PaidNow(x)'
  BY <1>1 DEF Unflagged, PaidNow
<1>4. ASSUME NEW x \in Objects
      PROVE  /\ Fresh(x)' => Unflagged(x)' \/ PaidNow(x)'
             /\ Follows(NextOf(x), Before(x)', Now(x)')
  <2>1. Fresh(x) => Unflagged(x) \/ PaidNow(x)
    BY DEF LifeInv
  <2>2. Follows(NextOf(x), Before(x), Now(x))
    BY DEF LifeInv
  <2>. QED  BY <1>2, <1>3, <2>1, <2>2
<1>5. ASSUME NEW x \in Objects
      PROVE  Follows(NextOf(x), Before(x), Now(x))'
  BY <1>4, FollowsIs DEF Follows, NextOf
<1>. QED  BY <1>4, <1>5 DEF LifeInv

\* A step that gives one object a flag that follows its state.
LEMMA LifeFlag ==
  ASSUME HistoryInv, LifeInv, pc # "idle", tip > 1, tip' = tip, TipBlock' = TipBlock,
         UNCHANGED txblock, pc' = "txs" => pc = "txs", \A y \in Objects : Fresh(y)' => Fresh(y),
         NEW x \in Objects, NEW flag \in FlagsOf(x), GiveState(x, flag),
         Exists(x), Unflagged(x), flag = State(x) \/ flag \in NextOf(x)[State(x)],
         Fresh(x)' => pc' # "txs" /\ x \in Requests /\ State(x) = ACCEPTED /\ flag = PAID
  PROVE  LifeInv'
<1>1. /\ State(x)' = flag
      /\ \A y \in Objects : y # x => State(y)' = State(y) /\ mapState'[y] = mapState[y]
  BY StateGivenNow
<1>2. \A y \in Objects : Before(y)' = Before(y) /\ FlagAt(y, tip - 1)' = FlagAt(y, tip - 1)
  BY BelowKept
<1>3. FlagAt(x, tip - 1) = State(x)
  BY UnflaggedState
<1>4. ASSUME NEW y \in Objects
      PROVE  /\ Fresh(y)' => Unflagged(y)' \/ PaidNow(y)'
             /\ \/ Now(y)' = Before(y)'
                \/ Now(y)' \in NextOf(y)[Before(y)']
                \/ Before(y)' = "ABSENT" /\ Now(y)' \in NextOf(y)[NIL]
  <2>1. CASE y = x
    <3>1. Now(x)' = flag
      BY <1>1 DEF Now, Exists
    <3>2. Fresh(x)' => PaidNow(x)'
      <4>1. FlagAt(x, tip - 1)' = State(x)
        BY <1>2, <1>3
      <4>. QED  BY <1>1, <4>1 DEF PaidNow
    <3>3. CASE ExistsAt(x, tip - 1)
      <4>1. Before(x)' = State(x)
        BY <1>2, <1>3, <3>3 DEF Before
      <4>. QED  BY <2>1, <3>1, <3>2, <4>1
    <3>4. CASE ~ExistsAt(x, tip - 1)
      <4>1. State(x) = NIL /\ flag # NIL
        BY <3>4, CreatedNow, NilIsNoFlag
      <4>2. Before(x)' = "ABSENT"
        BY <1>2, <3>4 DEF Before
      <4>. QED  BY <2>1, <3>1, <3>2, <4>1, <4>2
    <3>. QED  BY <3>3, <3>4
  <2>2. CASE y # x
    <3>1. /\ Fresh(y) => Unflagged(y) \/ PaidNow(y)
          /\ Follows(NextOf(y), Before(y), Now(y))
      BY DEF LifeInv
    <3>2. State(y)' = State(y) /\ mapState'[y] = mapState[y] /\ Before(y)' = Before(y)
      BY <1>1, <1>2, <2>2
    <3>3. Now(y)' = Now(y)
      BY <3>2 DEF Now, Exists
    <3>4. Unflagged(y) => Unflagged(y)'
      BY <3>2 DEF Unflagged
    <3>5. PaidNow(y) => PaidNow(y)'
      BY <1>2, <3>2 DEF PaidNow
    <3>. QED  BY <3>1, <3>2, <3>3, <3>4, <3>5, FollowsIs
  <2>. QED  BY <2>1, <2>2
<1>5. \A y \in Objects : Follows(NextOf(y), Before(y), Now(y))'
  BY <1>4, FollowsIs DEF Follows, NextOf
<1>. QED  BY <1>4, <1>5 DEF LifeInv

\* A new block has decided nothing yet.
LEMMA LifeConnect ==
  ASSUME HistoryInv, NEW fork \in Forks, NEW step \in TimeSteps, NEW contribution \in Contributions,
         ConnectBlock(fork, step, contribution)
  PROVE  LifeInv'
<1>1. tip \in Nat /\ tip >= 1 /\ tip' = tip + 1
  BY TipConnected
<1>2. Height(TipBlock') = tip + 1
  BY TipConnected
<1>3. UNCHANGED <<txblock, mapState>>
  BY DEF ConnectBlock
<1>4. \A x \in Objects : Unflagged(x)'
  <2>1. SUFFICES ASSUME NEW x \in Objects PROVE TipBlock' \notin DOMAIN mapState[x]
    BY <1>3 DEF Unflagged
  <2>. QED  BY <1>1, <1>2, HistoryBlocks
<1>5. FlagsAt(tip) = [x \in Objects |-> State(x)]
  BY <1>1, FlagsNow
<1>6. ASSUME NEW x \in Objects PROVE Before(x)' = Now(x)'
  <2>1. StateAt(mapState[x], tip) = State(x)
    BY <1>5 DEF FlagsAt, FlagAt
  <2>2. tip' - 1 = tip
    BY <1>1
  <2>3. FlagAt(x, tip - 1)' = State(x)
    BY <1>3, <2>1, <2>2 DEF FlagAt
  <2>4. ExistsAt(x, tip - 1)' <=> ExistsAt(x, tip)
    BY <1>3, <2>2 DEF ExistsAt, Exists
  <2>5. State(x)' = State(x) /\ (Exists(x)' <=> Exists(x))
    BY <1>3 DEF State, Exists
  <2>. QED  BY <2>3, <2>4, <2>5, ExistsAtTip DEF Before, Now
<1>7. \A x \in Objects : Follows(NextOf(x), Before(x), Now(x))'
  BY <1>6, FollowsIs DEF Follows, NextOf
<1>. QED  BY <1>1, <1>4, <1>7 DEF LifeInv

\* An object a transaction of the block creates is undecided.
LEMMA LifeCreate ==
  ASSUME HistoryInv, LifeInv, pc = "txs", pc' = pc, UNCHANGED <<chain, mapState>>,
         NEW x \in Objects, ~Exists(x), txblock' = [txblock EXCEPT ![x] = TipBlock]
  PROVE  LifeInv'
<1>1. tip' = tip /\ TipBlock' = TipBlock /\ tip \in Nat /\ Height(TipBlock) = tip
  BY TipType DEF HistoryInv, tip, TipBlock
<1>2. \A y : State(y)' = State(y) /\ FlagAt(y, tip - 1)' = FlagAt(y, tip - 1)
  BY <1>1 DEF State, FlagAt
<1>3. /\ txblock'[x] = TipBlock
      /\ \A y \in Objects : y # x => txblock'[y] = txblock[y]
  BY DEF HistoryInv, TypeOK
<1>4. ASSUME NEW y \in Objects PROVE Unflagged(y)'
  <2>1. Unflagged(y)
    BY DEF LifeInv, Fresh, PaidNow
  <2>. QED  BY <1>1, <2>1 DEF Unflagged
<1>5. ASSUME NEW y \in Objects
      PROVE  \/ Now(y)' = Before(y)'
             \/ Now(y)' \in NextOf(y)[Before(y)']
             \/ Before(y)' = "ABSENT" /\ Now(y)' \in NextOf(y)[NIL]
  <2>1. CASE y = x
    <3>1. State(x) = NIL
      BY DEF HistoryInv, HistoryOnChain, State, GetLastState
    <3>2. TipBlock # NoBlock
      BY <1>1, TipType DEF HistoryInv, NoBlock, Height
    <3>3. Now(x)' = NIL
      BY <1>2, <1>3, <3>1, <3>2 DEF Now, Exists
    <3>4. Before(x)' = "ABSENT"
      BY <1>1, <1>3 DEF Before, ExistsAt
    <3>5. NextOf(x)["ABSENT"] = {NIL}
      BY ProposalLife, RequestLife DEF NextOf
    <3>. QED  BY <2>1, <3>3, <3>4, <3>5
  <2>2. CASE y # x
    <3>1. Follows(NextOf(y), Before(y), Now(y))
      BY DEF LifeInv
    <3>2. Before(y)' = Before(y) /\ Now(y)' = Now(y)
      BY <1>1, <1>2, <1>3, <2>2 DEF Before, Now, ExistsAt, Exists
    <3>. QED  BY <3>1, <3>2, FollowsIs
  <2>. QED  BY <2>1, <2>2
<1>6. \A y \in Objects : Follows(NextOf(y), Before(y), Now(y))'
  BY <1>5, FollowsIs DEF Follows, NextOf
<1>. QED  BY <1>4, <1>6 DEF LifeInv

-----------------------------------------------------------------------------
\* What else LifeInv needs of every step.

\* Which loop runs, and what it has left.
LEMMA LoopStep == HistoryInv /\ LoopInv /\ [Next]_vars => LoopInv'
<1>. SUFFICES ASSUME HistoryInv, LoopInv, [Next]_vars PROVE LoopInv'
  OBVIOUS
<1>0. TypeOK /\ tip \in Nat /\ tip >= 1
  BY TipType DEF HistoryInv
<1>. USE DEF LoopInv
<1>1. ASSUME NEW fork \in Forks, NEW step \in TimeSteps, NEW contribution \in Contributions,
             ConnectBlock(fork, step, contribution)
      PROVE  LoopInv'
  <2>1. tip' > 1
    BY <1>1, TipConnected
  <2>. QED  BY <1>1, <2>1 DEF ConnectBlock
<1>2. ASSUME NEW p \in Proposals, AddProposal(p) PROVE LoopInv'
  BY <1>2 DEF AddProposal, tip
<1>3. ASSUME NEW r \in Requests, AddPaymentRequest(r) PROVE LoopInv'
  BY <1>3 DEF AddPaymentRequest, tip
<1>4. ASSUME NEW r \in Requests, PayRequest(r) PROVE LoopInv'
  BY <1>4 DEF PayRequest, tip
<1>5. ASSUME NEW exclude \in Excludes, NEW tally \in [Counted -> Tallies],
             CountVotes(exclude, tally)
      PROVE  LoopInv'
  BY <1>5 DEF CountVotes, tip
<1>6. ASSUME NEW r \in Requests, UpdateRequest(r) PROVE LoopInv'
  <2>1. tip' = tip
    BY <1>0, <1>6, RequestVisit, TipKept
  <2>. QED  BY <1>6, <2>1 DEF UpdateRequest
<1>7. CASE RequestsDone
  BY <1>7 DEF RequestsDone, tip
<1>8. ASSUME NEW p \in Proposals, UpdateProposal(p) PROVE LoopInv'
  <2>1. tip' = tip
    BY <1>0, <1>8, ProposalVisit, TipKept
  <2>. QED  BY <1>8, <2>1 DEF UpdateProposal
<1>9. CASE ConnectTipDone
  BY <1>9 DEF ConnectTipDone
<1>10. CASE DisconnectTip
  BY <1>10 DEF DisconnectTip
<1>11. CASE UNCHANGED vars
  BY <1>11 DEF vars, tip
<1>. QED  BY <1>1, <1>2, <1>3, <1>4, <1>5, <1>6, <1>7, <1>8, <1>9, <1>10, <1>11 DEF Next

\* An undecided object has no flag.
LEMMA UndecidedIs ==
  ASSUME HistoryInv, NEW x \in Objects, State(x) = NIL
  PROVE  DOMAIN mapState[x] = {}
BY StateGiven, NilIsNoFlag

\* The visit of a request keeps ExpiredInv.
LEMMA RequestKeepsExpired ==
  ASSUME FavouredInv, ExpiredInv, NEW q \in Requests, UpdateRequest(q)
  PROVE  ExpiredInv'
<1>1. HistoryInv /\ TypeOK /\ q \in Objects
  BY RequestObjects DEF FavouredInv, HistoryInv
<1>2. /\ nVotingCycle'[q] = RequestCycle(q)
      /\ \A r \in Objects : r # q => nVotingCycle'[r] = nVotingCycle[r]
  BY <1>1 DEF UpdateRequest, TypeOK
<1>3. CASE UNCHANGED mapState
  <2>1. ASSUME NEW r \in Requests, NEW b \in DOMAIN mapState[r], mapState[r][b] = EXPIRED
        PROVE  nVotingCycle'[r] > RequestMaxCycles
    <3>1. nVotingCycle[r] > RequestMaxCycles /\ r \in Objects
      BY <2>1, RequestObjects DEF ExpiredInv
    <3>2. State(r) # NIL
      BY <1>1, <2>1, <3>1, UndecidedIs
    <3>. QED  BY <1>2, <3>1, <3>2 DEF RequestCycle
  <2>. QED  BY <1>3, <2>1 DEF ExpiredInv
<1>4. ASSUME State(q) = NIL, NEW flag \in {ACCEPTED, REJECTED, EXPIRED}, GiveState(q, flag),
             flag = EXPIRED => RequestCycle(q) > RequestMaxCycles
      PROVE  ExpiredInv'
  <2>1. DOMAIN mapState[q] = {}
    BY <1>1, <1>4, UndecidedIs
  <2>2. /\ DOMAIN mapState'[q] = {TipBlock} /\ mapState'[q][TipBlock] = flag
        /\ \A r \in Objects : r # q => mapState'[r] = mapState[r]
    BY <1>1, <1>4, <2>1 DEF GiveState, SetState, TypeOK
  <2>3. ASSUME NEW r \in Requests, NEW b \in DOMAIN mapState'[r], mapState'[r][b] = EXPIRED
        PROVE  nVotingCycle'[r] > RequestMaxCycles
    <3>1. CASE r = q
      BY <1>2, <1>4, <2>2, <2>3, <3>1
    <3>2. CASE r # q
      <4>1. r \in Objects
        BY RequestObjects
      <4>. QED  BY <1>2, <2>2, <2>3, <3>2, <4>1 DEF ExpiredInv
    <3>. QED  BY <3>1, <3>2
  <2>. QED  BY <2>3 DEF ExpiredInv
<1>. QED  BY <1>3, <1>4, RequestDecided

\* Disconnecting the tip keeps the cycles of what stays expired.
LEMMA DisconnectKeepsExpired ==
  ASSUME HistoryInv, ExpiredInv, DisconnectTip
  PROVE  ExpiredInv'
<1>1. tip \in Nat
  BY TipType DEF HistoryInv
<1>2. ASSUME NEW r \in Requests, NEW b \in DOMAIN mapState'[r], mapState'[r][b] = EXPIRED
      PROVE  nVotingCycle'[r] > RequestMaxCycles
  <2>. DEFINE m == Undone(r)
  <2>1. r \in Objects /\ mapState'[r] = m /\ b \in DOMAIN m
    BY <1>2, RequestObjects DEF DisconnectTip
  <2>2. txblock[r] # TipBlock /\ m = ClearState(mapState[r], TipBlock)
    BY <2>1 DEF Undone, NoHistory
  <2>. HIDE DEF m
  <2>3. DOMAIN m \subseteq DOMAIN mapState[r] /\ \A c \in DOMAIN m : m[c] = mapState[r][c]
    BY <2>2 DEF ClearState
  <2>4. txblock[r] # NoBlock
    BY <2>1, <2>3 DEF HistoryInv, HistoryOnChain, Exists
  <2>5. GetLastState(m) # NIL
    <3>1. /\ DOMAIN m \subseteq Nat \X Nat /\ DOMAIN m # {}
          /\ \A c \in DOMAIN m : Height(c) <= tip /\ m[c] \in FlagsOf(r)
      BY <2>1, <2>3, HistoryBlocks
    <3>2. GetLastState(m) \in FlagsOf(r)
      BY <1>1, <3>1, LastStateGiven
    <3>. QED  BY <2>1, <3>2, NilIsNoFlag
  <2>6. nVotingCycle'[r] = nVotingCycle[r]
    BY <2>1, <2>2, <2>4, <2>5 DEF DisconnectTip, m
  <2>. QED  BY <1>2, <2>1, <2>3, <2>6 DEF ExpiredInv
<1>. QED  BY <1>2 DEF ExpiredInv

\* ExpiredInv is kept by every step.
LEMMA ExpiredStep == FavouredInv /\ ExpiredInv /\ [Next]_vars => ExpiredInv'
<1>. SUFFICES ASSUME FavouredInv, ExpiredInv, [Next]_vars PROVE ExpiredInv'
  OBVIOUS
<1>0. HistoryInv /\ TypeOK
  BY DEF FavouredInv, HistoryInv
<1>1. ASSUME UNCHANGED <<mapState, nVotingCycle>> PROVE ExpiredInv'
  BY <1>1 DEF ExpiredInv
<1>2. ASSUME NEW r \in Requests, PayRequest(r) PROVE ExpiredInv'
  <2>1. /\ mapState'[r] = SetState(mapState[r], TipBlock, PAID) /\ UNCHANGED nVotingCycle
        /\ \A q \in Objects : q # r => mapState'[q] = mapState[q]
    BY <1>0, <1>2, RequestObjects DEF PayRequest, TypeOK
  <2>2. ASSUME NEW q \in Requests, NEW b \in DOMAIN mapState'[q], mapState'[q][b] = EXPIRED
        PROVE  b \in DOMAIN mapState[q] /\ mapState[q][b] = EXPIRED
    <3>1. CASE q = r
      BY <2>1, <2>2, <3>1 DEF SetState, PAID, EXPIRED
    <3>2. CASE q # r
      BY <2>1, <2>2, <3>2, RequestObjects
    <3>. QED  BY <3>1, <3>2
  <2>. QED  BY <2>1, <2>2 DEF ExpiredInv
<1>3. ASSUME NEW p \in Proposals, UpdateProposal(p) PROVE ExpiredInv'
  <2>1. ASSUME NEW q \in Requests
        PROVE  mapState'[q] = mapState[q] /\ nVotingCycle'[q] = nVotingCycle[q]
    <3>1. q # p /\ q \in Objects
      BY RequestObjects
    <3>2. nVotingCycle'[q] = nVotingCycle[q]
      BY <1>0, <1>3, <3>1 DEF UpdateProposal, TypeOK
    <3>3. UNCHANGED mapState \/ \E flag : GiveState(p, flag)
      BY <1>0, <1>3, ProposalVisit
    <3>4. mapState'[q] = mapState[q]
      BY <1>0, <3>1, <3>3 DEF GiveState, TypeOK
    <3>. QED  BY <3>2, <3>4
  <2>. QED  BY <2>1 DEF ExpiredInv
<1>. QED
  <2>1. ASSUME NEW fork \in Forks, NEW step \in TimeSteps, NEW contribution \in Contributions,
               ConnectBlock(fork, step, contribution)
        PROVE  ExpiredInv'
    BY <1>1, <2>1 DEF ConnectBlock
  <2>2. ASSUME NEW p \in Proposals, AddProposal(p) PROVE ExpiredInv'
    BY <1>1, <2>2 DEF AddProposal
  <2>3. ASSUME NEW r \in Requests, AddPaymentRequest(r) PROVE ExpiredInv'
    BY <1>1, <2>3 DEF AddPaymentRequest
  <2>4. ASSUME NEW exclude \in Excludes, NEW tally \in [Counted -> Tallies],
               CountVotes(exclude, tally)
        PROVE  ExpiredInv'
    BY <1>1, <2>4 DEF CountVotes
  <2>5. CASE RequestsDone
    BY <1>1, <2>5 DEF RequestsDone
  <2>6. CASE ConnectTipDone
    BY <1>1, <2>6 DEF ConnectTipDone
  <2>7. CASE UNCHANGED vars
    BY <1>1, <2>7 DEF vars
  <2>. QED  BY <1>0, <1>2, <1>3, <2>1, <2>2, <2>3, <2>4, <2>5, <2>6, <2>7,
               RequestKeepsExpired, DisconnectKeepsExpired DEF Next

\* The blocks below the tip are those of the chain before the step.
LEMMA GivenStep == TypeOK /\ GivenGrows /\ [Next]_vars => GivenGrows'
<1>. SUFFICES ASSUME TypeOK, GivenGrows, [Next]_vars PROVE GivenGrows'
  OBVIOUS
<1>0. chain \in Seq(BlockIndex) /\ tip \in Nat /\ tip >= 1 /\ tip = Len(chain)
  BY TipType DEF TypeOK, tip
<1>1. ASSUME tip' = tip, \A h \in 1..tip : chain'[h].given = chain[h].given
      PROVE  GivenGrows'
  <2>1. ASSUME NEW h \in 1..(tip - 1)
        PROVE  chain'[h].given <= chain'[h + 1].given
    <3>1. h \in 1..tip /\ h + 1 \in 1..tip
      BY <1>0
    <3>. QED  BY <1>1, <3>1 DEF GivenGrows
  <2>. QED  BY <1>1, <2>1 DEF GivenGrows
<1>2. ASSUME UNCHANGED chain PROVE GivenGrows'
  BY <1>1, <1>2 DEF tip
<1>3. ASSUME NEW s \in Int, NEW l \in Int, SetBalances(s, l) PROVE GivenGrows'
  BY <1>0, <1>1, <1>3, SetBalancesType DEF tip
<1>4. ASSUME NEW fork \in Forks, NEW step \in TimeSteps, NEW contribution \in Contributions,
             ConnectBlock(fork, step, contribution)
      PROVE  GivenGrows'
  <2>. DEFINE b == [fork      |-> fork,
                    time      |-> TipTime + step,
                    nCFSupply |-> chain[tip].nCFSupply + contribution,
                    nCFLocked |-> chain[tip].nCFLocked,
                    given     |-> chain[tip].given + contribution]
  <2>1. chain' = Append(chain, b) /\ b.given = chain[tip].given + contribution
    BY <1>4 DEF ConnectBlock
  <2>. HIDE DEF b
  <2>2. tip' = tip + 1 /\ chain'[tip + 1] = b /\ \A h \in 1..tip : chain'[h] = chain[h]
    BY <1>0, <2>1 DEF tip
  <2>3. chain[tip].given \in Nat /\ contribution \in Nat
    BY TipType, InputsAssumption DEF BlockIndex
  <2>4. ASSUME NEW h \in 1..tip
        PROVE  chain'[h].given <= chain'[h + 1].given
    <3>1. CASE h = tip
      BY <1>0, <2>1, <2>2, <2>3, <3>1
    <3>2. CASE h # tip
      <4>1. h \in 1..(tip - 1) /\ h \in 1..tip /\ h + 1 \in 1..tip
        BY <1>0, <3>2
      <4>. QED  BY <2>2, <4>1 DEF GivenGrows
    <3>. QED  BY <3>1, <3>2
  <2>5. tip' - 1 = tip
    BY <1>0, <2>2
  <2>. QED  BY <2>4, <2>5 DEF GivenGrows
<1>5. CASE DisconnectTip
  <2>1. tip' = tip - 1 /\ \A h \in 1..(tip - 1) : chain'[h] = chain[h]
    BY <1>5, ShorterChain
  <2>2. ASSUME NEW h \in 1..(tip' - 1)
        PROVE  chain'[h].given <= chain'[h + 1].given
    <3>1. h \in 1..(tip - 1) /\ h + 1 \in 1..(tip - 1)
      BY <1>0, <2>1
    <3>. QED  BY <2>1, <3>1 DEF GivenGrows
  <2>. QED  BY <2>2 DEF GivenGrows
<1>. QED
  <2>1. ASSUME NEW r \in Requests, UpdateRequest(r) PROVE GivenGrows'
    BY <1>2, <1>3, <2>1, RequestVisit
  <2>2. ASSUME NEW p \in Proposals, UpdateProposal(p) PROVE GivenGrows'
    BY <1>2, <1>3, <2>2, ProposalVisit
  <2>3. ASSUME NEW exclude \in Excludes, NEW tally \in [Counted -> Tallies],
               CountVotes(exclude, tally)
        PROVE  GivenGrows'
    BY <1>2, <2>3 DEF CountVotes
  <2>. QED  BY <1>2, <1>4, <1>5, <2>1, <2>2, <2>3 DEF Next, vars, AddProposal,
               AddPaymentRequest, PayRequest, RequestsDone, ConnectTipDone

-----------------------------------------------------------------------------
\* Every step of a block leads every object at most one state further.

LifeSteps == FavouredInv /\ ExpiredInv /\ LoopInv /\ LifeInv /\ GivenGrows

\* The coinbase pays an accepted request the block has not decided about.
LEMMA LifePay ==
  ASSUME HistoryInv, LoopInv, LifeInv, NEW r \in Requests, PayRequest(r)
  PROVE  LifeInv' /\ Unflagged(r) /\ GiveState(r, PAID) /\ PAID \in FlagsOf(r)
<1>1. r \in Objects /\ r \notin Proposals /\ PAID \in FlagsOf(r)
  BY RequestObjects DEF RequestFlags
<1>2. Exists(r) /\ State(r) = ACCEPTED /\ GiveState(r, PAID)
  BY DEF PayRequest, Payable, GiveState
<1>3. pc \in {"txs", "coinbase"} /\ pc' = "coinbase" /\ UNCHANGED <<chain, txblock>>
  BY DEF PayRequest
<1>4. tip' = tip /\ TipBlock' = TipBlock /\ tip > 1
  BY <1>3 DEF tip, TipBlock, LoopInv
<1>5. \A y \in Objects : Fresh(y)
  BY <1>3 DEF Fresh
<1>6. Unflagged(r)
  BY <1>1, <1>2, <1>3, <1>5 DEF LifeInv, PaidNow, ACCEPTED, PAID
<1>7. PAID \in NextOf(r)[State(r)]
  BY <1>1, <1>2, RequestLife DEF NextOf
<1>8. pc # "idle" /\ pc' # "txs"
  BY <1>3
<1>. QED  BY <1>1, <1>2, <1>3, <1>4, <1>5, <1>6, <1>7, <1>8, LifeFlag

\* The visit of a request.
LEMMA LifeRequest ==
  ASSUME FavouredInv, ExpiredInv, LoopInv, LifeInv, NEW r \in Requests, UpdateRequest(r)
  PROVE  LifeInv'
<1>1. r \in Objects /\ r \notin Proposals /\ FlagsOf(r) = RequestFlags /\ HistoryInv /\ TypeOK
  BY RequestObjects DEF FavouredInv, HistoryInv
<1>2. /\ pc = "requests" /\ r \in todo /\ pc' = pc /\ todo' = todo \ {r} /\ UNCHANGED txblock
      /\ pc # "idle" /\ pc' # "txs"
  BY DEF UpdateRequest, Visited
<1>3. tip' = tip /\ TipBlock' = TipBlock /\ tip > 1 /\ Exists(r)
  BY <1>1, <1>2, RequestVisit, TipKept DEF LoopInv, HistoryInv, TodoExists
<1>4. Fresh(r) /\ ~Fresh(r)' /\ \A y \in Objects : Fresh(y)' => Fresh(y)
  BY <1>1, <1>2 DEF Fresh
<1>5. CASE UNCHANGED mapState
  BY <1>2, <1>3, <1>4, <1>5, LifeSame
<1>6. ASSUME State(r) = NIL, NEW flag \in {ACCEPTED, REJECTED, EXPIRED}, GiveState(r, flag)
      PROVE  LifeInv'
  <2>1. Unflagged(r)
    BY <1>1, <1>2, <1>4, <1>6 DEF LifeInv, PaidNow, NIL, PAID
  <2>2. flag \in NextOf(r)[State(r)] /\ flag \in FlagsOf(r)
    BY <1>1, <1>6, RequestLife DEF NextOf, RequestFlags
  <2>. QED  BY <1>1, <1>2, <1>3, <1>4, <1>6, <2>1, <2>2, LifeFlag
<1>. QED  BY <1>5, <1>6, RequestDecided

\* The visit of a proposal.
LEMMA LifeProposal ==
  ASSUME FavouredInv, LoopInv, LifeInv, NEW p \in Proposals, UpdateProposal(p)
  PROVE  LifeInv'
<1>1. p \in Objects /\ p \notin Requests /\ FlagsOf(p) = ProposalFlags /\ HistoryInv /\ TypeOK
  BY ProposalObjects, RequestObjects DEF FavouredInv, HistoryInv
<1>2. /\ pc = "proposals" /\ p \in todo /\ pc' = pc /\ todo' = todo \ {p} /\ UNCHANGED txblock
      /\ pc # "idle" /\ pc' # "txs"
  BY DEF UpdateProposal, Visited
<1>3. tip' = tip /\ TipBlock' = TipBlock /\ tip > 1 /\ Exists(p)
  BY <1>1, <1>2, ProposalVisit, TipKept DEF LoopInv, HistoryInv, TodoExists
<1>4. Fresh(p) /\ ~Fresh(p)' /\ \A y \in Objects : Fresh(y)' => Fresh(y)
  BY <1>1, <1>2 DEF Fresh
<1>5. CASE UNCHANGED mapState
  BY <1>2, <1>3, <1>4, <1>5, LifeSame
<1>6. ASSUME NEW flag \in ProposalFlags, GiveState(p, flag),
             flag = State(p) \/ flag \in ProposalNext[State(p)]
      PROVE  LifeInv'
  <2>1. Unflagged(p)
    BY <1>1, <1>2, <1>4 DEF LifeInv, PaidNow
  <2>2. (flag = State(p) \/ flag \in NextOf(p)[State(p)]) /\ flag \in FlagsOf(p)
    BY <1>1, <1>6 DEF NextOf
  <2>. QED  BY <1>1, <1>2, <1>3, <1>4, <1>6, <2>1, <2>2, LifeFlag
<1>. QED  BY <1>5, <1>6, ProposalDecided

\* The first block has decided nothing.
LEMMA LifeInit == Init => LifeSteps
<1>. SUFFICES ASSUME Init PROVE LifeSteps
  OBVIOUS
<1>1. pc = "idle" /\ tip = 1 /\ \A x \in Objects : DOMAIN mapState[x] = {}
  BY DEF Init, tip, NoHistory
<1>2. ExpiredInv
  BY <1>1, RequestObjects DEF ExpiredInv
<1>3. LoopInv /\ LifeInv
  BY <1>1 DEF LoopInv, LifeInv
<1>4. GivenGrows
  <2>1. 1..(tip - 1) = {}
    BY <1>1
  <2>. QED  BY <2>1 DEF GivenGrows
<1>. QED  BY <1>2, <1>3, <1>4, FavouredInit DEF LifeSteps

\* No step breaks LifeSteps.
LEMMA LifeStep == LifeSteps /\ [Next]_vars => LifeSteps'
<1>. SUFFICES ASSUME LifeSteps, [Next]_vars PROVE LifeSteps'
  OBVIOUS
<1>0. /\ FavouredInv /\ HistoryInv /\ TypeOK
      /\ ExpiredInv /\ LoopInv /\ LifeInv /\ GivenGrows
  BY DEF LifeSteps, FavouredInv, HistoryInv
<1>1. ASSUME NEW fork \in Forks, NEW step \in TimeSteps, NEW contribution \in Contributions,
             ConnectBlock(fork, step, contribution)
      PROVE  LifeInv'
  BY <1>0, <1>1, LifeConnect
<1>2. ASSUME NEW p \in Proposals, AddProposal(p) PROVE LifeInv'
  BY <1>0, <1>2, LifeCreate, ProposalObjects DEF AddProposal
<1>3. ASSUME NEW r \in Requests, AddPaymentRequest(r) PROVE LifeInv'
  BY <1>0, <1>3, LifeCreate, RequestObjects DEF AddPaymentRequest
<1>4. ASSUME NEW r \in Requests, PayRequest(r) PROVE LifeInv'
  BY <1>0, <1>4, LifePay
<1>5. ASSUME NEW exclude \in Excludes, NEW tally \in [Counted -> Tallies],
             CountVotes(exclude, tally)
      PROVE  LifeInv'
  <2>1. /\ pc \in {"txs", "coinbase"} /\ pc' = "requests"
        /\ tip' = tip /\ TipBlock' = TipBlock /\ UNCHANGED <<txblock, mapState>>
    BY <1>5 DEF CountVotes, tip, TipBlock
  <2>2. \A x \in Objects : Fresh(x)
    BY <2>1 DEF Fresh
  <2>. QED  BY <1>0, <2>1, <2>2, LifeSame
<1>6. ASSUME NEW r \in Requests, UpdateRequest(r) PROVE LifeInv'
  BY <1>0, <1>6, LifeRequest
<1>7. ASSUME RequestsDone PROVE LifeInv'
  <2>1. /\ pc = "requests" /\ pc' = "proposals" /\ todo' \subseteq Proposals
        /\ tip' = tip /\ TipBlock' = TipBlock /\ UNCHANGED <<txblock, mapState>>
    BY <1>7 DEF RequestsDone, tip, TipBlock
  <2>2. \A x \in Objects : Fresh(x)' => Fresh(x)
    BY <2>1 DEF Fresh
  <2>. QED  BY <1>0, <2>1, <2>2, LifeSame
<1>8. ASSUME NEW p \in Proposals, UpdateProposal(p) PROVE LifeInv'
  BY <1>0, <1>8, LifeProposal
<1>9. ASSUME ConnectTipDone PROVE LifeInv'
  BY <1>9 DEF ConnectTipDone, LifeInv
<1>10. ASSUME DisconnectTip PROVE LifeInv'
  BY <1>10 DEF DisconnectTip, LifeInv
<1>11. ASSUME UNCHANGED vars PROVE LifeInv'
  <2>1. pc' = pc /\ tip' = tip /\ TipBlock' = TipBlock /\ UNCHANGED <<txblock, mapState, todo>>
    BY <1>11 DEF vars, tip, TipBlock
  <2>2. \A x \in Objects : Fresh(x)' => Fresh(x)
    BY <2>1 DEF Fresh
  <2>3. CASE pc = "idle"
    BY <2>1, <2>3 DEF LifeInv
  <2>4. CASE pc # "idle"
    BY <1>0, <2>1, <2>2, <2>4, LifeSame
  <2>. QED  BY <2>3, <2>4
<1>12. LifeInv'
  BY <1>1, <1>2, <1>3, <1>4, <1>5, <1>6, <1>7, <1>8, <1>9, <1>10, <1>11 DEF Next
<1>13. FavouredInv' /\ ExpiredInv' /\ LoopInv' /\ GivenGrows'
  BY <1>0, FavouredStep, ExpiredStep, LoopStep, GivenStep
<1>. QED  BY <1>12, <1>13 DEF LifeSteps

-----------------------------------------------------------------------------
\* Requests follow their approvals.

ApprovalInv == LifeSteps /\ RequestsFollowApproval

\* A history has one entry for each height.
LEMMA OneForEachHeight ==
  ASSUME HistoryInv, NEW x \in Objects, NEW b \in DOMAIN mapState[x], NEW c \in DOMAIN mapState[x],
         Height(b) = Height(c)
  PROVE  b = c
<1>1. OnChain(b) /\ OnChain(c)
  BY DEF HistoryInv, HistoryOnChain
<1>. QED  BY <1>1 DEF OnChain, Blocks, Height

\* A request created in this block finds its proposal accepted by an earlier one.
LEMMA CreatedAfterAccepted ==
  ASSUME HistoryInv, LifeInv, RequestHasAcceptedParent, NEW q \in Requests, AddPaymentRequest(q)
  PROVE  RequestHasAcceptedParent'
<1>1. /\ pc = "txs" /\ Exists(Parent[q]) /\ State(Parent[q]) = ACCEPTED
      /\ txblock' = [txblock EXCEPT ![q] = TipBlock] /\ UNCHANGED mapState
  BY DEF AddPaymentRequest, ValidPaymentRequest
<1>2. Height(TipBlock) = tip /\ TipBlock # NoBlock /\ tip \in Nat
  BY TipType DEF HistoryInv, NoBlock, Height
<1>3. /\ txblock'[q] = TipBlock
      /\ \A x \in Objects : x # q => txblock'[x] = txblock[x]
  BY <1>1, RequestObjects DEF HistoryInv, TypeOK
<1>4. ASSUME NEW r \in Requests, txblock'[r] # NoBlock
      PROVE  /\ txblock'[Parent[r]] # NoBlock
             /\ \E a \in BlocksWithState(mapState[Parent[r]], ACCEPTED) :
                  Height(a) < Height(txblock'[r])
  <2>1. r \in Objects /\ Parent[r] \in Objects /\ Parent[r] # q
    BY RequestObjects, ProposalObjects
  <2>2. CASE r = q
    <3>1. Unflagged(Parent[q])
      BY <1>1, <2>1, <2>2 DEF LifeInv, Fresh, PaidNow
    <3>2. PICK a \in DOMAIN mapState[Parent[q]] : mapState[Parent[q]][a] = ACCEPTED
      BY <1>1, <2>1, <2>2, StateGiven DEF NIL, ACCEPTED
    <3>3. Height(a) < tip
      BY <2>1, <2>2, <3>1, <3>2, HistoryBlocks DEF Unflagged
    <3>4. txblock'[Parent[q]] # NoBlock
      BY <1>1, <1>3, <2>1, <2>2 DEF Exists
    <3>. QED  BY <1>2, <1>3, <2>2, <3>2, <3>3, <3>4 DEF BlocksWithState
  <2>3. CASE r # q
    BY <1>3, <1>4, <2>1, <2>3 DEF RequestHasAcceptedParent, Exists
  <2>. QED  BY <2>2, <2>3
<1>. QED  BY <1>1, <1>4 DEF RequestHasAcceptedParent, Exists

\* A flag of the tip takes no approval back: it would have to be the one a
\* request of the chain was created after.
LEMMA FlagKeepsParents ==
  ASSUME HistoryInv, RequestHasAcceptedParent, NEW x \in Objects, NEW flag, GiveState(x, flag),
         UNCHANGED txblock
  PROVE  RequestHasAcceptedParent'
<1>1. /\ mapState'[x] = SetState(mapState[x], TipBlock, flag)
      /\ \A y \in Objects : y # x => mapState'[y] = mapState[y]
  BY DEF GiveState, HistoryInv, TypeOK
<1>2. Height(TipBlock) = tip /\ tip \in Nat
  BY TipType DEF HistoryInv
<1>3. ASSUME NEW r \in Requests, Exists(r)
      PROVE  /\ Exists(Parent[r])
             /\ \E a \in BlocksWithState(mapState'[Parent[r]], ACCEPTED) :
                  Height(a) < Height(txblock[r])
  <2>1. r \in Objects /\ Parent[r] \in Objects
    BY RequestObjects, ProposalObjects
  <2>2. Height(txblock[r]) \in Nat /\ Height(txblock[r]) <= tip
    BY <1>3, <2>1, CreationHeight
  <2>3. Exists(Parent[r])
    BY <1>3 DEF RequestHasAcceptedParent
  <2>4. PICK a \in BlocksWithState(mapState[Parent[r]], ACCEPTED) : Height(a) < Height(txblock[r])
    BY <1>3 DEF RequestHasAcceptedParent
  <2>5. a \in DOMAIN mapState[Parent[r]] /\ mapState[Parent[r]][a] = ACCEPTED /\ Height(a) \in Nat
    BY <2>1, <2>4, HistoryBlocks DEF BlocksWithState
  <2>6. a # TipBlock
    BY <1>2, <2>2, <2>4, <2>5
  <2>7. a \in DOMAIN mapState'[Parent[r]] /\ mapState'[Parent[r]][a] = ACCEPTED
    BY <1>1, <2>1, <2>5, <2>6 DEF SetState
  <2>. QED  BY <2>3, <2>4, <2>7 DEF BlocksWithState
<1>. QED  BY <1>3 DEF RequestHasAcceptedParent, Exists

\* A request that is paid was not paid before, and was accepted long enough ago.
LEMMA PaidInTime ==
  ASSUME HistoryInv, LoopInv, LifeInv, PaidAfterAccepted, NEW q \in Requests, PayRequest(q)
  PROVE  PaidAfterAccepted'
<1>. DEFINE m == mapState[q]
            old == GetLastStateBlockIndexForState(m, ACCEPTED)
<1>1. q \in Objects /\ tip \in Nat /\ Height(TipBlock) = tip /\ MinAge \in Nat
  BY TipType, RequestObjects, ParametersAssumption DEF HistoryInv
<1>2. State(q) = ACCEPTED /\ tip - 1 - Height(old) > MinAge
  BY DEF PayRequest, Payable
<1>3. /\ DOMAIN m \subseteq Nat \X Nat
      /\ \A c \in DOMAIN m : Height(c) \in Nat /\ Height(c) <= tip
  BY <1>1, HistoryBlocks
<1>4. /\ mapState'[q] = SetState(m, TipBlock, PAID)
      /\ \A x \in Objects : x # q => mapState'[x] = mapState[x]
  BY <1>1 DEF PayRequest, HistoryInv, TypeOK
<1>5. DOMAIN m # {}
  BY <1>2 DEF State, GetLastState, NIL, ACCEPTED
<1>6. PICK d \in DOMAIN m : m[d] = ACCEPTED /\ \A c \in DOMAIN m : Height(c) <= Height(d)
  BY <1>1, <1>2, <1>3, <1>5, LastStateGiven DEF State
<1>7. old \in DOMAIN m /\ m[old] = ACCEPTED
  <2>1. BlocksWithState(m, ACCEPTED) # {} /\ BlocksWithState(m, ACCEPTED) \subseteq DOMAIN m
    BY <1>6 DEF BlocksWithState
  <2>2. old \in BlocksWithState(m, ACCEPTED)
    BY <1>1, <1>3, <2>1, HighestIsHighest DEF GetLastStateBlockIndexForState
  <2>. QED  BY <2>2 DEF BlocksWithState
<1>8. ASSUME NEW b \in DOMAIN m PROVE m[b] # PAID
  <2>1. SUFFICES ASSUME m[b] = PAID PROVE FALSE
    OBVIOUS
  <2>2. Height(d) <= Height(b)
    BY <2>1 DEF PaidAfterAccepted, BlocksWithState
  <2>3. Height(d) = Height(b)
    BY <1>3, <1>6, <2>2
  <2>4. d = b
    BY <1>1, <2>3, OneForEachHeight
  <2>. QED  BY <1>6, <2>1, <2>4 DEF PAID, ACCEPTED
<1>. HIDE DEF m, old
<1>9. ASSUME NEW r \in Requests, NEW b \in DOMAIN mapState'[r], mapState'[r][b] = PAID
      PROVE  /\ \E a \in BlocksWithState(mapState'[r], ACCEPTED) : Height(b) - 1 - Height(a) > MinAge
             /\ \A c \in DOMAIN mapState'[r] : Height(c) <= Height(b)
  <2>1. CASE r = q
    <3>1. b = TipBlock
      BY <1>4, <1>8, <1>9, <2>1 DEF SetState
    <3>2. Height(old) \in Nat /\ old # TipBlock
      BY <1>1, <1>2, <1>3, <1>7
    <3>3. old \in DOMAIN mapState'[q] /\ mapState'[q][old] = ACCEPTED
      BY <1>4, <1>7, <3>2 DEF SetState
    <3>4. \A c \in DOMAIN mapState'[q] : Height(c) <= tip
      BY <1>1, <1>3, <1>4 DEF SetState
    <3>. QED  BY <1>1, <1>2, <2>1, <3>1, <3>3, <3>4 DEF BlocksWithState
  <2>2. CASE r # q
    <3>1. mapState'[r] = mapState[r]
      BY <1>4, <2>2, RequestObjects
    <3>. QED  BY <1>9, <3>1 DEF PaidAfterAccepted, BlocksWithState
  <2>. QED  BY <2>1, <2>2
<1>. QED  BY <1>9 DEF PaidAfterAccepted, BlocksWithState

\* A disconnected block takes back approvals only together with what followed.
LEMMA DisconnectKeepsApproval ==
  ASSUME HistoryInv, RequestsFollowApproval, DisconnectTip
  PROVE  RequestsFollowApproval'
<1>1. tip \in Nat /\ Height(TipBlock) = tip /\ MinAge \in Nat
  BY TipType, ParametersAssumption DEF HistoryInv
<1>2. ASSUME NEW r \in Requests, txblock'[r] # NoBlock
      PROVE  /\ txblock'[Parent[r]] # NoBlock
             /\ \E a \in BlocksWithState(mapState'[Parent[r]], ACCEPTED) :
                  Height(a) < Height(txblock'[r])
  <2>1. r \in Objects /\ Parent[r] \in Objects
    BY RequestObjects, ProposalObjects
  <2>2. txblock'[r] = txblock[r] /\ Exists(r)
    BY <1>2, <2>1, UndoneIs DEF Exists
  <2>3. Height(txblock[r]) \in Nat /\ Height(txblock[r]) <= tip
    BY <2>1, <2>2, CreationHeight
  <2>4. Exists(Parent[r])
    BY <2>2 DEF RequestsFollowApproval, RequestHasAcceptedParent
  <2>5. PICK a \in DOMAIN mapState[Parent[r]] :
          mapState[Parent[r]][a] = ACCEPTED /\ Height(a) < Height(txblock[r])
    BY <2>2 DEF RequestsFollowApproval, RequestHasAcceptedParent, BlocksWithState
  <2>6. Height(a) \in Nat /\ Height(txblock[Parent[r]]) \in Nat
        /\ Height(txblock[Parent[r]]) <= Height(a)
    BY <2>1, <2>4, <2>5, HistoryBlocks, CreationHeight DEF HistoryInv, HistoryOnChain
  <2>7. a # TipBlock /\ txblock[Parent[r]] # TipBlock
    <3>1. Height(a) < tip /\ Height(txblock[Parent[r]]) < tip
      BY <1>1, <2>3, <2>5, <2>6
    <3>. QED  BY <1>1, <3>1
  <2>8. txblock'[Parent[r]] # NoBlock
    BY <2>1, <2>4, <2>7, UndoneIs DEF Exists
  <2>9. a \in DOMAIN mapState'[Parent[r]] /\ mapState'[Parent[r]][a] = ACCEPTED
    BY <2>1, <2>5, <2>7, UndoneIs
  <2>. QED  BY <2>2, <2>5, <2>8, <2>9 DEF BlocksWithState
<1>3. ASSUME NEW r \in Requests, NEW b \in DOMAIN mapState'[r], mapState'[r][b] = PAID
      PROVE  /\ \E a \in BlocksWithState(mapState'[r], ACCEPTED) : Height(b) - 1 - Height(a) > MinAge
             /\ \A c \in DOMAIN mapState'[r] : Height(c) <= Height(b)
  <2>1. r \in Objects
    BY RequestObjects
  <2>2. /\ b \in DOMAIN mapState[r] /\ mapState[r][b] = PAID
        /\ DOMAIN mapState'[r] \subseteq DOMAIN mapState[r]
        /\ Height(b) \in Nat /\ Height(b) <= tip
    BY <1>3, <2>1, UndoneIs, HistoryBlocks
  <2>3. txblock[r] # TipBlock
    BY <1>3, <2>1 DEF DisconnectTip, Undone, NoHistory
  <2>4. PICK a \in DOMAIN mapState[r] :
          mapState[r][a] = ACCEPTED /\ Height(b) - 1 - Height(a) > MinAge
    BY <2>2 DEF RequestsFollowApproval, PaidAfterAccepted, BlocksWithState
  <2>5. Height(a) \in Nat
    BY <2>1, <2>4, HistoryBlocks
  <2>6. a # TipBlock
    BY <1>1, <2>2, <2>4, <2>5
  <2>7. a \in DOMAIN mapState'[r] /\ mapState'[r][a] = ACCEPTED
    BY <2>1, <2>3, <2>4, <2>6, UndoneIs
  <2>8. \A c \in DOMAIN mapState'[r] : Height(c) <= Height(b)
    BY <2>2 DEF RequestsFollowApproval, PaidAfterAccepted, BlocksWithState
  <2>. QED  BY <2>4, <2>7, <2>8 DEF BlocksWithState
<1>4. RequestHasAcceptedParent'
  BY <1>2 DEF RequestHasAcceptedParent, Exists
<1>5. PaidAfterAccepted'
  BY <1>3 DEF PaidAfterAccepted, BlocksWithState
<1>. QED  BY <1>4, <1>5 DEF RequestsFollowApproval

\* VoteStep decides about a request only before it is paid.
LEMMA VisitKeepsPaid ==
  ASSUME FavouredInv, ExpiredInv, PaidAfterAccepted, NEW q \in Requests, UpdateRequest(q)
  PROVE  PaidAfterAccepted'
<1>1. HistoryInv /\ TypeOK /\ q \in Objects
  BY RequestObjects DEF FavouredInv, HistoryInv
<1>2. CASE UNCHANGED mapState
  BY <1>2 DEF PaidAfterAccepted
<1>3. ASSUME State(q) = NIL, NEW flag \in {ACCEPTED, REJECTED, EXPIRED}, GiveState(q, flag)
      PROVE  PaidAfterAccepted'
  <2>1. DOMAIN mapState[q] = {}
    BY <1>1, <1>3, UndecidedIs
  <2>2. /\ DOMAIN mapState'[q] = {TipBlock} /\ mapState'[q][TipBlock] = flag
        /\ \A r \in Objects : r # q => mapState'[r] = mapState[r]
    BY <1>1, <1>3, <2>1 DEF GiveState, SetState, TypeOK
  <2>3. flag # PAID
    BY DEF ACCEPTED, REJECTED, EXPIRED, PAID
  <2>4. ASSUME NEW r \in Requests, NEW b \in DOMAIN mapState'[r], mapState'[r][b] = PAID
        PROVE  mapState'[r] = mapState[r]
    <3>1. r # q
      BY <2>2, <2>3, <2>4
    <3>. QED  BY <2>2, <3>1, RequestObjects
  <2>. QED  BY <2>4 DEF PaidAfterAccepted, BlocksWithState
<1>. QED  BY <1>2, <1>3, RequestDecided

\* No step breaks RequestsFollowApproval.
LEMMA ApprovalStep == ApprovalInv /\ [Next]_vars => ApprovalInv'
<1>. SUFFICES ASSUME ApprovalInv, [Next]_vars PROVE ApprovalInv'
  OBVIOUS
<1>0. /\ LifeSteps /\ FavouredInv /\ HistoryInv /\ TypeOK /\ ExpiredInv /\ LoopInv /\ LifeInv
      /\ RequestHasAcceptedParent /\ PaidAfterAccepted /\ RequestsFollowApproval
  BY DEF ApprovalInv, LifeSteps, FavouredInv, HistoryInv, RequestsFollowApproval
<1>. DEFINE Kept == RequestHasAcceptedParent' /\ PaidAfterAccepted'
<1>1. ASSUME UNCHANGED <<txblock, mapState>> PROVE Kept
  BY <1>0, <1>1 DEF RequestHasAcceptedParent, PaidAfterAccepted, Exists
<1>2. ASSUME NEW p \in Proposals, AddProposal(p) PROVE Kept
  <2>1. UNCHANGED mapState
    BY <1>2 DEF AddProposal
  <2>2. PaidAfterAccepted'
    BY <1>0, <2>1 DEF PaidAfterAccepted
  <2>3. /\ \A x \in Objects : x # p => txblock'[x] = txblock[x]
        /\ txblock'[p] # NoBlock
    <3>1. TipBlock # NoBlock
      BY <1>0, TipType DEF NoBlock, Height
    <3>2. DOMAIN txblock = Objects /\ p \in Objects
      BY <1>0, ProposalObjects DEF TypeOK
    <3>. QED  BY <1>2, <3>1, <3>2 DEF AddProposal
  <2>4. \A r \in Requests : txblock'[r] = txblock[r] /\ (Exists(Parent[r]) => Exists(Parent[r])')
    BY <2>3, RequestObjects, ProposalObjects DEF Exists
  <2>. QED  BY <1>0, <2>1, <2>2, <2>4 DEF RequestHasAcceptedParent, Exists
<1>3. ASSUME NEW r \in Requests, AddPaymentRequest(r) PROVE Kept
  <2>1. PaidAfterAccepted'
    BY <1>0, <1>3 DEF AddPaymentRequest, PaidAfterAccepted
  <2>. QED  BY <1>0, <1>3, <2>1, CreatedAfterAccepted
<1>4. ASSUME NEW r \in Requests, PayRequest(r) PROVE Kept
  <2>1. GiveState(r, PAID) /\ UNCHANGED txblock /\ r \in Objects
    BY <1>4, RequestObjects DEF PayRequest, GiveState
  <2>. QED  BY <1>0, <1>4, <2>1, FlagKeepsParents, PaidInTime
<1>5. ASSUME NEW r \in Requests, UpdateRequest(r) PROVE Kept
  <2>1. UNCHANGED txblock /\ r \in Objects /\ (UNCHANGED mapState \/ \E flag : GiveState(r, flag))
    BY <1>0, <1>5, RequestObjects, RequestVisit DEF UpdateRequest
  <2>2. RequestHasAcceptedParent'
    BY <1>0, <1>1, <2>1, FlagKeepsParents
  <2>. QED  BY <1>0, <1>5, <2>2, VisitKeepsPaid
<1>6. ASSUME NEW p \in Proposals, UpdateProposal(p) PROVE Kept
  <2>1. UNCHANGED txblock /\ p \in Objects /\ (UNCHANGED mapState \/ \E flag : GiveState(p, flag))
    BY <1>0, <1>6, ProposalObjects, ProposalVisit DEF UpdateProposal
  <2>2. RequestHasAcceptedParent'
    BY <1>0, <1>1, <2>1, FlagKeepsParents
  <2>3. \A r \in Requests : mapState'[r] = mapState[r]
    BY <1>0, <2>1, RequestObjects DEF GiveState, TypeOK
  <2>4. PaidAfterAccepted'
    BY <1>0, <2>3 DEF PaidAfterAccepted
  <2>. QED  BY <2>2, <2>4
<1>7. ASSUME DisconnectTip PROVE Kept
  BY <1>0, <1>7, DisconnectKeepsApproval DEF RequestsFollowApproval
<1>8. ASSUME NEW fork \in Forks, NEW step \in TimeSteps, NEW contribution \in Contributions,
             ConnectBlock(fork, step, contribution)
      PROVE  Kept
  BY <1>1, <1>8 DEF ConnectBlock
<1>9. ASSUME NEW exclude \in Excludes, NEW tally \in [Counted -> Tallies],
             CountVotes(exclude, tally)
      PROVE  Kept
  BY <1>1, <1>9 DEF CountVotes
<1>10. ASSUME RequestsDone \/ ConnectTipDone \/ UNCHANGED vars PROVE Kept
  BY <1>1, <1>10 DEF RequestsDone, ConnectTipDone, vars
<1>. HIDE DEF Kept
<1>11. Kept
  BY <1>2, <1>3, <1>4, <1>5, <1>6, <1>7, <1>8, <1>9, <1>10 DEF Next
<1>. QED  BY <1>0, <1>11, LifeStep DEF ApprovalInv, RequestsFollowApproval, Kept

\* A request follows its approvals (IsValidPaymentRequest, the coinbase check of
\* ConnectBlock): whatever reorganisations happen, every request of the view was
\* created after a block of the active chain accepted its proposal, and every
\* paid one was accepted by the active chain more than the minimal age before.
THEOREM ApprovalCorrect == Spec => []RequestsFollowApproval
<1>1. Init => ApprovalInv
  <2>. SUFFICES ASSUME Init PROVE ApprovalInv
    OBVIOUS
  <2>1. \A x \in Objects : ~Exists(x) /\ DOMAIN mapState[x] = {}
    BY DEF Init, Exists, NoHistory
  <2>. QED  BY <2>1, LifeInit, RequestObjects DEF ApprovalInv, RequestsFollowApproval,
               RequestHasAcceptedParent, PaidAfterAccepted, BlocksWithState
<1>2. ApprovalInv => RequestsFollowApproval
  BY DEF ApprovalInv
<1>. QED  BY <1>1, <1>2, ApprovalStep, PTL DEF Spec
=============================================================================
