--------------------------- MODULE CommunityFund ---------------------------
(***************************************************************************)
(* The community fund of the DAO: the money it holds, the proposals it     *)
(* finances and the payment requests by which a proposal draws its money,  *)
(* as blocks connect to and disconnect from the tip of the chain           *)
(* (ConnectTip and DisconnectTip in main.cpp, VoteStep in                  *)
(* consensus/dao.cpp).                                                     *)
(*                                                                         *)
(* Every block index carries the two balances of the fund after that       *)
(* block: nCFSupply, free, and nCFLocked, set aside for accepted           *)
(* proposals.  cs_main is held while a block connects, so its steps follow *)
(* each other undisturbed; pc says which loop runs and todo what that loop *)
(* has not visited yet.  A block that fails to connect leaves no trace (its *)
(* view is dropped) and is not a step here.                                *)
(*                                                                         *)
(* How votes are counted is the subject of VoteTally; here the count of an *)
(* object that can be voted, and the number of excluded blocks, are any    *)
(* member of Tallies and Excludes.  They are sampled in the last block of  *)
(* a cycle, the only one that uses them.                                   *)
(***************************************************************************)
EXTENDS Integers, Sequences, FiniteSets, StateHistory, Money

CONSTANTS
  Proposals, Requests,  \* hashes, numbers because the code visits them in order
  Amount,               \* nAmount of each proposal and request
  Parent,               \* proposalhash of each request
  Deadline,             \* nDeadline of each proposal
  Version,              \* the version bits set in each proposal and request
  CycleLength,          \* VOTING_CYCLE_LENGTH
  ProposalMaxCycles, RequestMaxCycles,        \* *_MAX_VOTING_CYCLES
  MinQuorum, MinAccept, MinReject,            \* of both kinds, in hundredths of 1%
  QuorumFirstHalf, QuorumSecondHalf,          \* nMinimumQuorumFirstHalf...
  MinAge,               \* nCommunityFundMinAge
  Tallies,              \* the vote counts a cycle can end with
  Excludes,             \* the numbers of excluded blocks a cycle can have
  Contributions,        \* what a block can give to the fund
  TimeSteps,            \* the seconds between two blocks
  Forks,                \* what tells the blocks of one height apart
  MaxHeight, MaxGiven   \* bounds: height of the chain, sum of contributions

VARIABLES
  chain,         \* chainActive: chain[h] is the block index of height h
  txblock,       \* txblockhash of each object, NoBlock if it is not in the view
  mapState,      \* the state history of each object
  nVotingCycle,  \* cycles since the object was created
  votes,         \* nVotesYes, nVotesNo and nVotesAbs
  nExclude,      \* GetExcludeVotes() of the view
  pc, todo       \* the running loop and what it has left

vars == <<chain, txblock, mapState, nVotingCycle, votes, nExclude, pc, todo>>

Objects == Proposals \cup Requests
Kind(x) == IF x \in Proposals THEN "proposal" ELSE "request"
Kinds == {"proposal", "request"}
Heights == 1..MaxHeight
Blocks == Heights \X Forks
NoBlock == <<0, 0>>
Tally == [yes : Nat, no : Nat, abs : Nat]
NoVotes == [yes |-> 0, no |-> 0, abs |-> 0]
BlockIndex == [fork : Forks, time : Nat, nCFSupply : Int, nCFLocked : Int,
               given : Nat]

ASSUME ObjectsAssumption ==
  /\ Proposals \subseteq Nat /\ IsFiniteSet(Proposals)
  /\ Requests \subseteq Nat /\ IsFiniteSet(Requests)
  /\ Proposals \cap Requests = {}
  /\ Amount \in [Objects -> 0..MaxAmount]
  /\ Parent \in [Requests -> Proposals]
  /\ Deadline \in [Proposals -> Nat]
  /\ Version \in [Objects -> SUBSET {"REDUCED_QUORUM", "ABSTAIN_VOTE",
                                     "EXCLUDE", "SUPER"}]

ASSUME ParametersAssumption ==
  /\ CycleLength \in Nat \ {0}
  /\ ProposalMaxCycles \in Nat /\ RequestMaxCycles \in Nat
  /\ MinQuorum \in [Kinds -> Nat]
  /\ MinAccept \in [Kinds -> Nat] /\ MinReject \in [Kinds -> Nat]
  /\ QuorumFirstHalf \in Nat /\ QuorumSecondHalf \in Nat
  /\ MinAge \in Nat

\* The thresholds of chainparams.cpp, 70% both: no count passes both of them.
ASSUME ThresholdsAssumption ==
  \A k \in Kinds : MinAccept[k] + MinReject[k] >= 10000

\* As on every network of chainparams.cpp: a cycle has more than one block, and
\* the cap on the cycles of a request (see VotingCycles) is not below the maximum.
ASSUME CyclesAssumption == CycleLength > 1 /\ RequestMaxCycles <= CycleLength

ASSUME InputsAssumption ==
  /\ Tallies \subseteq Tally /\ Excludes \subseteq 0..CycleLength
  /\ Contributions \subseteq Nat /\ TimeSteps \subseteq Nat
  /\ Forks \subseteq Nat /\ 1 \in Forks
  /\ MaxHeight \in Nat \ {0} /\ MaxGiven \in Nat

-----------------------------------------------------------------------------
\* The view.

tip == Len(chain)
TipBlock == <<tip, chain[tip].fork>>
TipTime == chain[tip].time

Exists(x) == txblock[x] # NoBlock
State(x) == GetLastState(mapState[x])
IsSuper(x) == "SUPER" \in Version[x]

\* (nHeight + 1) % nCycleLength == 0: the last block of a voting cycle.
EndOfCycle == (tip + 1) % CycleLength = 0

RequestsOf(p) == {r \in Requests : Exists(r) /\ Parent[r] = p}

GetAvailable(p, fIncludeRequests) ==
  LET counted(r) == IF fIncludeRequests
                    THEN State(r) \notin {REJECTED, EXPIRED}
                    ELSE State(r) \in {ACCEPTED, PAID}
  IN  Amount[p] - Total({r \in RequestsOf(p) : counted(r)}, Amount)

CanVote(x) ==
  /\ Exists(x)
  /\ State(x) = NIL
  /\ x \in Requests =>
       /\ Amount[x] <= GetAvailable(Parent[x], FALSE)
       /\ Exists(Parent[x])
       /\ State(Parent[x]) \in {ACCEPTED, PENDING_VOTING_PREQ}

HasPendingPaymentRequests(p) == \E r \in RequestsOf(p) : CanVote(r)

-----------------------------------------------------------------------------
\* Verdicts.  Percentages are in hundredths, as the parameters are.

MaxVotingCycles(x) ==
  IF x \in Proposals THEN ProposalMaxCycles ELSE RequestMaxCycles

\* The reduced quorum replaces the other one, that of super objects too.
Quorum(x, cycle) ==
  IF "REDUCED_QUORUM" \in Version[x]
  THEN IF cycle > MaxVotingCycles(x) \div 2 THEN QuorumSecondHalf ELSE QuorumFirstHalf
  ELSE IF IsSuper(x) THEN 7500 ELSE MinQuorum[Kind(x)]

TotalVotes(x, v) ==
  v.yes + v.no + (IF "ABSTAIN_VOTE" \in Version[x] THEN v.abs ELSE 0)

Share(x, min) == IF IsSuper(x) THEN 9000 ELSE min[Kind(x)]

QuorumReached(x, v, cycle) ==
  LET exclude == IF "EXCLUDE" \in Version[x] THEN nExclude ELSE 0
  IN  10000 * TotalVotes(x, v) > (CycleLength - exclude) * Quorum(x, cycle)

InFavour(x, v) == 10000 * v.yes > TotalVotes(x, v) * Share(x, MinAccept)
Against(x, v) == 10000 * v.no > TotalVotes(x, v) * Share(x, MinReject)

IsAccepted(x, cycle) == QuorumReached(x, votes[x], cycle) /\ InFavour(x, votes[x])
IsRejected(x, cycle) == QuorumReached(x, votes[x], cycle) /\ Against(x, votes[x])

\* Mutant: a request may be voted for one cycle more than its maximum.
IsExpiredRequest_Late(r, cycle) ==
  /\ cycle > RequestMaxCycles + 1
  /\ State(r) \notin {ACCEPTED, REJECTED, PAID}

\* A request has no deadline: it expires when it was voted for too long.
IsExpiredRequest(r, cycle) ==
  /\ cycle > RequestMaxCycles
  /\ State(r) \notin {ACCEPTED, REJECTED, PAID}

\* A proposal expires by its deadline once it is accepted, by the number of
\* voting cycles before that; one that waits for its requests stays expired.
IsExpiredProposal(p, cycle) ==
  LET accepted == GetLastStateBlockIndexForState(mapState[p], ACCEPTED)
  IN  \/ /\ State(p) = ACCEPTED
         /\ chain[Height(accepted)].time + Deadline[p] < TipTime
      \/ State(p) \in {EXPIRED, PENDING_VOTING_PREQ}
      \/ cycle > ProposalMaxCycles /\ State(p) = NIL

MinOf(a, b) == IF a < b THEN a ELSE b

\* Cycles elapsed since the object's block.  The cap on a request's is the
\* cycle length, not its maximum of voting cycles.
VotingCycles(x, height) ==
  MinOf(height \div CycleLength - Height(txblock[x]) \div CycleLength,
        IF x \in Proposals THEN ProposalMaxCycles + 1 ELSE CycleLength + 1)

-----------------------------------------------------------------------------
\* ConnectBlock.

Init ==
  /\ chain = <<[fork |-> 1, time |-> 0, nCFSupply |-> 0, nCFLocked |-> 0, given |-> 0]>>
  /\ txblock = [x \in Objects |-> NoBlock]
  /\ mapState = [x \in Objects |-> NoHistory]
  /\ nVotingCycle = [x \in Objects |-> 0]
  /\ votes = [x \in Objects |-> NoVotes]
  /\ nExclude = 0
  /\ pc = "idle" /\ todo = {}

\* A block starts from the balances of its predecessor; the outputs of its
\* transactions that contribute to the fund add to the supply.
ConnectBlock(fork, step, contribution) ==
  /\ pc = "idle"
  /\ tip < MaxHeight /\ chain[tip].given + contribution <= MaxGiven
  /\ chain' = Append(chain, [fork      |-> fork,
                             time      |-> TipTime + step,
                             nCFSupply |-> chain[tip].nCFSupply + contribution,
                             nCFLocked |-> chain[tip].nCFLocked,
                             given     |-> chain[tip].given + contribution])
  /\ pc' = "txs"
  /\ UNCHANGED <<txblock, mapState, nVotingCycle, votes, nExclude, todo>>

AddProposal(p) ==
  /\ pc = "txs" /\ ~Exists(p)
  /\ txblock' = [txblock EXCEPT ![p] = TipBlock]
  /\ UNCHANGED <<chain, mapState, nVotingCycle, votes, nExclude, pc, todo>>

\* Mutant: what undecided requests ask for is available.
ValidPaymentRequest_Undecided(r) ==
  /\ Exists(Parent[r]) /\ State(Parent[r]) = ACCEPTED
  /\ Amount[r] <= GetAvailable(Parent[r], FALSE)

\* IsValidPaymentRequest: what earlier requests ask for is not available.
ValidPaymentRequest(r) ==
  /\ Exists(Parent[r]) /\ State(Parent[r]) = ACCEPTED
  /\ Amount[r] <= GetAvailable(Parent[r], TRUE)

AddPaymentRequest(r) ==
  /\ pc = "txs" /\ ~Exists(r)
  /\ ValidPaymentRequest(r)
  /\ txblock' = [txblock EXCEPT ![r] = TipBlock]
  /\ UNCHANGED <<chain, mapState, nVotingCycle, votes, nExclude, pc, todo>>

\* Mutant: one block too early.
Payable_Early(r) ==
  /\ Exists(r) /\ Exists(Parent[r]) /\ Amount[r] > 0
  /\ State(r) = ACCEPTED
  /\ tip - 1 - Height(GetLastStateBlockIndexForState(mapState[r], ACCEPTED)) >= MinAge

\* An accepted request may be paid once it is old enough.
Payable(r) ==
  /\ Exists(r) /\ Exists(Parent[r]) /\ Amount[r] > 0
  /\ State(r) = ACCEPTED
  /\ tip - 1 - Height(GetLastStateBlockIndexForState(mapState[r], ACCEPTED)) > MinAge

\* The coinbase, looked at after the other transactions, pays a request.
PayRequest(r) ==
  /\ pc \in {"txs", "coinbase"}
  /\ Payable(r)
  /\ mapState' = [mapState EXCEPT ![r] = SetState(@, TipBlock, PAID)]
  /\ pc' = "coinbase"
  /\ UNCHANGED <<chain, txblock, nVotingCycle, votes, nExclude, todo>>

-----------------------------------------------------------------------------
\* VoteStep after ConnectBlock: counts, then requests, then proposals.

\* The objects whose count matters after this block.
Counted == {x \in Objects : EndOfCycle /\ CanVote(x)}

CountVotes(exclude, tally) ==
  /\ pc \in {"txs", "coinbase"}
  /\ nExclude' = IF EndOfCycle THEN exclude ELSE nExclude
  /\ votes' = [x \in Objects |-> IF x \in Counted THEN tally[x] ELSE votes[x]]
  /\ pc' = "requests" /\ todo' = {r \in Requests : Exists(r)}
  /\ UNCHANGED <<chain, txblock, mapState, nVotingCycle>>

\* The object the running loop visits next.
Visited(x) == x \in todo /\ \A y \in todo : x <= y

GiveState(x, flag) ==
  mapState' = [mapState EXCEPT ![x] = SetState(@, TipBlock, flag)]

SetBalances(nCFSupply, nCFLocked) ==
  chain' = [chain EXCEPT ![tip].nCFSupply = nCFSupply, ![tip].nCFLocked = nCFLocked]

\* The cycle is refreshed before a request is judged.
RequestCycle(r) == IF State(r) = NIL THEN VotingCycles(r, tip) ELSE nVotingCycle[r]

RequestExpires(r) == EndOfCycle /\ IsExpiredRequest(r, RequestCycle(r))

RequestFails(r) ==
  /\ EndOfCycle /\ ~RequestExpires(r)
  /\ IsRejected(r, RequestCycle(r))

RequestPasses(r) ==
  /\ EndOfCycle /\ ~RequestExpires(r) /\ ~RequestFails(r)
  /\ State(r) = NIL
  /\ Exists(Parent[r]) /\ State(Parent[r]) \in {ACCEPTED, PENDING_VOTING_PREQ}
  /\ IsAccepted(r, RequestCycle(r))
  /\ IsSuper(Parent[r]) \/ Amount[r] <= chain[tip].nCFLocked
  /\ Amount[r] <= GetAvailable(Parent[r], FALSE)

\* Mutant: a request is given the flag of a proposal.
ExpireRequest_WrongFlag(r) ==
  /\ RequestExpires(r) /\ State(r) \notin {EXPIRED, ACCEPTED, REJECTED}
  /\ GiveState(r, ACCEPTED_EXPIRED)
  /\ UNCHANGED chain

ExpireRequest(r) ==
  /\ RequestExpires(r) /\ State(r) \notin {EXPIRED, ACCEPTED, REJECTED}
  /\ GiveState(r, EXPIRED)
  /\ UNCHANGED chain

RejectRequest(r) ==
  /\ RequestFails(r) /\ State(r) # REJECTED
  /\ GiveState(r, REJECTED)
  /\ UNCHANGED chain

\* Mutant: the money stays locked.
AcceptRequest_KeepLocked(r) ==
  RequestPasses(r) /\ GiveState(r, ACCEPTED) /\ UNCHANGED chain

AcceptRequest(r) ==
  /\ RequestPasses(r)
  /\ GiveState(r, ACCEPTED)
  /\ IF IsSuper(Parent[r]) THEN UNCHANGED chain
     ELSE SetBalances(chain[tip].nCFSupply, chain[tip].nCFLocked - Amount[r])

KeepRequest(r) ==
  /\ ~(RequestExpires(r) /\ State(r) \notin {EXPIRED, ACCEPTED, REJECTED})
  /\ ~(RequestFails(r) /\ State(r) # REJECTED)
  /\ ~RequestPasses(r)
  /\ UNCHANGED <<mapState, chain>>

UpdateRequest(r) ==
  /\ pc = "requests" /\ Visited(r)
  /\ ExpireRequest(r) \/ RejectRequest(r) \/ AcceptRequest(r) \/ KeepRequest(r)
  /\ nVotingCycle' = [nVotingCycle EXCEPT ![r] = RequestCycle(r)]
  /\ todo' = todo \ {r}
  /\ UNCHANGED <<txblock, votes, nExclude, pc>>

RequestsDone ==
  /\ pc = "requests" /\ todo = {}
  /\ pc' = "proposals" /\ todo' = {p \in Proposals : Exists(p)}
  /\ UNCHANGED <<chain, txblock, mapState, nVotingCycle, votes, nExclude>>

\* A proposal is judged with the cycle it had before this block.
ProposalExpires(p) ==
  /\ EndOfCycle /\ IsExpiredProposal(p, nVotingCycle[p])

ProposalFails(p) ==
  /\ EndOfCycle /\ ~ProposalExpires(p)
  /\ IsRejected(p, nVotingCycle[p])

ProposalPasses(p) ==
  /\ EndOfCycle /\ ~ProposalExpires(p) /\ ~ProposalFails(p)
  /\ IsAccepted(p, nVotingCycle[p])
  /\ State(p) \in {NIL, PENDING_FUNDS}

\* Mutant: the supply after the previous block is looked at.
FundsSuffice_Stale(p) == IsSuper(p) \/ chain[tip - 1].nCFSupply >= GetAvailable(p, FALSE)

\* Mutant: a proposal is accepted whatever the fund holds.
FundsSuffice_Always(p) == p \in Proposals

FundsSuffice(p) == IsSuper(p) \/ chain[tip].nCFSupply >= GetAvailable(p, FALSE)

NewlyExpired(p) ==
  ProposalExpires(p) /\ State(p) \notin {EXPIRED, ACCEPTED_EXPIRED, REJECTED}

\* Its requests are still voted on: the proposal waits for them.
DelayProposal(p) ==
  /\ NewlyExpired(p) /\ HasPendingPaymentRequests(p)
  /\ GiveState(p, PENDING_VOTING_PREQ)
  /\ UNCHANGED chain

\* Mutant: what was locked does not return to the supply.
ReleaseProposal_Lost(p) ==
  /\ NewlyExpired(p) /\ ~HasPendingPaymentRequests(p)
  /\ State(p) \in {ACCEPTED, PENDING_VOTING_PREQ}
  /\ GiveState(p, ACCEPTED_EXPIRED)
  /\ IF IsSuper(p) THEN UNCHANGED chain
     ELSE SetBalances(chain[tip].nCFSupply, chain[tip].nCFLocked - GetAvailable(p, FALSE))

\* What an accepted proposal did not draw returns to the supply.
ReleaseProposal(p) ==
  /\ NewlyExpired(p) /\ ~HasPendingPaymentRequests(p)
  /\ State(p) \in {ACCEPTED, PENDING_VOTING_PREQ}
  /\ GiveState(p, ACCEPTED_EXPIRED)
  /\ IF IsSuper(p) THEN UNCHANGED chain
     ELSE SetBalances(chain[tip].nCFSupply + GetAvailable(p, FALSE),
                      chain[tip].nCFLocked - GetAvailable(p, FALSE))

ExpireProposal(p) ==
  /\ NewlyExpired(p) /\ ~HasPendingPaymentRequests(p)
  /\ State(p) \notin {ACCEPTED, PENDING_VOTING_PREQ}
  /\ GiveState(p, EXPIRED)
  /\ UNCHANGED chain

RejectProposal(p) ==
  /\ ProposalFails(p) /\ State(p) # REJECTED
  /\ GiveState(p, REJECTED)
  /\ UNCHANGED chain

AcceptProposal(p) ==
  /\ ProposalPasses(p) /\ FundsSuffice(p)
  /\ GiveState(p, ACCEPTED)
  /\ IF IsSuper(p) THEN UNCHANGED chain
     ELSE SetBalances(chain[tip].nCFSupply - GetAvailable(p, FALSE),
                      chain[tip].nCFLocked + GetAvailable(p, FALSE))

SuspendProposal(p) ==
  /\ ProposalPasses(p) /\ ~FundsSuffice(p) /\ State(p) # PENDING_FUNDS
  /\ GiveState(p, PENDING_FUNDS)
  /\ UNCHANGED chain

KeepProposal(p) ==
  /\ ~NewlyExpired(p)
  /\ ~(ProposalFails(p) /\ State(p) # REJECTED)
  /\ ~(ProposalPasses(p) /\ (FundsSuffice(p) \/ State(p) # PENDING_FUNDS))
  /\ UNCHANGED <<mapState, chain>>

UpdateProposal(p) ==
  /\ pc = "proposals" /\ Visited(p)
  /\ \/ DelayProposal(p) \/ ReleaseProposal(p) \/ ExpireProposal(p)
     \/ RejectProposal(p) \/ AcceptProposal(p) \/ SuspendProposal(p)
     \/ KeepProposal(p)
  /\ nVotingCycle' = [nVotingCycle EXCEPT ![p] =
                         IF State(p) = NIL THEN VotingCycles(p, tip) ELSE @]
  /\ todo' = todo \ {p}
  /\ UNCHANGED <<txblock, votes, nExclude, pc>>

\* The view is flushed and the block is the tip.
ConnectTipDone ==
  /\ pc = "proposals" /\ todo = {}
  /\ pc' = "idle"
  /\ UNCHANGED <<chain, txblock, mapState, nVotingCycle, votes, nExclude, todo>>

-----------------------------------------------------------------------------
\* DisconnectTip: DisconnectBlock removes what the block added, VoteStep with
\* fUndo takes back its flags and cycles (and recounts, see above).  The
\* balances need no undo: they are those of the block that becomes the tip.

\* Mutants: the flags of the block stay; they are forgotten with all earlier ones.
Undone_KeepFlags(x) == IF txblock[x] = TipBlock THEN NoHistory ELSE mapState[x]
Undone_ForgetAll(x) ==
  IF txblock[x] = TipBlock \/ TipBlock \in DOMAIN mapState[x] THEN NoHistory ELSE mapState[x]

Undone(x) == IF txblock[x] = TipBlock THEN NoHistory ELSE ClearState(mapState[x], TipBlock)

DisconnectTip ==
  /\ pc = "idle" /\ tip > 1
  /\ chain' = SubSeq(chain, 1, tip - 1)
  /\ txblock' = [x \in Objects |-> IF txblock[x] = TipBlock THEN NoBlock ELSE txblock[x]]
  /\ mapState' = [x \in Objects |-> Undone(x)]
  /\ nVotingCycle' = [x \in Objects |->
        IF txblock[x] \in {NoBlock, TipBlock} THEN 0
        ELSE IF GetLastState(Undone(x)) = NIL THEN VotingCycles(x, tip - 1)
        ELSE nVotingCycle[x]]
  /\ votes' = [x \in Objects |->
        IF txblock[x] \in {NoBlock, TipBlock} THEN NoVotes ELSE votes[x]]
  /\ UNCHANGED <<nExclude, pc, todo>>

-----------------------------------------------------------------------------
Next ==
  \/ \E fork \in Forks, step \in TimeSteps, contribution \in Contributions :
       ConnectBlock(fork, step, contribution)
  \/ \E p \in Proposals : AddProposal(p)
  \/ \E r \in Requests : AddPaymentRequest(r)
  \/ \E r \in Requests : PayRequest(r)
  \/ \E exclude \in Excludes, tally \in [Counted -> Tallies] : CountVotes(exclude, tally)
  \/ \E r \in Requests : UpdateRequest(r)
  \/ RequestsDone
  \/ \E p \in Proposals : UpdateProposal(p)
  \/ ConnectTipDone
  \/ DisconnectTip

Spec == Init /\ [][Next]_vars

-----------------------------------------------------------------------------
\* Properties.

\* The state is well typed: an object is given only flags of its own kind, by
\* blocks of the chain's heights, and no count or excluded block is negative.
TypeOK ==
  /\ chain \in Seq(BlockIndex) /\ tip \in Heights
  /\ txblock \in [Objects -> Blocks \cup {NoBlock}]
  /\ DOMAIN mapState = Objects
  /\ \A x \in Objects :
       /\ DOMAIN mapState[x] \subseteq Blocks
       /\ mapState[x] \in [DOMAIN mapState[x] ->
                             IF x \in Proposals THEN ProposalFlags ELSE RequestFlags]
  /\ nVotingCycle \in [Objects -> Int]
  /\ votes \in [Objects -> Tally]
  /\ nExclude \in 0..CycleLength
  /\ pc \in {"idle", "txs", "coinbase", "requests", "proposals"}
  /\ todo \subseteq Objects

OnChain(b) == b \in Blocks /\ Height(b) <= tip /\ b[2] = chain[Height(b)].fork

\* A reorganisation leaves nothing behind: every object in the view was
\* created by a block of the active chain, and every flag in its history was
\* given by a block of the active chain, not older than the object.
HistoryOnChain ==
  \A x \in Objects :
    /\ Exists(x) => OnChain(txblock[x])
    /\ ~Exists(x) => DOMAIN mapState[x] = {}
    /\ \A b \in DOMAIN mapState[x] : OnChain(b) /\ Height(txblock[x]) <= Height(b)

\* The blocks below one that is being connected.
Connected == IF pc = "idle" THEN tip ELSE tip - 1

\* What was true when the block of height h was the tip.
ExistsAt(x, h) == Exists(x) /\ Height(txblock[x]) <= h
FlagAt(x, h) == StateAt(mapState[x], h)

\* Proposals whose unspent money is in nCFLocked.
CommittedAt(h) ==
  {p \in Proposals : ~IsSuper(p) /\ FlagAt(p, h) \in {ACCEPTED, PENDING_VOTING_PREQ}}

\* Requests whose money has left the fund.
DrawnAt(h) ==
  {r \in Requests : FlagAt(r, h) \in {ACCEPTED, PAID} /\ ~IsSuper(Parent[r])}

\* At every block of the chain nCFLocked is exactly what the accepted proposals
\* may still draw.  VoteStep adds to and takes from it in three places, each
\* with its own idea of what is available.
LockedIsCommitted ==
  \A h \in 1..tip :
    chain[h].nCFLocked = Total(CommittedAt(h), Amount)
        - Total({r \in DrawnAt(h) : Parent[r] \in CommittedAt(h)}, Amount)

\* No money appears or disappears: at every block of the chain what the fund
\* holds and what accepted requests drew add up to what was contributed.
FundConserved ==
  \A h \in 1..tip :
    chain[h].nCFSupply + chain[h].nCFLocked + Total(DrawnAt(h), Amount) = chain[h].given

\* Neither balance is ever negative (both are signed, and only two of the
\* three subtractions are guarded).
FundSolvent == \A h \in 1..tip : chain[h].nCFSupply >= 0 /\ chain[h].nCFLocked >= 0

\* The requests of a proposal that are alive never ask for more than the
\* proposal was granted.
NotOverdrawn ==
  \A h \in 1..tip, p \in Proposals :
    Total({r \in Requests : /\ Parent[r] = p /\ ExistsAt(r, h)
                            /\ FlagAt(r, h) \notin {REJECTED, EXPIRED}}, Amount) <= Amount[p]

\* A request that is still voted on can be honoured: the two balance checks
\* VoteStep makes before it accepts the request cannot be what stops it.
PendingIsCovered ==
  \A r \in Requests :
    Exists(r) /\ State(r) = NIL /\ State(Parent[r]) \in {ACCEPTED, PENDING_VOTING_PREQ} =>
      /\ Amount[r] <= GetAvailable(Parent[r], FALSE)
      /\ IsSuper(Parent[r]) \/ Amount[r] <= chain[tip].nCFLocked

\* A request is paid only on a chain that accepted it, more than
\* nCommunityFundMinAge blocks earlier, and nothing is decided about it later.
PaidAfterAccepted ==
  \A r \in Requests : \A b \in BlocksWithState(mapState[r], PAID) :
    /\ \E a \in BlocksWithState(mapState[r], ACCEPTED) : Height(b) - 1 - Height(a) > MinAge
    /\ \A c \in DOMAIN mapState[r] : Height(c) <= Height(b)

\* A request is in the view only if its proposal is, and only if an earlier
\* block of the chain accepted that proposal.
RequestHasAcceptedParent ==
  \A r \in Requests : Exists(r) =>
    /\ Exists(Parent[r])
    /\ \E a \in BlocksWithState(mapState[Parent[r]], ACCEPTED) : Height(a) < Height(txblock[r])

\* A request follows its approvals: created after a block of the chain accepted
\* its proposal, paid after one accepted the request itself.
RequestsFollowApproval == RequestHasAcceptedParent /\ PaidAfterAccepted

\* Voting ends: at the end of a cycle no undecided object has been voted on
\* for more than its maximum of voting cycles (expiry is decided from the
\* cycle of the block before, and the cap on a request's cycle is the cycle
\* length: it must not be below the maximum).
VotingIsBounded ==
  pc = "idle" /\ EndOfCycle =>
    \A x \in Objects : Exists(x) /\ State(x) = NIL =>
      tip \div CycleLength - Height(txblock[x]) \div CycleLength <= MaxVotingCycles(x)
=============================================================================
