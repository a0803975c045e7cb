------------------------------- MODULE Mempool -------------------------------
(***************************************************************************)
(* The memory pool (txmempool.cpp) under the calls of main.cpp: acceptance *)
(* of transactions with replacement, the blocks that are connected and     *)
(* disconnected, the limits and the operator's priorities.                 *)
(*                                                                         *)
(* All of them hold cs_main and the lock of the pool, so each is a step.   *)
(* A transaction is a model value with its inputs and fee; all have the    *)
(* same size, so that fees compare as fee rates do.  What a policy may     *)
(* refuse (standardness, rate limits, minimum fee) is a choice.            *)
(***************************************************************************)
EXTENDS Integers, FiniteSets, FiniteSetsExt, Sequences, SequencesExt

CONSTANTS
  Txs,
  Inputs,       \* outpoints <<transaction, index>> each transaction spends
  Fee,
  Coinbases,    \* coinbase and coinstake transactions
  BLS,          \* transactions with private inputs and outputs
  Base,         \* outpoints of the confirmed chain below the model
  Maturity,     \* nCoinbaseMaturity
  LimitAncestors, LimitDescendants,
  MaxPool,      \* -maxmempool, in transactions
  Policy,       \* whether acceptance may be refused and entries expire
  Failures,     \* whether a block may fail to connect or disconnect without a verdict
  Deltas,       \* fee deltas of prioritisetransaction
  Nonces, MaxHeight, MaxBlockTxs, MaxDisconnects   \* bounds on the chain

ConstantsAssumption ==
  /\ Coinbases \subseteq Txs /\ BLS \subseteq Txs
  /\ DOMAIN Inputs = Txs /\ DOMAIN Fee = Txs
  /\ \A t \in Txs : Fee[t] \in Nat /\ (Inputs[t] = {}) = (t \in Coinbases)
  /\ Policy \in BOOLEAN /\ Failures \in BOOLEAN /\ Deltas \subseteq Int

VARIABLES
  chain,   \* active chain: blocks with their transactions
  pool     \* [e, next, deltas]: mapTx with mapLinks, mapNextTx, mapDeltas

vars == <<chain, pool>>

ToSum(f(_), S) == FoldSet(LAMBDA x, acc : f(x) + acc, 0, S)
Entries(p) == DOMAIN p.e
TxsOf(ch) == UNION {Range(ch[h].txs) : h \in DOMAIN ch}
Spent(ch) == UNION {Inputs[t] : t \in TxsOf(ch)}
Outputs(t) == {o \in UNION {Inputs[u] : u \in Txs} : o[1] = t} \cup {<<t, 0>>}
Unspent(ch) == (Base \cup UNION {Outputs(t) : t \in TxsOf(ch)}) \ Spent(ch)
HaveCoins(ch, hash) == \E o \in Unspent(ch) : o[1] = hash
HeightOf(ch, t) == CHOOSE h \in 0 .. Len(ch) :
                     IF t \in TxsOf(ch) THEN h > 0 /\ t \in Range(ch[h].txs) ELSE h = 0

-----------------------------------------------------------------------------
ModifiedFee(p, t) == Fee[t] + p.e[t].delta

\* Entries reached from those of S along links.
Reached(S, links) ==
  FoldSet(LAMBDA t, acc : acc \cup UNION {links[u] : u \in acc}, S, Txs)
Parents(p) == [t \in Entries(p) |-> p.e[t].parents]
Children(p) == [t \in Entries(p) |-> p.e[t].children]
InPoolParents(p, t) == {o[1] : o \in Inputs[t]} \cap Entries(p)

CalculateDescendants(p, S) == Reached(S, Children(p))
CalculateMemPoolAncestors(p, t) == Reached(InPoolParents(p, t), Parents(p))
AncestorsByLinks(p, t) == Reached(p.e[t].parents, Parents(p))

\* The totals of a package without the entries of S.
Less(total, p, S) ==
  [n |-> total.n - Cardinality(S), fee |-> total.fee - ToSum(LAMBDA r : ModifiedFee(p, r), S)]

\* Mutant of UpdateForRemoveFromMempool: the packages of descendants that stay
\* are not updated.
UpdateForRemoveFromMempool_Stale(p, stage, updateDescendants) ==
  [t \in Entries(p) |->
     LET below == {r \in stage : t \in AncestorsByLinks(p, r)}
     IN [p.e[t] EXCEPT !.desc = Less(@, p, below), !.parents = @ \ stage, !.children = @ \ stage]]

\* UpdateForRemoveFromMempool: the staged entries are taken out of the packages
\* of their ancestors, and of their descendants when these stay, and the links
\* to them are cut.
UpdateForRemoveFromMempool(p, stage, updateDescendants) ==
  [t \in Entries(p) |->
     LET below == {r \in stage : t \in AncestorsByLinks(p, r)}
         above == {r \in stage : updateDescendants /\ t \in CalculateDescendants(p, {r})}
     IN [p.e[t] EXCEPT !.desc = Less(@, p, below), !.anc = Less(@, p, above),
                       !.parents = @ \ stage, !.children = @ \ stage]]

removeUnchecked(p, stage) ==
  [p EXCEPT !.e = [t \in Entries(p) \ stage |-> p.e[t]],
            !.next = [o \in DOMAIN p.next \ UNION {Inputs[r] : r \in stage} |-> p.next[o]]]

RemoveStaged(p, stage, updateDescendants) ==
  removeUnchecked([p EXCEPT !.e = UpdateForRemoveFromMempool(p, stage, updateDescendants)], stage)

\* addUnchecked.  The children that are already in the pool are left to
\* UpdateTransactionsFromBlock.
addUnchecked(p, t, ancestors, lock) ==
  LET fee == Fee[t] + p.deltas[t]
      parents == IF t \in BLS THEN {} ELSE InPoolParents(p, t)
      ups == IF t \in BLS THEN {} ELSE ancestors
      entry == [delta |-> p.deltas[t], parents |-> parents, children |-> {},
                anc |-> [n |-> 1 + Cardinality(ups),
                         fee |-> fee + ToSum(LAMBDA a : ModifiedFee(p, a), ups)],
                desc |-> [n |-> 1, fee |-> fee], lock |-> lock]
  IN [p EXCEPT
       !.e = [u \in Entries(p) \cup {t} |->
                IF u = t THEN entry
                ELSE [p.e[u] EXCEPT
                       !.children = IF u \in parents THEN @ \cup {t} ELSE @,
                       !.desc = IF u \in ups THEN [n |-> @.n + 1, fee |-> @.fee + fee] ELSE @]],
       !.next = [o \in DOMAIN p.next \cup Inputs[t] |->
                   IF o \in DOMAIN p.next THEN p.next[o] ELSE t]]

removeRecursive(p, t) ==
  LET roots == IF t \in Entries(p) THEN {t} ELSE {p.next[o] : o \in {x \in DOMAIN p.next : x[1] = t}}
  IN RemoveStaged(p, CalculateDescendants(p, roots), FALSE)

\* RemoveBLSCTConflicting, of the outputs os
RemoveBLSCTConflicting(p, os) ==
  RemoveStaged(p, CalculateDescendants(p, {p.next[o] : o \in os \cap DOMAIN p.next}), FALSE)

-----------------------------------------------------------------------------
Conflicts(p, t) == {p.next[o] : o \in Inputs[t] \cap DOMAIN p.next}
Replaced(p, t) == CalculateDescendants(p, Conflicts(p, t))

\* The rules for a transaction that replaces others.  The test for an opt-out
\* asks for private inputs besides, which never replace anything, so that no
\* transaction is kept by its nSequence.
MayReplace(p, t) ==
  LET fee == Fee[t] + p.deltas[t]
      replaced == ToSum(LAMBDA r : ModifiedFee(p, r), Replaced(p, t))
      spentByConflicts == UNION {{o[1] : o \in Inputs[c]} : c \in Conflicts(p, t)}
  IN /\ t \notin BLS
     /\ Conflicts(p, t) \cap CalculateMemPoolAncestors(p, t) = {}
     /\ \A c \in Conflicts(p, t) : fee > ModifiedFee(p, c)
     /\ InPoolParents(p, t) \subseteq spentByConflicts
     /\ fee - replaced >= 1

Mature(ch, o) == o[1] \in Coinbases => Len(ch) + 1 - HeightOf(ch, o[1]) >= Maturity

\* blsct-cant-spend-unconfirmed
SpendsConfirmed(p, t) == t \in BLS => InPoolParents(p, t) = {}

\* The limits of CalculateMemPoolAncestors.
WithinLimits(p, t) ==
  LET ancestors == CalculateMemPoolAncestors(p, t)
  IN /\ Cardinality(ancestors) + 1 <= LimitAncestors
     /\ \A a \in ancestors : p.e[a].desc.n + 1 <= LimitDescendants

\* What AcceptToMemoryPoolWorker requires besides policy, of the chain whose
\* coins are in pcoinsTip.
AcceptToMemoryPoolWorker(p, ch, t) ==
  /\ t \notin Coinbases \cup Entries(p)
  /\ SpendsConfirmed(p, t)
  /\ \A o \in Inputs[t] : o[1] \in Entries(p) \/ (o \in Unspent(ch) /\ Mature(ch, o))
  /\ WithinLimits(p, t)
  /\ Conflicts(p, t) # {} => MayReplace(p, t)

\* LockPoints::maxInputBlock, as the chain up to it: the highest block with an
\* input of t.
MaxInputBlock(p, ch, t) ==
  SubSeq(ch, 1, Max({0} \cup {HeightOf(ch, o[1]) : o \in {x \in Inputs[t] : x[1] \notin Entries(p)}}))

Accepted(p, ch, t) ==
  addUnchecked(RemoveStaged(p, Replaced(p, t), FALSE), t,
               CalculateMemPoolAncestors(p, t), MaxInputBlock(p, ch, t))

\* Expire and TrimToSize: what is too old, if anything, and what does not fit
\* goes, with its descendants.
LimitMempoolSize(p) ==
  {RemoveStaged(p, CalculateDescendants(p, drop), FALSE) :
     drop \in {S \in SUBSET Entries(p) :
                /\ S = {} \/ Policy \/ (Cardinality(S) = 1 /\ Cardinality(Entries(p)) > MaxPool)
                /\ Cardinality(Entries(p) \ CalculateDescendants(p, S)) <= MaxPool}}

-----------------------------------------------------------------------------
ClearPrioritisation(p, S) == [p EXCEPT !.deltas = [t \in Txs |-> IF t \in S THEN 0 ELSE @[t]]]

removeConflicts(p, t) ==
  LET conflicts == Conflicts(p, t) \ {t}
  IN ClearPrioritisation(
       FoldSet(LAMBDA c, q : IF c \in Entries(q) THEN removeRecursive(q, c) ELSE q, p, conflicts), conflicts)

removeForBlock(p, txs) ==
  FoldLeft(LAMBDA q, t :
             LET r == IF t \in Entries(q) THEN RemoveStaged(q, {t}, TRUE) ELSE q
             IN ClearPrioritisation(removeConflicts(r, t), {t}),
           p, txs)

\* ConnectTip: the conflicts of private inputs that ConnectBlock saw, then the
\* block.
ConnectTip(p, txs) ==
  LET bls == UNION {Inputs[t] : t \in Range(txs) \cap BLS}
  IN removeForBlock(RemoveBLSCTConflicting(p, bls), txs)

\* The resurrection of one transaction in DisconnectTip, with ch the chain
\* without the block.  The pool is not limited here.  A transaction stays only
\* if it is a coinbase or coinstake and was accepted, which it never is, so
\* that there is nothing for UpdateTransactionsFromBlock.
Resurrect(p, ch, t, refused) ==
  LET q == IF t \in BLS THEN RemoveBLSCTConflicting(p, Outputs(t)) ELSE p
      ret == AcceptToMemoryPoolWorker(q, ch, t) /\ ~refused
      r == IF ret THEN Accepted(q, ch, t) ELSE q
  IN IF t \notin Coinbases \/ ~ret THEN removeRecursive(r, t) ELSE r

DisconnectTip(p, ch, refused) ==
  FoldLeft(LAMBDA q, t : Resurrect(q, Front(ch), t, t \in refused), p, ch[Len(ch)].txs)

LockPointsValid(p, ch, t) == IsPrefix(p.e[t].lock, ch)
Found(p, ch, t) == \A o \in Inputs[t] : o[1] \in Entries(p) \/ HaveCoins(ch, o[1])

\* Mutant: only the spenders of coinbases are looked at again.
MustGo_Coinbases(p, ch, t) ==
  /\ \E o \in Inputs[t] : o[1] \in Coinbases
  /\ \E o \in Inputs[t] : o[1] \notin Entries(p) /\ ~(HaveCoins(ch, o[1]) /\ Mature(ch, o))

\* What removeForReorg removes: lock points are computed again when their block
\* left the chain, which fails for a missing input, and of a transaction that
\* spends a coinbase every input must be there and mature.
MustGo(p, ch, t) ==
  \/ ~LockPointsValid(p, ch, t) /\ ~Found(p, ch, t)
  \/ /\ \E o \in Inputs[t] : o[1] \in Coinbases
     /\ \E o \in Inputs[t] : o[1] \notin Entries(p) /\ ~(HaveCoins(ch, o[1]) /\ Mature(ch, o))

removeForReorg(p, ch) ==
  LET gone == {t \in Entries(p) : MustGo(p, ch, t)}
      kept == [p EXCEPT !.e = [t \in Entries(p) |->
                IF LockPointsValid(p, ch, t) \/ t \in gone THEN p.e[t]
                ELSE [p.e[t] EXCEPT !.lock = MaxInputBlock(p, ch, t)]]]
  IN FoldSet(LAMBDA t, q : removeRecursive(q, t), kept, gone)
-----------------------------------------------------------------------------
NewPool == [e |-> <<>>, next |-> <<>>, deltas |-> [t \in Txs |-> 0]]

Init == chain = <<>> /\ pool = NewPool

\* Transactions that can follow one another in a block on ch.
ValidTxs(ch, txs) ==
  \A i \in DOMAIN txs :
    LET before == Append(ch, [txs |-> SubSeq(txs, 1, i - 1), nonce |-> 0])
    IN /\ txs[i] \notin TxsOf(before)
       /\ txs[i] \in Coinbases => i = 1
       /\ \A o \in Inputs[txs[i]] : o \in Unspent(before) /\ Mature(ch, o)

Blocks(ch) ==
  {[txs |-> txs, nonce |-> n] :
     txs \in {x \in UNION {[1 .. k -> Txs] : k \in 0 .. MaxBlockTxs} : ValidTxs(ch, x)}, n \in Nonces}

AcceptToMemoryPool(t) ==
  /\ AcceptToMemoryPoolWorker(pool, chain, t)
  /\ pool' \in LimitMempoolSize(Accepted(pool, chain, t))
  /\ UNCHANGED chain

\* The pools that DisconnectTip may leave when it undoes all blocks above height h.
Undone(h) ==
  LET refusals == IF Policy THEN SUBSET UNION {Range(chain[i].txs) : i \in h + 1 .. Len(chain)} ELSE {{}}
  IN {FoldLeft(LAMBDA p, i : DisconnectTip(p, SubSeq(chain, 1, i), refused),
               pool, [k \in 1 .. Len(chain) - h |-> Len(chain) - k + 1]) : refused \in refusals}

\* What follows a fork on the branch of most work: blocks up to the first that
\* gives more work than the old tip had, or to one that fails to connect.
Branches(fork) ==
  {<<>>} \cup {<<x>> : x \in Blocks(fork)}
    \cup UNION {{<<x, y>> : y \in Blocks(Append(fork, x))} : x \in Blocks(fork)}

\* ActivateBestChainStep: the blocks above height h are undone, if any, and
\* those of the other branch connected.  A failure without a verdict returns
\* before the pool is cleaned up.
ActivateBestChainStep(h) ==
  LET fork == SubSeq(chain, 1, h)
      reorg == h < Len(chain)
  IN \E branch \in IF reorg THEN Branches(fork) ELSE {<<x>> : x \in Blocks(fork)}, undone \in Undone(h) :
       LET better == fork \o branch
           connected == FoldLeft(LAMBDA p, x : ConnectTip(p, x.txs), undone, branch)
       IN /\ Len(better) <= MaxHeight
          /\ reorg /\ branch # <<>> => branch[1] # chain[h + 1]
          /\ \/ reorg /\ pool' \in LimitMempoolSize(removeForReorg(connected, better))
             \/ (~reorg \/ Failures) /\ pool' = connected
          /\ chain' = better

\* InvalidateBlock of the operator, which undoes the blocks above height h.
InvalidateBlock(h) ==
  LET fork == SubSeq(chain, 1, h)
  IN /\ \E undone \in Undone(h) : \E limited \in LimitMempoolSize(undone) :
          pool' = removeForReorg(limited, fork)
     /\ chain' = fork

PrioritiseTransaction(t, d) ==
  LET p == [pool EXCEPT !.deltas[t] = @ + d]
      ancestors == AncestorsByLinks(pool, t)
  IN /\ pool.deltas[t] + d \in Deltas \cup {0}
     /\ pool' = IF t \notin Entries(pool) THEN p
                ELSE [p EXCEPT !.e = [u \in Entries(pool) |->
                       IF u = t
                       THEN [@[u] EXCEPT !.delta = p.deltas[t],
                               !.anc.fee = @ + p.deltas[t] - pool.e[t].delta,
                               !.desc.fee = @ + p.deltas[t] - pool.e[t].delta]
                       ELSE IF u \in ancestors THEN [@[u] EXCEPT !.desc.fee = @ + d] ELSE @[u]]]
     /\ UNCHANGED chain

Next ==
  \/ \E t \in Txs : AcceptToMemoryPool(t)
  \/ \E h \in Max({0, Len(chain) - MaxDisconnects}) .. Len(chain) :
       ActivateBestChainStep(h)
  \/ \E h \in Max({0, Len(chain) - MaxDisconnects}) .. Len(chain) - 1 : InvalidateBlock(h)
  \/ \E t \in Txs, d \in Deltas : PrioritiseTransaction(t, d)

Spec == Init /\ [][Next]_vars

-----------------------------------------------------------------------------
(* Properties                                                              *)

(* Entries link to each other both ways and mapNextTx knows exactly their  *)
(* inputs, so that no two of them spend the same output.                   *)
TypeOK ==
  /\ \A t \in Entries(pool) :
       /\ pool.e[t].parents \cup pool.e[t].children \subseteq Entries(pool)
       /\ \A u \in Entries(pool) : (t \in pool.e[u].parents) = (u \in pool.e[t].children)
  /\ DOMAIN pool.next = UNION {Inputs[t] : t \in Entries(pool)}
  /\ \A o \in DOMAIN pool.next : o \in Inputs[pool.next[o]] /\ pool.next[o] \in Entries(pool)
  /\ \A t, u \in Entries(pool) : t # u => Inputs[t] \cap Inputs[u] = {}

(* What is kept for the package of an entry is what its links say: numbers *)
(* of ancestors and descendants, and the fees of the descendants, through  *)
(* replacements, blocks, reorganisations and priorities (the note in       *)
(* UpdateForRemoveFromMempool relies on it).                               *)
PackagesFollowLinks ==
  \A t \in Entries(pool) :
    LET up == AncestorsByLinks(pool, t)
        down == CalculateDescendants(pool, {t})
    IN /\ pool.e[t].anc.n = 1 + Cardinality(up)
       /\ pool.e[t].desc.n = Cardinality(down)
       /\ pool.e[t].desc.fee = ToSum(LAMBDA u : ModifiedFee(pool, u), down)

(* ...and the fees of the ancestors, which the miner sorts by.             *)
AncestorFees ==
  \A t \in Entries(pool) :
    pool.e[t].anc.fee = ModifiedFee(pool, t)
                        + ToSum(LAMBDA u : ModifiedFee(pool, u), AncestorsByLinks(pool, t))

(* No entry has more ancestors or descendants than the limits allow.       *)
PackageLimits ==
  \A t \in Entries(pool) : /\ Cardinality(AncestorsByLinks(pool, t)) < LimitAncestors
                           /\ Cardinality(CalculateDescendants(pool, {t})) <= LimitDescendants

Available(t) == \A o \in Inputs[t] : o[1] \in Entries(pool) \/ o \in Unspent(chain)

(* Links are those of the inputs, and every input is an output of another  *)
(* entry or an unspent one of the chain (what CTxMemPool::check asserts).  *)
InputsAvailable ==
  \A t \in Entries(pool) :
    /\ pool.e[t].parents = InPoolParents(pool, t)
    /\ Available(t)

(* Nothing in the pool is in the chain or spends what the chain has spent, *)
(* however far blocks were undone and wherever a reorganisation failed.    *)
NoConflictWithChain ==
  \A t \in Entries(pool) : t \notin TxsOf(chain) /\ Inputs[t] \cap Spent(chain) = {}

(* No entry spends a coinbase that cannot be spent in the next block, and  *)
(* one that spends a coinbase has all its inputs, after a reorganisation   *)
(* too: removeForReorg has looked at them again.                           *)
CoinbasesAreMature ==
  \A t \in Entries(pool) :
    /\ \A o \in Inputs[t] : o[1] \in TxsOf(chain) => Mature(chain, o)
    /\ (\E o \in Inputs[t] : o[1] \in Coinbases) => Available(t)

(* An entry whose inputs were all confirmed by its lock points stays only  *)
(* if they are all there, although the block that confirmed them may have  *)
(* been undone and its transactions not have come back to the pool.        *)
ConfirmedOrGone ==
  \A t \in Entries(pool) \cap Entries(pool') :
    (\A o \in Inputs[t] : o \in Base \/ o[1] \in TxsOf(pool.e[t].lock)) => Available(t)'

(* What a private transaction of the pool spends is unspent in the chain,  *)
(* however blocks come and go: they never spend unconfirmed outputs, and   *)
(* DisconnectTip removes those that spend outputs of an undone block.      *)
PrivateInputsConfirmed ==
  \A t \in Entries(pool) \cap BLS : Inputs[t] \subseteq Unspent(chain)
=============================================================================
