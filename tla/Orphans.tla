------------------------------ MODULE Orphans -------------------------------
(***************************************************************************)
(* The transactions that wait for their parents: mapOrphanTransactions,    *)
(* its index by the outputs they spend, and the handler of tx messages     *)
(* that fills and empties both.  The memory pool is what this handler sees *)
(* of it: the transactions AcceptToMemoryPool has taken.                   *)
(***************************************************************************)
EXTENDS Integers, FiniteSets, Sequences, SequencesExt

CONSTANTS
  Txs,
  Inputs,       \* [Txs -> SUBSET (Txs \X Nat)]: outputs of Txs; others are confirmed coins
  Outputs,      \* [Txs -> Nat]: how many outputs a transaction has
  Unacceptable, \* transactions the policy of the pool refuses
  Invalid,      \* transactions that are invalid, and earn their sender a penalty
  Peers,
  MaxOrphanTx,
  MaxBlocks     \* bound: how many blocks are connected

VARIABLES
  orphans,      \* mapOrphanTransactions: [SUBSET Txs -> Peers], whom each came from
  byPrev,       \* mapOrphanTransactionsByPrev
  recentRejects,
  rejectsAreOld, \* the tip is not hashRecentRejectsChainTip
  pool, confirmed, blocks,
  connected

vars == <<orphans, byPrev, recentRejects, rejectsAreOld, pool, confirmed, blocks, connected>>

ConstantsAssumption ==
  /\ Inputs \in [Txs -> SUBSET (Txs \X Nat)]
  /\ \A t \in Txs : \A o \in Inputs[t] : o[2] < Outputs[o[1]]
  /\ MaxOrphanTx \in Nat

Parents(t) == {o[1] : o \in Inputs[t]}
OutputsOf(t) == {<<t, i>> : i \in 0..(Outputs[t] - 1)}
Spent(txs) == UNION {Inputs[t] : t \in txs}

HaveCoins(t, p, c) == t \in p \/ (t \in c /\ ~(OutputsOf(t) \subseteq Spent(c)))

\* What AcceptToMemoryPool says of t over the pool p and the confirmed transactions c.  The pool
\* takes no double spend here.
Outcome(t, p, c) ==
  IF HaveCoins(t, p, c) \/ Inputs[t] \cap Spent(p) # {} THEN "refused"
  ELSE IF \E u \in Parents(t) : ~HaveCoins(u, p, c) THEN "missing"
  ELSE IF Inputs[t] \cap Spent(c) # {} \/ t \in Unacceptable THEN "refused"
  ELSE IF t \in Invalid THEN "invalid"
  ELSE "accepted"

-----------------------------------------------------------------------------
(* The orphans, as a record of the two maps *)

EraseOrphanTx(m, t) ==
  IF t \notin DOMAIN m.orphans THEN m
  ELSE LET left == [o \in DOMAIN m.byPrev |-> m.byPrev[o] \ {t}]
       IN  [orphans |-> [u \in DOMAIN m.orphans \ {t} |-> m.orphans[u]],
            byPrev |-> [o \in {q \in DOMAIN left : left[q] # {}} |-> left[o]]]

EraseAll(m, txs) == FoldLeft(EraseOrphanTx, m, SetToSeq(txs))

\* The transactions are no larger than an orphan may be.
AddOrphanTx(m, t, p) ==
  IF t \in DOMAIN m.orphans THEN m
  ELSE [orphans |-> [u \in DOMAIN m.orphans \cup {t} |-> IF u = t THEN p ELSE m.orphans[u]],
        byPrev |-> [o \in DOMAIN m.byPrev \cup Inputs[t] |->
                      (IF o \in DOMAIN m.byPrev THEN m.byPrev[o] ELSE {})
                        \cup (IF o \in Inputs[t] THEN {t} ELSE {})]]

\* Mutant: the orphans of a peer outlive it.
EraseOrphansFor_None(m, p) == m

EraseOrphansFor(m, p) == EraseAll(m, {t \in DOMAIN m.orphans : m.orphans[t] = p})

\* Any of the orphans may have expired, if a sweep is due; any of the others is evicted.
LimitOrphanTxSize(m) ==
  {EraseAll(m, gone) : gone \in {g \in SUBSET DOMAIN m.orphans :
                                   Cardinality(DOMAIN m.orphans \ g) <= MaxOrphanTx}}

-----------------------------------------------------------------------------
(* The handler of tx messages *)

Maps == [orphans |-> orphans, byPrev |-> byPrev]

\* One orphan that spends an output of an accepted transaction.  w.misbehaving: peers that sent an
\* invalid one.
TryOrphan(w, t) ==
  LET outcome == Outcome(t, w.pool, confirmed)
  IN  IF orphans[t] \in w.misbehaving \/ outcome = "missing" THEN w
      ELSE IF outcome = "accepted"
      THEN [w EXCEPT !.pool = @ \cup {t}, !.erase = @ \cup {t}, !.queue = @ \o SetToSeq(OutputsOf(t))]
      ELSE [w EXCEPT !.erase = @ \cup {t}, !.rejects = @ \cup {t},
                     !.misbehaving = IF outcome = "invalid" THEN @ \cup {orphans[t]} ELSE @]

\* The orphans that came in reach, over the outputs of every transaction that is accepted.
RECURSIVE Resolve(_)
Resolve(w) ==
  IF w.queue = <<>> THEN w
  ELSE LET o == Head(w.queue)
           waiting == IF o \in DOMAIN byPrev THEN SetToSeq(byPrev[o]) ELSE <<>>
       IN  Resolve(FoldLeft(TryOrphan, [w EXCEPT !.queue = Tail(@)], waiting))

\* Mutant: only the children of the transaction itself are tried.
Resolved_Children(w) ==
  LET waiting == SetToSeq(UNION {byPrev[o] : o \in Range(w.queue) \cap DOMAIN byPrev})
  IN  FoldLeft(TryOrphan, w, waiting)

\* The work the handler starts with, once t is accepted.
Accepted(t, rejects) ==
  [queue |-> SetToSeq(OutputsOf(t)), pool |-> pool \cup {t}, erase |-> {}, rejects |-> rejects,
   misbehaving |-> {}]

Resolved(w) == Resolve(w)

\* The filter is reset on the first question after the tip has changed.
Rejects == IF rejectsAreOld THEN {} ELSE recentRejects

\* The cache of coins may have dropped a confirmed transaction.
AlreadyHave(t) ==
  IF t \in Rejects \cup pool \cup DOMAIN orphans THEN {TRUE}
  ELSE IF HaveCoins(t, {}, confirmed) THEN BOOLEAN ELSE {FALSE}

\* A transaction that the node has already is put among the rejects too.
Tx(p, t) ==
  /\ p \in connected
  /\ \E have \in AlreadyHave(t) :
       LET outcome == IF have THEN "refused" ELSE Outcome(t, pool, confirmed)
           w == Resolved(Accepted(t, Rejects))
       IN  \/ /\ outcome = "accepted"
              /\ LET m == EraseAll(Maps, w.erase)
                 IN  orphans' = m.orphans /\ byPrev' = m.byPrev
              /\ pool' = w.pool
              /\ recentRejects' = w.rejects
           \/ /\ outcome = "missing"
              /\ \E m \in IF Parents(t) \cap Rejects # {} THEN {Maps}
                         ELSE LimitOrphanTxSize(AddOrphanTx(Maps, t, p)) :
                   orphans' = m.orphans /\ byPrev' = m.byPrev
              /\ recentRejects' = Rejects
              /\ UNCHANGED pool
           \/ /\ outcome \in {"refused", "invalid"}
              /\ recentRejects' = Rejects \cup {t}
              /\ UNCHANGED <<orphans, byPrev, pool>>
  /\ rejectsAreOld' = FALSE
  /\ UNCHANGED <<confirmed, blocks, connected>>

-----------------------------------------------------------------------------
(* The rest of the node *)

Init ==
  /\ orphans = <<>> /\ byPrev = <<>>
  /\ recentRejects = {} /\ rejectsAreOld = TRUE
  /\ pool = {} /\ confirmed = {} /\ blocks = 0
  /\ connected = Peers

\* The wallet or an RPC call submits a transaction: its orphans are not looked for.
Submit(t) ==
  /\ Outcome(t, pool, confirmed) = "accepted"
  /\ pool' = pool \cup {t}
  /\ UNCHANGED <<orphans, byPrev, recentRejects, rejectsAreOld, confirmed, blocks, connected>>

\* The transactions that a set of confirmed ones makes impossible, with all that spend them.
RECURSIVE Precluded(_, _)
Precluded(txs, p) ==
  LET more == {t \in p \ txs : Parents(t) \cap txs # {}}
  IN  IF more = {} THEN txs ELSE Precluded(txs \cup more, p)

\* A block of valid transactions is connected: each spends confirmed outputs, or those of the block.
Block(txs) ==
  /\ blocks < MaxBlocks
  /\ txs # {} /\ txs \cap confirmed = {} /\ txs \cap Invalid = {}
  /\ \A t \in txs : Parents(t) \subseteq confirmed \cup txs
  /\ \A t \in txs : Inputs[t] \cap Spent((confirmed \cup txs) \ {t}) = {}
  /\ LET m == EraseAll(Maps, UNION {byPrev[o] : o \in Spent(txs) \cap DOMAIN byPrev})
     IN  orphans' = m.orphans /\ byPrev' = m.byPrev
  /\ confirmed' = confirmed \cup txs
  /\ pool' = pool \ (txs \cup Precluded({t \in pool \ txs : Inputs[t] \cap Spent(txs) # {}}, pool))
  /\ blocks' = blocks + 1
  /\ rejectsAreOld' = TRUE
  /\ UNCHANGED <<recentRejects, connected>>

\* FinalizeNode
Disconnect(p) ==
  /\ p \in connected
  /\ connected' = connected \ {p}
  /\ LET m == EraseOrphansFor(Maps, p)
     IN  orphans' = m.orphans /\ byPrev' = m.byPrev
  /\ UNCHANGED <<recentRejects, rejectsAreOld, pool, confirmed, blocks>>

Next ==
  \/ \E p \in Peers, t \in Txs : Tx(p, t)
  \/ \E t \in Txs : Submit(t)
  \/ \E txs \in SUBSET Txs : Block(txs)
  \/ \E p \in Peers : Disconnect(p)

-----------------------------------------------------------------------------
(* The orphans are transactions of peers, at most MaxOrphanTx of them      *)
(* after every message (LimitOrphanTxSize).                                *)
Bounded == Cardinality(DOMAIN orphans) <= MaxOrphanTx

(* mapOrphanTransactionsByPrev holds exactly the orphans, each under every *)
(* output it spends, and no empty entry: iterators of the index never      *)
(* outlive their orphan, whichever of five ways it left.                   *)
IndexMatches ==
  byPrev = [o \in Spent(DOMAIN orphans) |-> {t \in DOMAIN orphans : o \in Inputs[t]}]

(* An orphan comes from a peer that is connected: State(fromPeer) is there *)
(* when the orphan turns out to be invalid.                                *)
SourcesAreConnected == \A t \in DOMAIN orphans : orphans[t] \in connected

(* Once a message has brought a transaction into the pool, no orphan that  *)
(* spends it or an orphan accepted with it is left waiting though all its  *)
(* inputs are there, but for those of a peer that sent an invalid one.     *)
ResolvedStep ==
  (\E p \in Peers, t \in Txs : Tx(p, t)) =>
    \A o \in DOMAIN orphans' :
      Parents(o) \cap (pool' \ pool) # {} =>
        \/ Outcome(o, pool', confirmed) = "missing"
        \/ \E x \in Invalid \cap DOMAIN orphans : orphans[x] = orphans[o]
=============================================================================
