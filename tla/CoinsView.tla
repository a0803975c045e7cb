----------------------------- MODULE CoinsView -----------------------------
(***************************************************************************)
(* The coins of the chain state: CStateViewDB on disk, pcoinsTip in        *)
(* memory, and the CStateViewCache a block (or VerifyDB) works in on top   *)
(* of it.  A cache holds entries of CCoins with two flags.  DIRTY: the     *)
(* entry differs from the level below.  FRESH: the level below has nothing *)
(* unspent under that txid, so an entry that is spent may be forgotten     *)
(* instead of being written down.  Whether FRESH is ever set where it does *)
(* not hold is what decides if spent money comes back.                     *)
(*                                                                         *)
(* The data of an output is abstracted to its position; an entry whose set *)
(* of outputs is empty is pruned (IsPruned).  The transactions of a block  *)
(* are steps of their own, since only the thread that holds cs_main sees   *)
(* the view.  A transaction names each input once.                         *)
(***************************************************************************)
EXTENDS Naturals, Sequences, FiniteSets

CONSTANTS
  Txids, Inputs, Outputs, \* as in UtxoSet
  CoinBase,    \* the transactions that are coinbases
  CoinStake,   \* the transactions that are coinstakes
  MaxChain     \* bound: transactions in the chain

ASSUME TxAssumption ==
  /\ Outputs \in [Txids -> SUBSET Nat]
  /\ Inputs \in [Txids -> SUBSET (Txids \X Nat)]
  /\ CoinBase \subseteq Txids /\ CoinStake \subseteq Txids
  /\ \A t \in CoinBase : Inputs[t] = {}
  /\ \A t \in Txids : \A i \in Inputs[t] : i[1] # t /\ i[2] \in Outputs[i[1]]

VARIABLES
  db,         \* the outputs stored for each txid; {} if there is no record
  tip, view,  \* cacheCoins of pcoinsTip and of the view: partial functions
  dbChain, tipChain, viewChain,  \* the transactions each level has applied,
                                 \* with what the undo data says of them
  mode,       \* what the view is for
  fClean      \* no disconnection met an inconsistency

vars == <<db, tip, view, dbChain, tipChain, viewChain, mode, fClean>>

Modes == {"idle", "connect", "disconnect", "verify", "reconnect"}
Entry(t) == [outs : SUBSET Outputs[t], fCoinStake : BOOLEAN, dirty : BOOLEAN,
             fresh : BOOLEAN]

\* Finite partial functions
NoEntries == [t \in {} |-> {}]
Put(cache, t, e) == [x \in DOMAIN cache \cup {t} |-> IF x = t THEN e ELSE cache[x]]
Erase(cache, S) == [x \in DOMAIN cache \ S |-> cache[x]]

\* The CCoins a level returns for t; it is pruned when the level has none.
\* The serialization keeps fCoinBase and loses fCoinStake.
Stored(t) == [outs |-> db[t], fCoinStake |-> FALSE]
Coins(e) == [outs |-> e.outs, fCoinStake |-> e.fCoinStake]
TipCoins(t) == IF t \in DOMAIN tip THEN Coins(tip[t]) ELSE Stored(t)
ViewCoins(t) == IF t \in DOMAIN view THEN Coins(view[t]) ELSE TipCoins(t)

\* The entry FetchCoins and ModifyCoins make for coins of the level below.
Fetched(c) == [outs |-> c.outs, fCoinStake |-> c.fCoinStake, dirty |-> FALSE,
               fresh |-> c.outs = {}]

\* FetchCoins on the tip for every txid of S: what is on disk enters the cache.
FetchTip(S) ==
  [x \in DOMAIN tip \cup {t \in S : db[t] # {}} |->
     IF x \in DOMAIN tip THEN tip[x] ELSE Fetched(Stored(x))]

\* FetchCoins on a view: below has the record, pruned or not.
FetchView(S) ==
  LET below == FetchTip(S \ DOMAIN view)
  IN [x \in DOMAIN view \cup (S \cap DOMAIN below) |->
        IF x \in DOMAIN view THEN view[x] ELSE Fetched(Coins(below[x]))]

\* ModifyCoins for every txid of S, before the modification.
ModifyCoins(S) ==
  [x \in DOMAIN view \cup S |->
     [(IF x \in DOMAIN view THEN view[x] ELSE Fetched(TipCoins(x)))
        EXCEPT !.dirty = @ \/ x \in S]]

\* What ~CCoinsModifier erases: entries of S that are fresh and pruned.
Released(cache, S) ==
  Erase(cache, {x \in S \cap DOMAIN cache : cache[x].fresh /\ cache[x].outs = {}})

\* ModifyNewCoins followed by FromTx.  Flags of a coinbase are kept.
ModifyNewCoins(cache, t) ==
  LET kept == t \in DOMAIN cache /\ cache[t].fresh
  IN Released(Put(cache, t, [outs |-> Outputs[t], fCoinStake |-> t \in CoinStake,
                             dirty |-> TRUE, fresh |-> t \notin CoinBase \/ kept]),
              {t})

Parents(t) == {i[1] : i \in Inputs[t]}
SpentOf(t, p) == {i[2] : i \in {j \in Inputs[t] : j[1] = p}}
-----------------------------------------------------------------------------
Init ==
  /\ db = [t \in Txids |-> {}]
  /\ tip = NoEntries /\ view = NoEntries
  /\ dbChain = <<>> /\ tipChain = <<>> /\ viewChain = <<>>
  /\ mode = "idle"
  /\ fClean = TRUE

\* CStateViewCache view(pcoinsTip) in ConnectTip, DisconnectTip and VerifyDB
OpenView(m) ==
  /\ mode = "idle"
  /\ mode' = m
  /\ view' = NoEntries
  /\ viewChain' = tipChain
  /\ UNCHANGED <<db, tip, dbChain, tipChain, fClean>>

\* HaveInputs, with the reads it makes; the BIP30 check reads t itself.
HaveInputs(cache, t) ==
  \A i \in Inputs[t] : i[1] \in DOMAIN cache /\ i[2] \in cache[i[1]].outs

Spent(cache, t) ==
  [x \in DOMAIN cache |->
     IF x \in Parents(t) THEN [cache[x] EXCEPT !.outs = @ \ SpentOf(t, x)]
                         ELSE cache[x]]

\* UpdateCoins on the view; S is what the reads before it have cached.
UpdateCoins(t, S) ==
  LET read == FetchView(S)
      cache == [x \in DOMAIN read |->
                  IF x \in Parents(t) THEN [read[x] EXCEPT !.dirty = TRUE] ELSE read[x]]
  IN ModifyNewCoins(Released(Spent(cache, t), Parents(t)), t)

\* The undo data of t names the transactions it spent the last output of.
Undo(t) ==
  [tx |-> t, last |-> {p \in Parents(t) : ViewCoins(p).outs = SpentOf(t, p)}]

\* The part of ConnectBlock that works on coins, for one transaction.  A chain
\* has no transaction twice (BIP34 makes coinbases differ); the check of
\* BIP30 is not always made, but where it is it reads the coins of t.
ConnectTx(t, fEnforceBIP30) ==
  /\ \/ mode = "connect" /\ Len(viewChain) < MaxChain
     \/ /\ mode \in {"verify", "reconnect"}
        /\ Len(viewChain) < Len(tipChain)
        /\ t = tipChain[Len(viewChain) + 1].tx
  /\ \A i \in DOMAIN viewChain : viewChain[i].tx # t
  /\ fEnforceBIP30 => ViewCoins(t).outs = {}
  /\ LET S == Parents(t) \cup (IF fEnforceBIP30 THEN {t} ELSE {})
     IN /\ HaveInputs(FetchView(S), t)
        /\ tip' = FetchTip(S \ DOMAIN view)
        /\ view' = UpdateCoins(t, S)
  /\ viewChain' = Append(viewChain, Undo(t))
  /\ mode' = IF mode = "connect" THEN mode ELSE "reconnect"
  /\ UNCHANGED <<db, dbChain, tipChain, fClean>>

\* ApplyTxInUndo for the outputs of p that t spent.  A transaction that comes
\* back whole is cleared first, and the undo data has no fCoinStake.
ApplyTxInUndo(e, u, p) ==
  IF p \in u.last
    THEN [e EXCEPT !.outs = SpentOf(u.tx, p), !.fCoinStake = FALSE]
    ELSE [e EXCEPT !.outs = @ \cup SpentOf(u.tx, p)]

\* The errors of DisconnectBlock and ApplyTxInUndo.
CleanDisconnect(u) ==
  /\ ViewCoins(u.tx).outs = Outputs[u.tx]
  /\ \A p \in Parents(u.tx) :
       /\ (p \in u.last) <=> ViewCoins(p).outs = {}
       /\ ViewCoins(p).outs \cap SpentOf(u.tx, p) = {}

\* The part of DisconnectBlock that works on coins, for one transaction.
DisconnectTx ==
  /\ mode \in {"disconnect", "verify"}
  /\ viewChain # <<>>
  /\ LET u == viewChain[Len(viewChain)]
         S == Parents(u.tx) \cup {u.tx}
         cache == ModifyCoins(S)
         restored == [x \in DOMAIN cache |->
                        IF x = u.tx THEN [cache[x] EXCEPT !.outs = {}, !.fCoinStake = FALSE]
                        ELSE IF x \in Parents(u.tx) THEN ApplyTxInUndo(cache[x], u, x)
                        ELSE cache[x]]
     IN /\ view' = Released(restored, S)
        /\ tip' = FetchTip(S \ DOMAIN view)
        /\ fClean' = (fClean /\ CleanDisconnect(u))
  /\ viewChain' = SubSeq(viewChain, 1, Len(viewChain) - 1)
  /\ UNCHANGED <<db, dbChain, tipChain, mode>>

\* Mutant: FRESH of the entry from above is kept.
MergedFlags_KeepFresh(t, e) ==
  [e EXCEPT !.dirty = TRUE]

\* What BatchWrite of the tip makes of the entry e that comes from above.
MergedFlags(t, e) ==
  [e EXCEPT !.dirty = TRUE,
            !.fresh = IF t \in DOMAIN tip THEN tip[t].fresh ELSE e.fresh]

\* Mutant: every entry without outputs is dropped.
Forgotten_Pruned(t, e) == e.outs = {}

\* A pruned entry the layer below has never seen is not kept.
Forgotten(t, e) ==
  IF t \in DOMAIN tip THEN tip[t].fresh /\ e.outs = {} ELSE e.fresh /\ e.outs = {}

\* CStateViewCache::BatchWrite, from the view into the tip.
BatchWriteTip ==
  LET written == {t \in DOMAIN view : view[t].dirty}
      gone == {t \in written : Forgotten(t, view[t])}
  IN [t \in (DOMAIN tip \cup written) \ gone |->
        IF t \in written THEN MergedFlags(t, view[t]) ELSE tip[t]]

\* view.Flush() at the end of ConnectTip and DisconnectTip
FlushView ==
  /\ mode \in {"connect", "disconnect"}
  /\ tip' = BatchWriteTip
  /\ tipChain' = viewChain
  /\ view' = NoEntries
  /\ mode' = "idle"
  /\ UNCHANGED <<db, dbChain, viewChain, fClean>>

\* The view goes out of scope: the block is invalid, or VerifyDB is done.
DropView ==
  /\ mode # "idle"
  /\ mode' = "idle"
  /\ view' = NoEntries
  /\ viewChain' = tipChain
  /\ UNCHANGED <<db, tip, dbChain, tipChain, fClean>>

\* CStateViewDB::BatchWrite: one batch
BatchWriteDB ==
  [t \in Txids |-> IF t \in DOMAIN tip /\ tip[t].dirty THEN tip[t].outs ELSE db[t]]

\* pcoinsTip->Flush() in FlushStateToDisk
FlushTip ==
  /\ mode = "idle"
  /\ db' = BatchWriteDB
  /\ dbChain' = tipChain
  /\ tip' = NoEntries
  /\ UNCHANGED <<view, tipChain, viewChain, mode, fClean>>

\* A transaction offered to the memory pool reads the coins of its inputs.
ReadTip(t) ==
  /\ mode = "idle"
  /\ tip' = FetchTip({t})
  /\ UNCHANGED <<db, view, dbChain, tipChain, viewChain, mode, fClean>>

\* ... and when it is refused, what it brought into the cache leaves it.
Uncache(t) ==
  /\ mode = "idle"
  /\ t \in DOMAIN tip
  /\ ~tip[t].dirty /\ ~tip[t].fresh
  /\ tip' = Erase(tip, {t})
  /\ UNCHANGED <<db, view, dbChain, tipChain, viewChain, mode, fClean>>

\* The process ends without FlushStateToDisk and starts again.
Restart ==
  /\ tip' = NoEntries /\ view' = NoEntries
  /\ tipChain' = dbChain /\ viewChain' = dbChain
  /\ mode' = "idle"
  /\ UNCHANGED <<db, dbChain, fClean>>

Next ==
  \/ \E m \in {"connect", "disconnect", "verify"} : OpenView(m)
  \/ \E t \in Txids, fEnforceBIP30 \in BOOLEAN : ConnectTx(t, fEnforceBIP30)
  \/ DisconnectTx
  \/ FlushView
  \/ DropView
  \/ FlushTip
  \/ \E t \in Txids : ReadTip(t)
  \/ \E t \in Txids : Uncache(t)
  \/ Restart

Spec == Init /\ [][Next]_vars
-----------------------------------------------------------------------------
Undone == [tx : Txids, last : SUBSET Txids]

TypeOK ==
  /\ db \in [Txids -> SUBSET Nat]
  /\ DOMAIN tip \subseteq Txids /\ \A t \in DOMAIN tip : tip[t] \in Entry(t)
  /\ DOMAIN view \subseteq Txids /\ \A t \in DOMAIN view : view[t] \in Entry(t)
  /\ dbChain \in Seq(Undone) /\ tipChain \in Seq(Undone) /\ viewChain \in Seq(Undone)
  /\ mode \in Modes
  /\ fClean \in BOOLEAN

(* An entry of pcoinsTip marked FRESH has no record on disk, and one that  *)
(* is not DIRTY holds what is on disk: otherwise a spent output reappears, *)
(* or a new one is lost, when the entry is forgotten (BatchWrite, Uncache, *)
(* ~CCoinsModifier).                                                       *)
TipFlagsAreTrue ==
  \A t \in DOMAIN tip :
    /\ tip[t].fresh => db[t] = {}
    /\ ~tip[t].dirty => tip[t].outs = db[t]

(* The same for the view of a block over pcoinsTip.  The view of VerifyDB  *)
(* breaks it when a block is reconnected (ModifyNewCoins marks coins as    *)
(* FRESH that the tip still has) but then never forgets an entry the tip   *)
(* has outputs for.                                                        *)
ViewFlagsAreTrue ==
  \A t \in DOMAIN view :
    /\ view[t].fresh => \/ TipCoins(t).outs = {}
                        \/ mode = "reconnect" /\ view[t].outs # {}
    /\ ~view[t].dirty => view[t].outs = TipCoins(t).outs

(* DisconnectBlock never reports an inconsistency: the outputs of a block  *)
(* are all there when it is disconnected, and the undo data of its inputs  *)
(* fits the coins it is applied to, whatever was flushed, forgotten or     *)
(* read again in between.                                                  *)
DisconnectIsClean == fClean

(* The flags of every layer of coins are true of the layer below, and undo *)
(* data always fits what it is applied to.                                 *)
CoinsAreRight == TypeOK /\ TipFlagsAreTrue /\ ViewFlagsAreTrue /\ DisconnectIsClean

UtxoOf(C(_)) == {i \in Txids \X UNION {Outputs[t] : t \in Txids} : i[2] \in C(i[1]).outs}
TxsOf(chain) == [i \in DOMAIN chain |-> chain[i].tx]

Utxo == INSTANCE UtxoSet WITH
  stored <- [utxo |-> UtxoOf(Stored), chain |-> TxsOf(dbChain)],
  tip <- [utxo |-> UtxoOf(TipCoins), chain |-> TxsOf(tipChain)],
  view <- [utxo |-> UtxoOf(ViewCoins), chain |-> TxsOf(viewChain)]

(* The stack of caches is the plain sets of unspent outputs of UtxoSet:    *)
(* flushing, fetching and forgetting are invisible, a commit is atomic and *)
(* a restart leaves the last flushed state.                                *)
UtxoSpec == Utxo!Spec
=============================================================================
