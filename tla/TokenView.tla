----------------------------- MODULE TokenView ------------------------------
(***************************************************************************)
(* One confidential token, fungible or a collection (NFT).  Outputs of     *)
(* transactions create it, mint, burn and stop minting; ConnectBlock       *)
(* applies them to the record of the token and DisconnectBlock applies the *)
(* opposite operation, there being no undo data for tokens.                *)
(*                                                                         *)
(* The record lives in the view of a block, in pcoinsTip and on disk.  The *)
(* caches have no flags but fDirty, which decides what is written to disk. *)
(* Names, descriptions and the proofs of the amounts are left out.         *)
(***************************************************************************)
EXTENDS Naturals, Sequences, SequencesExt, FiniteSets

CONSTANTS
  Absent,        \* not in a cache
  Kinds,         \* versions of the token: "fungible" and "nft"
  TotalSupply,   \* most units, or highest id of a collection
  Actions,       \* of "create", "mint", "burn", "stop"
  BurnAfterStop, \* whether anyone burns units of a stopped token
  Settled,       \* blocks too deep to be disconnected
  MaxOutputs,    \* bounds: outputs of a transaction with programs,
  MaxHeight,     \* blocks, one such transaction each,
  MaxFlushes     \* and writes to disk

ConstantsAssumption ==
  /\ Kinds \subseteq {"fungible", "nft"}
  /\ Actions \subseteq {"create", "mint", "burn", "stop"}
  /\ TotalSupply \in Nat /\ BurnAfterStop \in BOOLEAN

VARIABLES
  chain,        \* the programs of each block of the active chain
  db, tip,      \* the token on disk and in pcoinsTip
  flushes,
  failed        \* DisconnectBlock refused to disconnect a connected block

vars == <<chain, db, tip, flushes, failed>>

NullToken == [kind |-> "null", supply |-> 0, minted |-> {}, canMint |-> FALSE, dirty |-> FALSE]
IsNull(t) == t = NullToken

\* What the disk keeps of a token, as it is read back: canMint of a collection
\* is not written.
Stored(t) == [t EXCEPT !.dirty = FALSE, !.canMint = t.kind = "fungible" /\ t.canMint]

NewToken(k) == [kind |-> k, supply |-> 0, minted |-> {}, canMint |-> TRUE, dirty |-> TRUE]

\* IncreaseSupply and DecreaseSupply return whether they did it.
CanIncrease(t, n) == t.canMint /\ t.supply + n <= TotalSupply
IncreaseSupply(t, n) == IF CanIncrease(t, n) THEN [t EXCEPT !.supply = @ + n] ELSE t
CanDecrease(t, n) == t.supply >= n
DecreaseSupply(t, n) == IF CanDecrease(t, n) THEN [t EXCEPT !.supply = @ - n] ELSE t

\* Mutant: a modified token is not marked.
Modified_Clean(prev, t) == t

\* ~TokenModifier
Modified(prev, t) ==
  IF [prev EXCEPT !.dirty = t.dirty] = t THEN t ELSE [t EXCEPT !.dirty = TRUE]

NoKind == "null"
Program == {p \in [action : Actions, kind : Kinds \cup {NoKind}, n : 0..TotalSupply] :
              /\ p.action = "create" <=> p.kind # NoKind
              /\ p.action \in {"create", "stop"} => p.n = 0}

\* The conditions of ConnectBlock
ValidProgram(t, p) ==
  CASE p.action = "create" -> IsNull(t)
    [] p.action = "mint" -> \/ t.kind = "fungible" /\ CanIncrease(t, p.n)
                            \/ t.kind = "nft" /\ p.n \notin t.minted
    [] p.action = "burn" -> t.kind = "fungible" /\ CanDecrease(t, p.n)
    [] p.action = "stop" -> ~IsNull(t) /\ t.canMint

Apply(t, p) ==
  CASE p.action = "create" -> NewToken(p.kind)
    [] p.action = "mint" /\ t.kind = "fungible" -> Modified(t, IncreaseSupply(t, p.n))
    [] p.action = "mint" /\ t.kind = "nft" -> Modified(t, [t EXCEPT !.minted = @ \cup {p.n}])
    [] p.action = "burn" -> Modified(t, DecreaseSupply(t, p.n))
    [] p.action = "stop" -> Modified(t, [t EXCEPT !.canMint = FALSE])

\* The conditions of DisconnectBlock
CanUndo(t, p) ==
  /\ p.action # "create" => ~IsNull(t)
  /\ p.action = "mint" /\ t.kind = "nft" => p.n \in t.minted

\* Mutant: minting stays stopped.
Undo_KeepStopped(t, p) ==
  CASE p.action = "create" -> NullToken
    [] p.action = "mint" /\ t.kind = "fungible" -> Modified(t, DecreaseSupply(t, p.n))
    [] p.action = "mint" /\ t.kind = "nft" -> Modified(t, [t EXCEPT !.minted = @ \ {p.n}])
    [] p.action = "burn" -> Modified(t, IncreaseSupply(t, p.n))
    [] p.action = "stop" -> t

Undo(t, p) ==
  CASE p.action = "create" -> NullToken
    [] p.action = "mint" /\ t.kind = "fungible" -> Modified(t, DecreaseSupply(t, p.n))
    [] p.action = "mint" /\ t.kind = "nft" -> Modified(t, [t EXCEPT !.minted = @ \ {p.n}])
    [] p.action = "burn" -> Modified(t, IncreaseSupply(t, p.n))
    [] p.action = "stop" -> Modified(t, [t EXCEPT !.canMint = TRUE])

\* A token and whether every program so far was accepted
OnConnect(s, p) ==
  IF s.ok /\ ValidProgram(s.token, p) THEN [s EXCEPT !.token = Apply(s.token, p)]
                                      ELSE [s EXCEPT !.ok = FALSE]
OnDisconnect(s, p) ==
  IF s.ok /\ CanUndo(s.token, p) THEN [s EXCEPT !.token = Undo(s.token, p)]
                                 ELSE [s EXCEPT !.ok = FALSE]
\* VerifyBLSCT has looked up the token of every mint before the first output.
ConnectOutputs(t, tx) ==
  LET mints == \E i \in DOMAIN tx : tx[i].action = "mint"
  IN FoldLeft(OnConnect, [token |-> t, ok |-> mints => ~IsNull(t)], tx)
\* The outputs of a transaction are undone first to last.
DisconnectOutputs(t, tx) == FoldLeft(OnDisconnect, [token |-> t, ok |-> TRUE], tx)

\* FetchToken: a token found below enters the cache, a null one does not
Fetched(cached, below) ==
  IF cached = Absent /\ ~IsNull(below) THEN below ELSE cached
TokenIn(cached, below) == IF cached = Absent THEN below ELSE cached
TipToken == TokenIn(tip, db)

Programs == UNION {[1..n -> Program] : n \in 1..MaxOutputs}
-----------------------------------------------------------------------------
Init ==
  /\ chain = <<>>
  /\ db = NullToken
  /\ tip = Absent
  /\ flushes = 0
  /\ failed = FALSE

\* ConnectTip with a valid block.  Its flush replaces the token of the tip.
ConnectTip(tx) ==
  LET result == ConnectOutputs(TipToken, tx)
      Stopped == \E h \in DOMAIN chain : \E i \in DOMAIN chain[h] : chain[h][i].action = "stop"
  IN /\ Len(chain) < MaxHeight
     /\ BurnAfterStop \/ ~\E i \in DOMAIN tx : tx[i].action = "burn" /\ Stopped
     /\ result.ok
     /\ tip' = result.token
     /\ chain' = Append(chain, tx)
     /\ UNCHANGED <<db, flushes, failed>>

\* ConnectTip with a block ConnectBlock refuses: the token has been read.
RejectBlock(tx) ==
  /\ Len(chain) < MaxHeight
  /\ ~ConnectOutputs(TipToken, tx).ok
  /\ tip' = Fetched(tip, db)
  /\ UNCHANGED <<chain, db, flushes, failed>>

DisconnectTip ==
  LET h == Len(chain)
      result == DisconnectOutputs(TipToken, chain[h])
  IN /\ h > Settled
     /\ ~failed
     /\ IF result.ok THEN /\ tip' = result.token
                          /\ chain' = SubSeq(chain, 1, h - 1)
                          /\ UNCHANGED failed
                     ELSE /\ tip' = Fetched(tip, db)
                          /\ failed' = TRUE
                          /\ UNCHANGED chain
     /\ UNCHANGED <<db, flushes>>

\* CStateViewDB::BatchWrite: only what is dirty is written or erased.
BatchWrite(t) == IF t.dirty THEN Stored(t) ELSE db

FlushStateToDisk ==
  /\ flushes < MaxFlushes
  /\ flushes' = flushes + 1
  /\ db' = IF tip = Absent THEN db ELSE BatchWrite(tip)
  /\ tip' = Absent
  /\ UNCHANGED <<chain, failed>>

Next ==
  \/ \E tx \in Programs : ConnectTip(tx)
  \/ \E tx \in Programs : RejectBlock(tx)
  \/ DisconnectTip
  \/ FlushStateToDisk

Spec == Init /\ [][Next]_vars
-----------------------------------------------------------------------------
Token == [kind : Kinds \cup {"null"}, supply : 0..TotalSupply, minted : SUBSET (0..TotalSupply),
          canMint : BOOLEAN, dirty : BOOLEAN]

TypeOK ==
  /\ \A h \in DOMAIN chain : chain[h] \in Programs
  /\ Len(chain) <= MaxHeight
  /\ db \in Token /\ ~db.dirty
  /\ tip = Absent \/ tip \in Token
  /\ flushes \in 0..MaxFlushes
  /\ failed \in BOOLEAN

\* The token that the blocks of the chain, connected from nothing, leave
Replay == FoldLeft(LAMBDA t, tx : ConnectOutputs(t, tx).token, NullToken, chain)

(* The token is the one the active chain makes, whatever was connected and *)
(* disconnected before and whenever the cache was written: a node that     *)
(* reorganised has the supply, the minted ids and the state of minting of  *)
(* a node that never saw the other branch (DisconnectBlock).  canMint of a *)
(* collection, which the disk does not keep, is left out.                  *)
TokenFollowsChain ==
  ~failed => Stored(TipToken) = Stored(Replay)

(* Writing the cache to disk changes nothing of a token but fDirty and, of *)
(* a collection, canMint, which TokenInfo does not serialise: what blocks  *)
(* may do is what it was before, with that one exception.  (After a write  *)
(* ConnectBlock refuses to stop the minting of a collection.)              *)
FlushIsInvisible ==
  FlushStateToDisk =>
    /\ Stored(TipToken') = Stored(TipToken)
    /\ \A p \in Program :
         ValidProgram(TipToken, p)' = ValidProgram(TipToken, p)
           \/ (p.action = "stop" /\ TipToken.kind = "nft")

(* A block that was connected can be disconnected again.                   *)
DisconnectSucceeds == ~failed

(* What was minted and not burnt never exceeds the supply announced, and   *)
(* no id of a collection is minted by two outputs of the chain.            *)
SupplyIsBacked ==
  LET outs == FlattenSeq(chain)
      Sum(a) == FoldLeft(LAMBDA s, p : IF p.action = a THEN s + p.n ELSE s, 0, outs)
  IN ~failed =>
       /\ TipToken.kind = "fungible" => /\ Sum("mint") >= Sum("burn")
                                        /\ Sum("mint") - Sum("burn") <= TotalSupply
       /\ TipToken.kind = "nft" =>
            \A i, j \in DOMAIN outs : outs[i].action = "mint" /\ outs[j].action = "mint"
                                      /\ outs[i].n = outs[j].n => i = j
=============================================================================
