------------------------------ MODULE UtxoSet ------------------------------
(***************************************************************************)
(* What the stack of coin caches promises: one set of unspent outputs per  *)
(* level (on disk, at the tip, in the view of the block being processed),  *)
(* each together with the transactions that led to it.  A view starts as a *)
(* copy of the tip, takes or undoes whole transactions and becomes the tip *)
(* or vanishes; the disk follows the tip at once and is all that a crash   *)
(* leaves.                                                                 *)
(***************************************************************************)
EXTENDS Naturals, Sequences

CONSTANTS
  Txids,      \* the transactions, by hash
  Inputs,     \* Inputs[t]: the outpoints <<txid, n>> that t spends
  Outputs,    \* Outputs[t]: the positions of the spendable outputs of t
  MaxChain    \* bound: transactions in the chain

VARIABLES stored, tip, view, mode

uvars == <<stored, tip, view, mode>>

Outpoints(t) == {<<t, n>> : n \in Outputs[t]}
Genesis == [utxo |-> {}, chain |-> <<>>]

Init ==
  /\ stored = Genesis
  /\ tip = Genesis
  /\ view = Genesis
  /\ mode = "idle"

\* A view for a block to connect or disconnect, or for a verification.
Open(m) ==
  /\ mode = "idle"
  /\ mode' = m
  /\ view' = tip
  /\ UNCHANGED <<stored, tip>>

Connect(t) ==
  /\ \/ mode = "connect" /\ Len(view.chain) < MaxChain
     \/ /\ mode \in {"verify", "reconnect"}
        /\ Len(view.chain) < Len(tip.chain)
        /\ t = tip.chain[Len(view.chain) + 1]
  /\ Inputs[t] \subseteq view.utxo
  /\ \A i \in DOMAIN view.chain : view.chain[i] # t
  /\ view' = [utxo |-> (view.utxo \ Inputs[t]) \cup Outpoints(t),
              chain |-> Append(view.chain, t)]
  /\ mode' = IF mode = "connect" THEN mode ELSE "reconnect"
  /\ UNCHANGED <<stored, tip>>

Disconnect ==
  /\ mode \in {"disconnect", "verify"}
  /\ view.chain # <<>>
  /\ LET t == view.chain[Len(view.chain)]
     IN view' = [utxo |-> (view.utxo \ Outpoints(t)) \cup Inputs[t],
                 chain |-> SubSeq(view.chain, 1, Len(view.chain) - 1)]
  /\ UNCHANGED <<stored, tip, mode>>

Commit ==
  /\ mode \in {"connect", "disconnect"}
  /\ tip' = view
  /\ mode' = "idle"
  /\ UNCHANGED <<stored, view>>

Drop ==
  /\ mode # "idle"
  /\ mode' = "idle"
  /\ view' = tip
  /\ UNCHANGED <<stored, tip>>

Sync ==
  /\ mode = "idle"
  /\ stored' = tip
  /\ UNCHANGED <<tip, view, mode>>

Crash ==
  /\ tip' = stored
  /\ view' = stored
  /\ mode' = "idle"
  /\ UNCHANGED stored

Next ==
  \/ \E m \in {"connect", "disconnect", "verify"} : Open(m)
  \/ \E t \in Txids : Connect(t)
  \/ Disconnect
  \/ Commit
  \/ Drop
  \/ Sync
  \/ Crash

Spec == Init /\ [][Next]_uvars
=============================================================================
