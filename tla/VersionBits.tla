----------------------------- MODULE VersionBits -----------------------------
(***************************************************************************)
(* The state of a soft fork deployment at each block (versionbits.cpp) and *)
(* the cache that all callers share, over a tree of blocks.                *)
(*                                                                         *)
(* A block is the sequence of the headers of its chain, so its height is   *)
(* one less than the length and <<>> stands for nullptr.  A header has its *)
(* time, whether its version has the top bits of version bits, and the bit *)
(* of the deployment.                                                      *)
(***************************************************************************)
EXTENDS Integers, FiniteSets, FiniteSetsExt, Sequences, SequencesExt

CONSTANTS
  Period, Threshold,
  StartTime, Timeout,
  MedianTimeSpan,
  NtpSync,     \* IsNtpSyncEnabled: no block is older than the one before it
  SigHF,       \* IsSigHFEnabled: the top bits are required
  Required,    \* headers without the bit are refused once it is active
  Times,
  MaxLength, MaxTips   \* bounds on the tree

ConstantsAssumption ==
  /\ Period \in Nat \ {0} /\ Threshold \in 1 .. Period
  /\ Times \subseteq Nat /\ StartTime \in Nat /\ Timeout \in Nat
  /\ MedianTimeSpan \in Nat \ {0} /\ NtpSync \in BOOLEAN /\ SigHF \in BOOLEAN
  /\ Required \in BOOLEAN

VARIABLES
  tips,    \* leaves of the block tree
  cache    \* ThresholdConditionCache

vars == <<tips, cache>>

ThresholdStates == {"DEFINED", "STARTED", "LOCKED_IN", "ACTIVE", "FAILED"}
Headers == [time : Times, top : BOOLEAN, bit : BOOLEAN]
Blocks == UNION {{SubSeq(t, 1, n) : n \in 0 .. Len(t)} : t \in tips}

-----------------------------------------------------------------------------
GetMedianTimePast(b) ==
  LET span == SubSeq(b, IF Len(b) > MedianTimeSpan THEN Len(b) - MedianTimeSpan + 1 ELSE 1, Len(b))
      sorted == SortSeq([i \in DOMAIN span |-> span[i].time], <)
  IN sorted[(Len(sorted) \div 2) + 1]

\* The comparison of the top bits is the condition of a ?: whose two values
\* are both true.
Condition(header) == header.bit

\* The state after block b, the last of a period, from the one before it.
StateNext(state, b) ==
  IF state \in {"DEFINED", "STARTED"} /\ GetMedianTimePast(b) >= Timeout THEN "FAILED"
  ELSE CASE state = "DEFINED" -> IF GetMedianTimePast(b) >= StartTime THEN "STARTED" ELSE state
         [] state = "STARTED" ->
              IF Cardinality({i \in Len(b) - Period + 1 .. Len(b) : Condition(b[i])}) >= Threshold
              THEN "LOCKED_IN" ELSE state
         [] state = "LOCKED_IN" -> "ACTIVE"
         [] OTHER -> state

Ending(b, k) == SubSeq(b, 1, k * Period)

\* Mutant of GetStateFor: the walk back stops in front of a block whose
\* state is known and takes it for the state of the block after it.
GetStateFor_Shifted(b, known) ==
  LET last == Len(b) \div Period
      from == Max({k \in 0 .. last : \/ k = 0 \/ Ending(b, k) \in DOMAIN known
                                     \/ GetMedianTimePast(Ending(b, k)) < StartTime})
      first == IF Ending(b, from) \in DOMAIN known THEN known[Ending(b, from)] ELSE "DEFINED"
      states == FoldLeft(LAMBDA acc, k : Append(acc, StateNext(acc[Len(acc)], Ending(b, from + k))),
                         <<first, first>>, [i \in 1 .. last - from |-> i])
  IN [state |-> states[Len(states)],
      cache |-> [x \in DOMAIN known \cup {Ending(b, k) : k \in from .. last} |->
                   IF x \in DOMAIN known THEN known[x] ELSE states[(Len(x) \div Period) - from + 1]]]

\* The state of the block after b, and the cache with what was computed: back
\* in steps of a period to a known state or to one before the start, then
\* forward.
GetStateFor(b, known) ==
  LET last == Len(b) \div Period
      from == Max({k \in 0 .. last : \/ k = 0 \/ Ending(b, k) \in DOMAIN known
                                     \/ GetMedianTimePast(Ending(b, k)) < StartTime})
      first == IF Ending(b, from) \in DOMAIN known THEN known[Ending(b, from)] ELSE "DEFINED"
      states == FoldLeft(LAMBDA acc, k : Append(acc, StateNext(acc[Len(acc)], Ending(b, from + k))),
                         <<first>>, [i \in 1 .. last - from |-> i])
  IN [state |-> states[Len(states)],
      cache |-> [x \in DOMAIN known \cup {Ending(b, k) : k \in from .. last} |->
                   IF x \in DOMAIN known THEN known[x] ELSE states[(Len(x) \div Period) - from + 1]]]

-----------------------------------------------------------------------------
Init == tips = {<<>>} /\ cache = <<>>

\* The checks of ContextualCheckBlockHeader and ContextualCheckBlock, which
\* ask for the state of the deployment at the block before.
Accepted(b, header) ==
  LET at == GetStateFor(b, cache)
  IN /\ Len(b) < MaxLength
     /\ b = <<>> => tips = {<<>>}
     /\ SigHF => header.top
     /\ NtpSync /\ b # <<>> => header.time >= b[Len(b)].time
     /\ tips' = (tips \ {b}) \cup {Append(b, header)}
     /\ Cardinality(tips') <= MaxTips
     /\ Required /\ at.state = "ACTIVE" => header.bit
     /\ cache' = at.cache

\* A block of any peer, or the genesis block.
AcceptBlock(b, header) == Accepted(b, header)

\* CreateNewBlock with ComputeBlockVersion: an operator may reject the bit
\* while the deployment is not locked in.
MineBlock(b, time, rejected) ==
  LET state == GetStateFor(b, cache).state
  IN Accepted(b, [time |-> time, top |-> TRUE,
                  bit |-> \/ state \in {"LOCKED_IN", "ACTIVE"}
                          \/ state = "STARTED" /\ ~rejected])

\* VersionBitsState: of the tip, of a block that is connected or of the block
\* before a header that is refused.
VersionBitsState(b) ==
  /\ cache' = GetStateFor(b, cache).cache
  /\ UNCHANGED tips

\* UnloadBlockIndex
Clear ==
  /\ cache' = <<>>
  /\ UNCHANGED tips

Next ==
  \/ \E b \in Blocks : \/ \E header \in Headers : AcceptBlock(b, header)
                       \/ VersionBitsState(b)
                       \/ \E time \in Times, rejected \in BOOLEAN : MineBlock(b, time, rejected)
  \/ Clear

Spec == Init /\ [][Next]_vars

-----------------------------------------------------------------------------
(* Properties                                                              *)

(* The cache holds states of blocks that end a period.                     *)
TypeOK ==
  \A b \in DOMAIN cache : b \in Blocks /\ Len(b) % Period = 0 /\ cache[b] \in ThresholdStates

\* The states along a chain, computed from the genesis block on.
Reference(b) ==
  FoldLeft(LAMBDA acc, k : StateNext(acc, Ending(b, k)), "DEFINED",
           [i \in 1 .. Len(b) \div Period |-> i])

(* What the shared cache answers is what the chain of the block alone      *)
(* decides: neither blocks of other branches nor the order of the queries, *)
(* nor the walk that stops at the first block before the start, matter.    *)
CacheIsReference == \A b \in DOMAIN cache : cache[b] = Reference(b)

Signals(b) == Cardinality({i \in Len(b) - Period + 1 .. Len(b) : b[i].bit})

(* A deployment is active only after a period, begun and ended between its *)
(* start and its timeout, in which enough blocks had the bit; and the      *)
(* period between that one and activation is the only one it is locked in. *)
ActivatedBySignals ==
  \A b \in DOMAIN cache :
    /\ cache[b] = "LOCKED_IN" =>
         /\ Signals(b) >= Threshold
         /\ GetMedianTimePast(b) < Timeout
         /\ GetMedianTimePast(Ending(b, (Len(b) \div Period) - 1)) >= StartTime
    /\ cache[b] = "ACTIVE" =>
         \E k \in 2 .. (Len(b) \div Period) - 1 :
            /\ Signals(Ending(b, k)) >= Threshold
            /\ GetMedianTimePast(Ending(b, k)) < Timeout

(* ACTIVE and FAILED are final: no later block of the chain has another    *)
(* state (the terminal states of GetStateFor).                             *)
TerminalStates ==
  \A b \in DOMAIN cache, c \in Blocks :
    /\ cache[b] \in {"ACTIVE", "FAILED"}
    /\ Len(c) >= Len(b) /\ SubSeq(c, 1, Len(b)) = b
    => GetStateFor(c, cache).state = cache[b]
=============================================================================
