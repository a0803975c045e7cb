------------------------------ MODULE AddrMan -------------------------------
(***************************************************************************)
(* The address manager (addrman.h, addrman.cpp) and its file, peers.dat:   *)
(* addresses not tried yet lie in up to MaxRefs slots of the "new" table,  *)
(* tried ones in one slot of the "tried" table.  The maps, the counters    *)
(* and vRandom repeat parts of that.                                       *)
(*                                                                         *)
(* Hashes with the secret key are given functions.  Time is left out: an   *)
(* entry may be terrible at any moment.  The statistics of an entry, which *)
(* Attempt_, Connected_ and SetServices_ change, are therefore left out    *)
(* but for nLastSuccess.                                                   *)
(***************************************************************************)
EXTENDS Integers, FiniteSets, FiniteSetsExt, Sequences, SequencesExt, Functions

CONSTANTS
  Services,   \* CService: a network address with a port
  Host,       \* of each service: its address, the key of mapAddr
  Sources,    \* who tells of an address
  Buckets, Positions,  \* of the table "new"
  NewBucket,  \* GetNewBucket of a service and a source
  NewPosition,  \* GetBucketPosition of a service in a bucket of "new"
  TriedSlots, TriedSlot,  \* bucket and position of a service in "tried"
  MaxRefs,    \* ADDRMAN_NEW_BUCKETS_PER_ADDRESS
  MaxIds, MaxDumps, MaxRestarts  \* bounds

ConstantsAssumption ==
  /\ Host \in [Services -> Services] /\ TriedSlot \in [Services -> TriedSlots]
  /\ NewBucket \in [Services -> [Sources -> Buckets]]
  /\ NewPosition \in [Services -> [Buckets -> Positions]]
  /\ MaxRefs \in Nat \ {0} /\ MaxIds \in Nat /\ MaxDumps \in Nat /\ MaxRestarts \in Nat

VARIABLES
  addrman,    \* the object
  file,       \* what peers.dat holds
  calls       \* dumps and restarts so far

vars == <<addrman, file, calls>>

Empty == -1
None == [id \in {} |-> id]

\* Clear, of an object that was just constructed
Cleared ==
  [mapInfo |-> None, mapAddr |-> None, vRandom |-> <<>>, nIdCount |-> 0, nTried |-> 0, nNew |-> 0,
   vvTried |-> [k \in TriedSlots |-> Empty],
   vvNew |-> [u \in Buckets \X Positions |-> Empty]]

Slot(service, bucket) == <<bucket, NewPosition[service][bucket]>>

\* Create, and the entries made when a file is read: the next id
Create(m, service, source, success) ==
  [m EXCEPT !.nIdCount = @ + 1,
            !.mapInfo = (m.nIdCount :> [service |-> service, source |-> source,
                                        nLastSuccess |-> success, nRefCount |-> 0,
                                        fInTried |-> FALSE, nRandomPos |-> Len(m.vRandom) + 1]) @@ @,
            !.mapAddr = (Host[service] :> m.nIdCount) @@ @,
            !.vRandom = Append(@, m.nIdCount)]

SwapRandom(m, i, j) ==
  IF i = j THEN m
    ELSE [m EXCEPT !.vRandom = [@ EXCEPT ![i] = m.vRandom[j], ![j] = m.vRandom[i]],
                   !.mapInfo = [@ EXCEPT ![m.vRandom[i]].nRandomPos = j,
                                         ![m.vRandom[j]].nRandomPos = i]]

Delete(m, id) ==
  LET info == m.mapInfo[id]
  IN [SwapRandom(m, info.nRandomPos, Len(m.vRandom)) EXCEPT
        !.vRandom = Front(@),
        !.mapAddr = Restrict(@, DOMAIN @ \ {Host[info.service]}),
        !.mapInfo = Restrict(@, DOMAIN @ \ {id}),
        !.nNew = @ - 1]

ClearNew(m, slot) ==
  LET id == m.vvNew[slot]
      freed == [m EXCEPT !.mapInfo[id].nRefCount = @ - 1, !.vvNew[slot] = Empty]
  IN CASE id = Empty -> m
       [] freed.mapInfo[id].nRefCount = 0 -> Delete(freed, id)
       [] OTHER -> freed

Refer(m, id, slot) == [m EXCEPT !.mapInfo[id].nRefCount = @ + 1, !.vvNew[slot] = id]

\* The entry in the way of a tried one, back in the table "new"
Evict(m, id) ==
  LET info == m.mapInfo[id]
      slot == Slot(info.service, NewBucket[info.service][info.source])
      out == [m EXCEPT !.mapInfo[id].fInTried = FALSE, !.vvTried[TriedSlot[info.service]] = Empty,
                       !.nTried = @ - 1]
  IN [ClearNew(out, slot) EXCEPT !.mapInfo[id].nRefCount = 1, !.vvNew[slot] = id, !.nNew = @ + 1]

MakeTried(m, id) ==
  LET service == m.mapInfo[id].service
      held == {u \in DOMAIN m.vvNew : m.vvNew[u] = id /\ u = Slot(service, u[1])}
      moved == [m EXCEPT !.mapInfo[id].nRefCount = @ - Cardinality(held),
                         !.vvNew = [u \in DOMAIN @ |-> IF u \in held THEN Empty ELSE @[u]],
                         !.nNew = @ - 1]
      old == m.vvTried[TriedSlot[service]]
      space == IF old = Empty THEN moved ELSE Evict(moved, old)
  IN [space EXCEPT !.vvTried[TriedSlot[service]] = id, !.nTried = @ + 1,
                   !.mapInfo[id].fInTried = TRUE]
-----------------------------------------------------------------------------
Find(service) == IF Host[service] \in DOMAIN addrman.mapAddr
                   THEN addrman.mapAddr[Host[service]] ELSE Empty

\* Add_, of an address with news in it; terrible says of the entry in the way
\* whether its statistics are bad.  A known address gets a further slot only by
\* chance.
Add(service, source, terrible) ==
  /\ LET id == Find(service)
         m == IF id = Empty THEN [Create(addrman, service, source, FALSE) EXCEPT !.nNew = @ + 1]
                            ELSE addrman
         own == IF id = Empty THEN addrman.nIdCount ELSE id
         info == m.mapInfo[own]
         slot == Slot(info.service, NewBucket[info.service][source])
         other == m.vvNew[slot]
         insert == other = Empty \/ terrible
                     \/ (m.mapInfo[other].nRefCount > 1 /\ info.nRefCount = 0)
     IN /\ m.nIdCount <= MaxIds
        /\ id # Empty => ~info.fInTried /\ info.nRefCount # MaxRefs
        /\ other # own
        /\ addrman' = CASE insert -> Refer(ClearNew(m, slot), own, slot)
                        [] ~insert /\ info.nRefCount = 0 -> Delete(m, own)
                        [] OTHER -> m
  /\ UNCHANGED <<file, calls>>

Good(service) ==
  /\ LET id == Find(service)
         info == addrman.mapInfo[id]
         m == [addrman EXCEPT !.mapInfo[id].nLastSuccess = TRUE]
     IN /\ id # Empty
        /\ info.service = service
        /\ addrman' = IF info.fInTried \/ \A b \in Buckets : m.vvNew[Slot(service, b)] # id
                        THEN m ELSE MakeTried(m, id)
  /\ UNCHANGED <<file, calls>>

\* GetAddr_ swaps each place of vRandom with one behind it.
GetAddr(picks) ==
  /\ \A i \in DOMAIN picks : picks[i] >= i
  /\ addrman' = FoldLeft(LAMBDA m, i : SwapRandom(m, i, picks[i]), addrman,
                         [i \in DOMAIN picks |-> i])
  /\ UNCHANGED <<file, calls>>
-----------------------------------------------------------------------------
Sorted(ids) == SetToSortSeq(ids, <)

\* Serialize: entries in the order of their ids, and for each bucket of "new"
\* which of them it holds
Serialize(m) ==
  LET fresh == Sorted({id \in DOMAIN m.mapInfo : m.mapInfo[id].nRefCount # 0})
      tried == Sorted({id \in DOMAIN m.mapInfo : m.mapInfo[id].fInTried})
      Entry(id) == [service |-> m.mapInfo[id].service, source |-> m.mapInfo[id].source,
                    nLastSuccess |-> m.mapInfo[id].nLastSuccess]
      Listed(b) == SelectSeq([p \in Positions |-> m.vvNew[<<b, p>>]], LAMBDA id : id # Empty)
      Index(id) == CHOOSE n \in DOMAIN fresh : fresh[n] = id
  IN [new |-> [n \in DOMAIN fresh |-> Entry(fresh[n])],
      tried |-> [n \in DOMAIN tried |-> Entry(tried[n])],
      index |-> [b \in Buckets |-> [n \in DOMAIN Listed(b) |-> Index(Listed(b)[n])]]]

\* Unserialize; same says whether the file has this version and as many buckets
ReadNew(m, entry, same) ==
  LET read == [Create(m, entry.service, entry.source, entry.nLastSuccess) EXCEPT !.nNew = @ + 1]
      slot == Slot(entry.service, NewBucket[entry.service][entry.source])
  IN IF same \/ m.vvNew[slot] # Empty THEN read ELSE Refer(read, m.nIdCount, slot)

ReadTried(m, entry) ==
  LET slot == TriedSlot[entry.service]
  IN IF m.vvTried[slot] # Empty THEN m
       ELSE [Create(m, entry.service, entry.source, entry.nLastSuccess) EXCEPT
               !.mapInfo[m.nIdCount].fInTried = TRUE, !.vvTried[slot] = m.nIdCount, !.nTried = @ + 1]

ReadIndex(m, bucket, id) ==
  LET slot == Slot(m.mapInfo[id].service, bucket)
  IN IF m.vvNew[slot] = Empty /\ m.mapInfo[id].nRefCount < MaxRefs THEN Refer(m, id, slot) ELSE m

\* Mutant: entries without a slot are kept.
Unserialize_KeepLost(f, same) ==
  LET fresh == FoldLeft(LAMBDA m, e : ReadNew(m, e, same), Cleared, f.new)
      tried == FoldLeft(ReadTried, fresh, f.tried)
  IN IF ~same THEN tried
       ELSE FoldLeft(LAMBDA m, b : FoldLeft(LAMBDA n, i : ReadIndex(n, b, i - 1), m, f.index[b]),
                     tried, Sorted(Buckets))

Unserialize(f, same) ==
  LET fresh == FoldLeft(LAMBDA m, e : ReadNew(m, e, same), Cleared, f.new)
      tried == FoldLeft(ReadTried, fresh, f.tried)
      placed == IF ~same THEN tried
                  ELSE FoldLeft(LAMBDA m, b : FoldLeft(LAMBDA n, i : ReadIndex(n, b, i - 1), m,
                                                       f.index[b]),
                                tried, Sorted(Buckets))
      lost == {id \in DOMAIN placed.mapInfo : /\ ~placed.mapInfo[id].fInTried
                                              /\ placed.mapInfo[id].nRefCount = 0}
  IN FoldLeft(Delete, placed, Sorted(lost))

\* DumpAddresses, from time to time and when the node stops
Dump ==
  /\ calls.dump < MaxDumps
  /\ calls' = [calls EXCEPT !.dump = @ + 1]
  /\ file' = Serialize(addrman)
  /\ UNCHANGED addrman

\* The node dies and starts again.
Restart(same) ==
  /\ calls.restart < MaxRestarts
  /\ calls' = [calls EXCEPT !.restart = @ + 1]
  /\ addrman' = Unserialize(file, same)
  /\ UNCHANGED file

Init ==
  /\ addrman = Cleared
  /\ file = Serialize(Cleared)
  /\ calls = [dump |-> 0, restart |-> 0]

Next ==
  \/ \E service \in Services, source \in Sources, terrible \in BOOLEAN :
       Add(service, source, terrible)
  \/ \E service \in Services : Good(service)
  \/ LET n == Len(addrman.vRandom) IN \E picks \in [1 .. n -> 1 .. n] : GetAddr(picks)
  \/ Dump
  \/ \E same \in BOOLEAN : Restart(same)

Spec == Init /\ [][Next]_vars
-----------------------------------------------------------------------------
Tried(m) == {id \in DOMAIN m.mapInfo : m.mapInfo[id].fInTried}
Held(m, id) == {u \in DOMAIN m.vvNew : m.vvNew[u] = id}

(* What Check_ looks for, after every call: counters, maps, vRandom and the   *)
(* two tables tell the same story, and every entry lies where its hash says.  *)
TablesAgree ==
  LET m == addrman
      ids == DOMAIN m.mapInfo
  IN /\ Len(m.vRandom) = Cardinality(ids)
     /\ m.nTried = Cardinality(Tried(m)) /\ m.nNew = Cardinality(ids \ Tried(m))
     /\ DOMAIN m.mapAddr = {Host[m.mapInfo[id].service] : id \in ids}
     /\ \A id \in ids :
          LET info == m.mapInfo[id]
          IN /\ m.mapAddr[Host[info.service]] = id
             /\ info.nRandomPos \in DOMAIN m.vRandom /\ m.vRandom[info.nRandomPos] = id
             /\ info.nRefCount = Cardinality(Held(m, id))
             /\ \A u \in Held(m, id) : u = Slot(info.service, u[1])
             /\ IF info.fInTried
                  THEN info.nLastSuccess /\ info.nRefCount = 0 /\ m.vvTried[TriedSlot[info.service]] = id
                  ELSE info.nRefCount \in 1 .. MaxRefs
     /\ \A k \in TriedSlots : m.vvTried[k] \in Tried(m) \cup {Empty}
     /\ \A u \in DOMAIN m.vvNew : m.vvNew[u] \in (ids \ Tried(m)) \cup {Empty}

\* What is known of each address, whatever its id and its place in vRandom
Known(m) ==
  {[service |-> m.mapInfo[id].service, source |-> m.mapInfo[id].source,
    nLastSuccess |-> m.mapInfo[id].nLastSuccess, tried |-> m.mapInfo[id].fInTried,
    slots |-> Held(m, id)] : id \in DOMAIN m.mapInfo}

(* Reading peers.dat gives back what Serialize wrote: every address, in its   *)
(* table and in all its slots.                                                *)
DumpIsComplete == Known(Unserialize(Serialize(addrman), TRUE)) = Known(addrman)

(* A tried address is forgotten only with the memory of the node: another one *)
(* that takes its slot sends it back to the table "new" (MakeTried).          *)
TriedKeptStep ==
  calls'.restart = calls.restart =>
    \A id \in Tried(addrman) :
      /\ id \in DOMAIN addrman'.mapInfo
      /\ addrman'.mapInfo[id].service = addrman.mapInfo[id].service
=============================================================================
