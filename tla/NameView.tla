------------------------------ MODULE NameView ------------------------------
(***************************************************************************)
(* One name of the .nav naming system.  Blocks carry programs: a blinded   *)
(* registration (REGISTER_NAME), the first update that reveals the name    *)
(* (UPDATE_NAME_FIRST), updates by the owner and renewals by anyone.  The  *)
(* state view keeps a record per registration and, for the name, the list  *)
(* of everything ever written with the height of its block; what the name  *)
(* resolves to is consolidated from that list at each use.                 *)
(*                                                                         *)
(* The list lives in the view of a block, in pcoinsTip and, one record per *)
(* (height, key), on disk; a disconnected block leaves null entries in the *)
(* caches in place of its data.  Fees, signatures and the syntax of names  *)
(* and keys are inputs the caller can always meet and are left out.        *)
(***************************************************************************)
EXTENDS Naturals, Sequences, FiniteSets, SequencesExt

CONSTANTS
  Absent,       \* no block, no cached list
  Owners,       \* public keys
  Registrants,  \* those who also register the name
  Fields,       \* keys an owner writes, besides "_key"
  Values,       \* values other than the empty one
  Data,         \* the <<key, value>> pairs programs may write
  Subdomains,   \* "" is the name itself
  RevealDelay,  \* blocks between registration and first update (6)
  NameLength,   \* CONSENSUS_PARAMS_DOTNAV_LENGTH
  MaxHeight, MaxPrograms, MaxFlushes  \* bounds: blocks, programs per block,
                                      \* writes to disk

ConstantsAssumption ==
  /\ "" \in Subdomains
  /\ Registrants \subseteq Owners
  /\ Fields \cap {"", "_key", "_expiry"} = {}
  /\ "" \notin Values
  /\ Data \subseteq (Fields \X (Values \cup {""})) \cup ({"_key"} \X Owners)

VARIABLES
  chain,      \* the programs of each block of the active chain
  block,      \* the programs of the block being connected, or NoBlock
  dbRecords, tipRecords, viewRecords,  \* records: height of each registration
  dbData,     \* the records (height, key) on disk
  tipData, viewData,  \* cacheNameData of the name: a list, or NoList
  flushes

vars == <<chain, block, dbRecords, tipRecords, viewRecords, dbData, tipData,
          viewData, flushes>>
records == <<dbRecords, tipRecords, viewRecords>>

NoBlock == Absent
NoList == Absent
NoRecord == 0
Datum(h, k, v, s) == [height |-> h, key |-> k, value |-> v, sub |-> s]
NullDatum(h) == Datum(h, "", "", "")
IsNull(d) == d.key = "" /\ d.value = "" /\ d.sub = ""

Rank == [k \in Fields \cup {"_key", "_expiry"} |->
           IF k = "_key" THEN 1 ELSE IF k = "_expiry" THEN 2 ELSE 3]

\* CStateViewDB::GetNameData: the records of the name in the order of their keys
ReadDisk ==
  SetToSortSeq(dbData, LAMBDA a, b : \/ a.height < b.height
                                     \/ a.height = b.height /\ Rank[a.key] < Rank[b.key])

\* GetNameData on the tip and on a view: a cached list, unless it is empty
IsCached(list) == list # NoList /\ list # <<>>
TipList == IF IsCached(tipData) THEN tipData ELSE ReadDisk
ViewList == IF IsCached(viewData) THEN viewData ELSE TipList

\* FetchNameData: what is found below enters the cache
Fetched(cached, list) == IF list = <<>> THEN cached ELSE list

\* DotNav::Consolidate: the last expiry counts, wherever it is in the list,
\* and the last value of each key; an empty value removes the key.
Infinity == 1000
Expiry(data) ==
  LET at == {i \in DOMAIN data : data[i].key = "_expiry"}
  IN IF at = {} THEN Infinity ELSE data[Max(at)].value

Consolidate(data, height, sub) ==
  LET Matches(d) == d.height <= height /\ (d.sub = sub \/ d.key \in {"_key", "_expiry"})
      Latest(k) == {i \in DOMAIN data : data[i].key = k /\ Matches(data[i])}
      keys == {data[i].key : i \in DOMAIN data}
      set == {k \in keys : Latest(k) # {} /\ (k = "_expiry" \/ data[Max(Latest(k))].value # "")}
  IN [k \in IF Expiry(data) > height THEN set ELSE {} |-> data[Max(Latest(k))].value]

\* AddNameData: null entries of the same block are dropped
AddNameData(cached, d) ==
  IF cached = NoList THEN <<d>>
  ELSE Append(SelectSeq(cached, LAMBDA o : ~(o.height = d.height /\ IsNull(o))), d)

AddAll(cached, ds) == FoldLeft(AddNameData, cached, ds)

\* Mutant: only the latest entry becomes null.
RemoveNameData_Latest(cached, h) ==
  [i \in DOMAIN cached |-> IF i = Len(cached) THEN NullDatum(h) ELSE cached[i]]

\* RemoveNameData: the entries of a block become null
RemoveNameData(cached, h) ==
  [i \in DOMAIN cached |-> IF cached[i].height = h THEN NullDatum(h) ELSE cached[i]]

\* What a program of a block of height h writes, in order
Written(p, h) ==
  CASE p.action = "register" -> <<>>
    [] p.action = "first" -> <<Datum(h, "_expiry", h + NameLength, ""),
                               Datum(h, "_key", p.owner, ""),
                               Datum(h, p.field, p.value, p.sub)>>
    [] p.action = "renew" -> <<Datum(h, "_expiry", h + NameLength, "")>>
    [] p.action = "update" -> <<Datum(h, p.field, p.value, p.sub)>>

Program(action, owner, d, sub) ==
  [action |-> action, owner |-> owner, field |-> d[1], value |-> d[2], sub |-> sub]
None == <<"", "">>
Programs ==
  {Program("register", o, None, "") : o \in Registrants}
  \cup {Program("renew", "", None, "")}
  \cup {Program("first", o, d, s) : o \in Registrants, d \in Data, s \in Subdomains}
  \cup {Program("update", o, d, s) : o \in Owners, d \in Data, s \in Subdomains}
-----------------------------------------------------------------------------
Init ==
  /\ chain = <<>>
  /\ block = NoBlock
  /\ dbRecords = [o \in Owners |-> NoRecord]
  /\ tipRecords = dbRecords /\ viewRecords = dbRecords
  /\ dbData = {}
  /\ tipData = NoList /\ viewData = NoList
  /\ flushes = 0

\* The view of ConnectTip.  Records have no flags and no order: a view of them
\* is a copy.
StartBlock ==
  /\ block = NoBlock
  /\ Len(chain) < MaxHeight
  /\ block' = <<>>
  /\ viewRecords' = tipRecords
  /\ viewData' = NoList
  /\ UNCHANGED <<chain, dbRecords, tipRecords, dbData, tipData, flushes>>

height == Len(chain) + 1
Current(sub) == Consolidate(ViewList, height, sub)
HasKey(m) == "_key" \in DOMAIN m

\* Mutant: anyone may update a name, and reveal it at once.
ValidProgram_AnyKey(p) ==
  CASE p.action = "register" -> viewRecords[p.owner] = NoRecord
    [] p.action = "first" -> viewRecords[p.owner] # NoRecord /\ ~HasKey(Current(""))
    [] p.action = "renew" -> HasKey(Current(""))
    [] p.action = "update" -> HasKey(Current(""))

\* The conditions of ConnectBlock for each program.  A registration is the hash
\* of the name and the key of its owner.
ValidProgram(p) ==
  CASE p.action = "register" -> viewRecords[p.owner] = NoRecord
    [] p.action = "first" ->
         /\ viewRecords[p.owner] # NoRecord
         /\ height - viewRecords[p.owner] >= RevealDelay
         /\ ~HasKey(Current(""))
    [] p.action = "renew" -> HasKey(Current(""))
    [] p.action = "update" -> HasKey(Current("")) /\ Current("")["_key"] = p.owner

\* One program of the block.  Reading the list brings it into both caches.
ConnectProgram(p) ==
  /\ block # NoBlock
  /\ Len(block) < MaxPrograms
  /\ ValidProgram(p)
  /\ IF p.action = "register"
       THEN /\ viewRecords' = [viewRecords EXCEPT ![p.owner] = height]
            /\ UNCHANGED <<tipData, viewData>>
       ELSE /\ tipData' = IF IsCached(viewData) THEN tipData
                                                ELSE Fetched(tipData, TipList)
            /\ viewData' = AddAll(Fetched(viewData, ViewList), Written(p, height))
            /\ UNCHANGED viewRecords
  /\ block' = Append(block, p)
  /\ UNCHANGED <<chain, dbRecords, tipRecords, dbData, flushes>>

\* view.Flush(): every cached list replaces that of the tip
EndBlock ==
  /\ block # NoBlock
  /\ chain' = Append(chain, block)
  /\ block' = NoBlock
  /\ tipRecords' = viewRecords
  /\ tipData' = IF viewData = NoList THEN tipData ELSE viewData
  /\ viewData' = NoList
  /\ UNCHANGED <<dbRecords, viewRecords, dbData, flushes>>

\* The block turns out to be invalid.
DropBlock ==
  /\ block # NoBlock
  /\ block' = NoBlock
  /\ viewRecords' = tipRecords
  /\ viewData' = NoList
  /\ UNCHANGED <<chain, dbRecords, tipRecords, dbData, tipData, flushes>>

\* DisconnectTip, with DisconnectBlock in a view of its own and its flush
DisconnectTip ==
  /\ block = NoBlock
  /\ chain # <<>>
  /\ LET h == Len(chain)
         registered == {o \in Owners : \E i \in DOMAIN chain[h] :
                          chain[h][i].action = "register" /\ chain[h][i].owner = o}
         touched == \E i \in DOMAIN chain[h] : chain[h][i].action # "register"
     IN /\ tipRecords' = [o \in Owners |-> IF o \in registered THEN NoRecord
                                                               ELSE tipRecords[o]]
        /\ tipData' = IF touched /\ TipList # <<>> THEN RemoveNameData(TipList, h)
                                                   ELSE tipData
        /\ chain' = SubSeq(chain, 1, h - 1)
  /\ UNCHANGED <<block, dbRecords, viewRecords, dbData, viewData, flushes>>

\* CStateViewDB::BatchWrite: a null entry erases the record (height, no key),
\* any other replaces the record (height, key).
OnDisk(h, k) == {d \in dbData : d.height = h /\ d.key = k}
LastWrites(list) ==
  {list[i] : i \in {j \in DOMAIN list :
     ~IsNull(list[j]) /\ \A l \in DOMAIN list :
       l > j => <<list[l].height, list[l].key>> # <<list[j].height, list[j].key>>}}
BatchWrite(list) ==
  LET erased == {d \in dbData : \E i \in DOMAIN list : IsNull(list[i])
                                  /\ d.height = list[i].height /\ d.key = list[i].key}
      written == LastWrites(list)
      replaced == UNION {OnDisk(d.height, d.key) : d \in written}
  IN (dbData \ (erased \cup replaced)) \cup written

\* pcoinsTip->Flush() in FlushStateToDisk
FlushStateToDisk ==
  /\ block = NoBlock
  /\ flushes < MaxFlushes
  /\ flushes' = flushes + 1
  /\ dbRecords' = tipRecords
  /\ dbData' = IF IsCached(tipData) THEN BatchWrite(tipData) ELSE dbData
  /\ tipData' = NoList
  /\ UNCHANGED <<chain, block, tipRecords, viewRecords, viewData>>

Next ==
  \/ StartBlock
  \/ \E p \in Programs : ConnectProgram(p)
  \/ EndBlock
  \/ DropBlock
  \/ DisconnectTip
  \/ FlushStateToDisk

Spec == Init /\ [][Next]_vars
-----------------------------------------------------------------------------
IsDatum(d) ==
  /\ d.height \in 1..MaxHeight
  /\ d.sub \in Subdomains
  /\ CASE d.key = "" -> IsNull(d)
       [] d.key = "_key" -> d.value \in Owners
       [] d.key = "_expiry" -> d.value = d.height + NameLength
       [] OTHER -> d.key \in Fields /\ d.value \in Values \cup {""}
IsList(list) == list = NoList \/ \A i \in DOMAIN list : IsDatum(list[i])

TypeOK ==
  /\ chain \in Seq(Seq(Programs))
  /\ block = NoBlock \/ block \in Seq(Programs)
  /\ \A r \in {dbRecords, tipRecords, viewRecords} : r \in [Owners -> 0..MaxHeight]
  /\ \A d \in dbData : IsDatum(d) /\ ~IsNull(d)
  /\ IsList(tipData) /\ IsList(viewData)
  /\ flushes \in 0..MaxFlushes

\* Everything the blocks of the chain wrote, in order
History == FlattenSeq([h \in DOMAIN chain |->
             FlattenSeq([i \in DOMAIN chain[h] |-> Written(chain[h][i], h)])])

(* What the name resolves to at the tip, in every subdomain, is what the   *)
(* blocks of the active chain wrote: programs of disconnected blocks leave *)
(* nothing behind (RemoveNameData), and the caches hide nothing.           *)
DataFollowsChain ==
  block = NoBlock =>
    \A s \in Subdomains : \A h \in {Len(chain), height} :
      Consolidate(TipList, h, s) = Consolidate(History, h, s)

(* Flush, "Push the modifications applied to this cache to its base", does *)
(* not change what the name resolves to.                                   *)
FlushIsInvisible ==
  FlushStateToDisk =>
    \A s \in Subdomains : Consolidate(TipList', height, s) = Consolidate(TipList, height, s)

\* The block in which the registration of o is on the chain, if any
RegisteredAt(o) ==
  {h \in DOMAIN chain : \E i \in DOMAIN chain[h] :
     chain[h][i].action = "register" /\ chain[h][i].owner = o}

(* A name is revealed only by an owner whose blinded registration is at    *)
(* least RevealDelay blocks deep in the same chain, although reorganised   *)
(* chains may have lost or moved the registration: nobody can take a name  *)
(* by registering it after seeing it revealed.                             *)
RevealedLate ==
  \A h \in DOMAIN chain : \A i \in DOMAIN chain[h] :
    chain[h][i].action = "first" =>
      \E g \in RegisteredAt(chain[h][i].owner) : h - g >= RevealDelay

(* While a name is active, a block changes its owner only if the owner     *)
(* before it signed an update in that block; expiry and reorganisations    *)
(* aside.                                                                  *)
OwnerConsents ==
  (EndBlock /\ HasKey(Consolidate(TipList, height, ""))) =>
    LET before == Consolidate(TipList, height, "")["_key"]
        after == Consolidate(TipList', height, "")
    IN (HasKey(after) /\ after["_key"] # before) =>
         \E i \in DOMAIN block : block[i].action = "update" /\ block[i].owner = before
=============================================================================
