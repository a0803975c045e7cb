---------------------------- MODULE LedgerProofs ----------------------------
(***************************************************************************)
(* The fund implements FundLedger: every step of CommunityFund adds a page *)
(* to the ledger, tears off the last one, or leaves the ledger as it is.   *)
(***************************************************************************)
EXTENDS FundProofs, LifeProofs, FundRefinement

-----------------------------------------------------------------------------
\* The pages.

\* The page of a connected block, by the histories alone.
FlagOn(x, h) == IF ExistsAt(x, h) THEN FlagAt(x, h) ELSE "ABSENT"

PageAt(h) == [flag      |-> [x \in Objects |-> FlagOn(x, h)],
              given     |-> chain[h].given,
              nCFSupply |-> chain[h].nCFSupply,
              nCFLocked |-> chain[h].nCFLocked]

\* The states the code sees are those the histories tell.
LEMMA PagesAre ==
  ASSUME HistoryInv
  PROVE  /\ Pages = [h \in 1..Connected |-> PageAt(h)] /\ Connected \in Nat
         /\ \A x \in Objects : FlagOn(x, tip) = Now(x)
<1>1. tip \in Nat /\ tip >= 1
  BY TipType DEF HistoryInv
<1>2. FlagsAt(tip) = [x \in Objects |-> State(x)]
  BY <1>1, FlagsNow
<1>3. ASSUME NEW x \in Objects PROVE FlagAt(x, tip) = State(x)
  BY <1>2 DEF FlagsAt
<1>4. ASSUME NEW x \in Objects, NEW h PROVE PageFlag(x, h) = FlagOn(x, h)
  <2>1. CASE h = tip
    BY <1>3, <2>1 DEF PageFlag, FlagOn
  <2>2. CASE h # tip
    BY <2>2 DEF PageFlag, FlagOn
  <2>. QED  BY <2>1, <2>2
<1>5. ASSUME NEW h PROVE Page(h) = PageAt(h)
  BY <1>4 DEF Page, PageAt
<1>6. \A x \in Objects : FlagOn(x, tip) = Now(x)
  BY <1>3, ExistsAtTip DEF FlagOn, Now
<1>7. Connected \in Nat
  BY <1>1 DEF Connected
<1>. QED  BY <1>5, <1>6, <1>7 DEF Pages

\* The same in every state that satisfies HistoryInv.
LEMMA PagesSay == HistoryInv => Pages = [h \in 1..Connected |-> PageAt(h)]
BY PagesAre

\* A page stays as long as its block, the flags and the objects below it stay.
LEMMA PageKept ==
  ASSUME NEW h, chain'[h] = chain[h], FlagsAt(h)' = FlagsAt(h),
         \A x \in Objects : ExistsAt(x, h)' <=> ExistsAt(x, h)
  PROVE  PageAt(h)' = PageAt(h)
<1>1. ASSUME NEW x \in Objects PROVE FlagAt(x, h)' = FlagAt(x, h)
  BY DEF FlagsAt
<1>2. ASSUME NEW x \in Objects PROVE FlagOn(x, h)' = FlagOn(x, h)
  BY <1>1 DEF FlagOn
<1>. QED  BY <1>2 DEF PageAt

\* A step inside a block changes no page.
LEMMA PagesSame ==
  ASSUME HistoryInv, HistoryInv', NEW n \in Nat, Connected = n, Connected' = n,
         \A h \in 1..n : PageAt(h)' = PageAt(h)
  PROVE  Pages' = Pages
<1>1. Pages = [h \in 1..n |-> PageAt(h)]
  BY PagesAre
<1>2. (Pages = [h \in 1..Connected |-> PageAt(h)])'
  BY PagesSay, PTL
<1>. QED  BY <1>1, <1>2

\* The empty fund has one page.
LEMMA LedgerStarts == Init => Ledger!Init
<1>. SUFFICES ASSUME Init PROVE Ledger!Init
  OBVIOUS
<1>1. /\ tip = 1 /\ Connected = 1 /\ chain[1].given = 0
      /\ chain[1].nCFSupply = 0 /\ chain[1].nCFLocked = 0
  BY DEF Init, tip, Connected
<1>2. \A x \in Objects : ~Exists(x)
  BY DEF Init, Exists
<1>. DEFINE first == [flag |-> [x \in Objects |-> "ABSENT"], given |-> 0,
                      nCFSupply |-> 0, nCFLocked |-> 0]
<1>3. Page(1) = first
  BY <1>1, <1>2 DEF Page, PageFlag, ExistsAt
<1>4. Pages = <<first>>
  <2>. HIDE DEF first
  <2>1. Pages = [h \in 1..1 |-> first]
    BY <1>1, <1>3 DEF Pages
  <2>. QED  BY <2>1
<1>. QED  BY <1>4 DEF Ledger!Init, Ledger!Objects, Ledger!ABSENT, Objects

\* A step of a block under way touches nothing below the tip.
LEMMA BlockStutters ==
  ASSUME HistoryInv, HistoryInv', pc # "idle", pc' # "idle", tip' = tip,
         \A h \in 1..tip : h # tip => chain'[h] = chain[h],
         \/ UNCHANGED mapState
         \/ \E x \in Objects : \E flag \in FlagsOf(x) : GiveState(x, flag),
         \A x \in Objects : txblock'[x] = txblock[x] \/ (~Exists(x) /\ txblock'[x] = TipBlock)
  PROVE  Pages' = Pages
<1>1. tip \in Nat /\ tip >= 1
  BY TipType DEF HistoryInv
<1>2. ASSUME NEW h \in 1..(tip - 1) PROVE PageAt(h)' = PageAt(h)
  <2>1. chain'[h] = chain[h]
    BY <1>1
  <2>. QED  BY <2>1, BelowTip, PageKept
<1>3. tip - 1 \in Nat /\ Connected = tip - 1 /\ Connected' = tip - 1
  BY <1>1 DEF Connected
<1>4. ASSUME NEW n \in Nat, n = tip - 1 PROVE Pages' = Pages
  BY <1>2, <1>3, <1>4, PagesSame
<1>. QED  BY <1>3, <1>4

\* A block that starts to connect adds no page yet.
LEMMA ConnectStutters ==
  ASSUME HistoryInv, HistoryInv', NEW fork \in Forks, NEW step \in TimeSteps,
         NEW contribution \in Contributions, ConnectBlock(fork, step, contribution)
  PROVE  Pages' = Pages
<1>1. pc = "idle" /\ pc' = "txs" /\ UNCHANGED <<mapState, txblock>>
  BY DEF ConnectBlock
<1>2. tip \in Nat /\ tip' = tip + 1 /\ \A h \in 1..tip : chain'[h] = chain[h]
  <2>1. chain \in Seq(BlockIndex) /\ \E b : chain' = Append(chain, b)
    BY DEF ConnectBlock, HistoryInv, TypeOK
  <2>. QED  BY <2>1, TipType DEF HistoryInv, tip
<1>3. ASSUME NEW h \in 1..tip PROVE PageAt(h)' = PageAt(h)
  <2>1. FlagsAt(h)' = FlagsAt(h)
    BY <1>1 DEF FlagsAt, FlagAt
  <2>2. \A x \in Objects : ExistsAt(x, h)' <=> ExistsAt(x, h)
    BY <1>1 DEF ExistsAt, Exists
  <2>. QED  BY <1>2, <2>1, <2>2, PageKept
<1>4. Connected = tip /\ Connected' = tip
  BY <1>1, <1>2 DEF Connected
<1>5. ASSUME NEW n \in Nat, n = tip PROVE Pages' = Pages
  BY <1>3, <1>4, <1>5, PagesSame
<1>. QED  BY <1>2, <1>5

\* Totals, and the sets they are of, are the same in both specifications.
LEMMA TotalIs ==
  ASSUME NEW S, NEW f
  PROVE  Ledger!Total(S, f) = Total(S, f)
<1>1. ASSUME NEW a PROVE Ledger!Coins(S, a) = Coins(S, a)
  BY DEF Ledger!Coins, Coins
<1>. QED  BY <1>1 DEF Ledger!Total, Total, Ledger!Coins, Coins, Ledger!Cardinality, Cardinality

\* The page of a complete block balances.
LEMMA PageBalances ==
  ASSUME SolventInv
  PROVE  Ledger!Balanced(PageAt(tip))
<1>1. HistoryInv /\ TypeOK /\ LockedIsCommitted /\ FundConserved /\ FundSolvent
  BY BooksSay, SolventSays DEF SolventInv, BooksInv, FavouredInv, HistoryInv
<1>2. tip \in 1..tip /\ chain[tip] \in BlockIndex
  BY <1>1, TipType
<1>. DEFINE flag == [x \in Objects |-> FlagOn(x, tip)]
            drawn == Total(DrawnAt(tip), Amount)
<1>3. ASSUME NEW x \in Objects
      PROVE  \A f \in Flags : flag[x] = f <=> FlagAt(x, tip) = f
  <2>1. flag[x] = FlagOn(x, tip)
    OBVIOUS
  <2>2. FlagOn(x, tip) = Now(x)
    BY <1>1, PagesAre
  <2>3. FlagAt(x, tip) = State(x)
    <3>1. FlagsAt(tip) = [y \in Objects |-> State(y)]
      BY <1>1, FlagsNow, TipType
    <3>. QED  BY <3>1 DEF FlagsAt
  <2>4. Exists(x) \/ State(x) = NIL
    BY <1>1, StateGiven
  <2>5. "ABSENT" \notin Flags /\ NIL \notin Flags
    BY DEF Flags, ProposalFlags, RequestFlags, NIL, ACCEPTED, REJECTED, EXPIRED, PENDING_FUNDS,
           PENDING_VOTING_PREQ, PAID, ACCEPTED_EXPIRED
  <2>. HIDE DEF flag
  <2>. QED  BY <2>1, <2>2, <2>3, <2>4, <2>5 DEF Now
<1>4. {ACCEPTED, PENDING_VOTING_PREQ, PAID} \subseteq Flags
  BY DEF Flags, ProposalFlags, RequestFlags
<1>. HIDE DEF flag
<1>5. Ledger!Committed(flag) = CommittedAt(tip)
  BY <1>3, <1>4, ProposalObjects DEF Ledger!Committed, CommittedAt, Ledger!ACCEPTED, ACCEPTED,
     Ledger!PENDING_VOTING_PREQ, PENDING_VOTING_PREQ
<1>6. Ledger!Drawn(flag) = DrawnAt(tip)
  BY <1>3, <1>4, RequestObjects DEF Ledger!Drawn, DrawnAt, Ledger!ACCEPTED, ACCEPTED,
     Ledger!PAID, PAID
<1>7. /\ PageAt(tip).flag = flag /\ PageAt(tip).given = chain[tip].given
      /\ PageAt(tip).nCFSupply = chain[tip].nCFSupply
      /\ PageAt(tip).nCFLocked = chain[tip].nCFLocked
  BY DEF PageAt, flag
<1>8. chain[tip].nCFLocked = Total(CommittedAt(tip), Amount)
        - Total({r \in DrawnAt(tip) : Parent[r] \in CommittedAt(tip)}, Amount)
  BY <1>1, <1>2 DEF LockedIsCommitted
<1>9. chain[tip].nCFSupply + chain[tip].nCFLocked + drawn = chain[tip].given
  BY <1>1, <1>2 DEF FundConserved
<1>10. drawn \in Nat
  <2>1. IsFiniteSet(DrawnAt(tip))
    BY RequestsFinite DEF DrawnAt
  <2>. QED  BY <2>1, TotalType
<1>. HIDE DEF drawn
<1>11. chain[tip].nCFSupply = chain[tip].given - chain[tip].nCFLocked - drawn
  BY <1>2, <1>9, <1>10 DEF BlockIndex
<1>12. chain[tip].nCFSupply >= 0 /\ chain[tip].nCFLocked >= 0
  BY <1>1, <1>2 DEF FundSolvent
<1>. QED  BY <1>5, <1>6, <1>7, <1>8, <1>11, <1>12, TotalIs DEF Ledger!Balanced, drawn

\* So are the lives of proposals and requests.
LEMMA LivesAre ==
  /\ Ledger!ProposalNext = ProposalNext
  /\ Ledger!RequestNext = RequestNext
  /\ \A next, f, g : Follows(next, f, g) => Ledger!Follows(next, f, g)
<1>1. Ledger!ProposalNext = ProposalNext
  BY DEF Ledger!ProposalNext, Ledger!ProposalFlags, Ledger!ABSENT, Ledger!NIL, Ledger!ACCEPTED,
         Ledger!REJECTED, Ledger!EXPIRED, Ledger!PENDING_FUNDS, Ledger!PENDING_VOTING_PREQ,
         Ledger!ACCEPTED_EXPIRED, ProposalNext, ProposalFlags, ABSENT, NIL, ACCEPTED, REJECTED,
         EXPIRED, PENDING_FUNDS, PENDING_VOTING_PREQ, ACCEPTED_EXPIRED
<1>2. Ledger!RequestNext = RequestNext
  BY DEF Ledger!RequestNext, Ledger!RequestFlags, Ledger!ABSENT, Ledger!NIL, Ledger!ACCEPTED,
         Ledger!REJECTED, Ledger!EXPIRED, Ledger!PAID, RequestNext, RequestFlags, ABSENT, NIL,
         ACCEPTED, REJECTED, EXPIRED, PAID
<1>3. \A next, f, g : Follows(next, f, g) => Ledger!Follows(next, f, g)
  BY DEF Ledger!Follows, Ledger!ABSENT, Ledger!NIL, Follows, ABSENT, NIL
<1>. QED  BY <1>1, <1>2, <1>3

\* What the ledger needs of a state.
LedgerInv == SolventInv /\ LifeSteps

\* A block that is connected adds its page.
LEMMA DoneAddsPage ==
  ASSUME LedgerInv, HistoryInv', ConnectTipDone
  PROVE  Ledger!AddPage
<1>1. SolventInv /\ HistoryInv /\ TypeOK /\ LifeInv /\ GivenGrows /\ LoopInv
  BY DEF LedgerInv, LifeSteps, FavouredInv, HistoryInv
<1>2. pc = "proposals" /\ todo = {} /\ pc' = "idle" /\ UNCHANGED <<chain, txblock, mapState>>
  BY DEF ConnectTipDone
<1>3. tip \in Nat /\ tip > 1 /\ tip' = tip
  BY <1>1, <1>2, TipType DEF LoopInv, tip
<1>4. Connected = tip - 1 /\ Connected' = tip
  BY <1>2, <1>3 DEF Connected
<1>5. ASSUME NEW h PROVE PageAt(h)' = PageAt(h)
  BY <1>2 DEF PageAt, FlagOn, FlagAt, ExistsAt, Exists
<1>6. Pages = [h \in 1..(tip - 1) |-> PageAt(h)]
  BY <1>1, <1>4, PagesAre
<1>7. Pages' = [h \in 1..tip |-> PageAt(h)]
  <2>1. (Pages = [h \in 1..Connected |-> PageAt(h)])'
    BY PagesSay, PTL
  <2>. QED  BY <1>4, <1>5, <2>1
<1>8. /\ Len(Pages) = tip - 1 /\ Len(Pages') = tip
      /\ Pages[tip - 1] = PageAt(tip - 1) /\ Pages'[tip] = PageAt(tip)
      /\ Pages = SubSeq(Pages', 1, tip - 1)
  <2>. DEFINE P(h) == PageAt(h)
  <2>. HIDE DEF P
  <2>1. Pages = [h \in 1..(tip - 1) |-> P(h)] /\ Pages' = [h \in 1..tip |-> P(h)]
    BY <1>6, <1>7 DEF P
  <2>2. /\ Len(Pages) = tip - 1 /\ Len(Pages') = tip
        /\ Pages[tip - 1] = P(tip - 1) /\ Pages'[tip] = P(tip)
    BY <1>3, <2>1
  <2>3. SubSeq(Pages', 1, tip - 1) = [h \in 1..(tip - 1) |-> P(h)]
    BY <1>3, <2>1
  <2>. QED  BY <2>1, <2>2, <2>3 DEF P
<1>9. Ledger!last = PageAt(tip - 1) /\ Ledger!last' = PageAt(tip)
  BY <1>8 DEF Ledger!last
<1>10. Ledger!Balanced(PageAt(tip))
  BY <1>1, PageBalances
<1>11. PageAt(tip).given >= PageAt(tip - 1).given
  <2>1. tip - 1 \in 1..(tip - 1) /\ (tip - 1) + 1 = tip
    BY <1>3
  <2>2. chain[tip - 1].given <= chain[tip].given
    BY <1>1, <2>1 DEF GivenGrows
  <2>3. chain[tip - 1].given \in Nat /\ chain[tip].given \in Nat
    <3>1. chain \in Seq(BlockIndex) /\ tip - 1 \in 1..Len(chain) /\ tip \in 1..Len(chain)
      BY <1>1, <1>3 DEF TypeOK, tip
    <3>2. chain[tip - 1] \in BlockIndex /\ chain[tip] \in BlockIndex
      BY <3>1
    <3>. QED  BY <3>2 DEF BlockIndex
  <2>. QED  BY <2>2, <2>3 DEF PageAt
<1>12. Ledger!LifeGoesOn(PageAt(tip - 1).flag, PageAt(tip).flag)
  <2>1. ASSUME NEW x \in Objects
        PROVE  /\ PageAt(tip - 1).flag[x] = Before(x)
               /\ PageAt(tip).flag[x] = Now(x)
               /\ Follows(NextOf(x), Before(x), Now(x))
    <3>1. FlagOn(x, tip) = Now(x)
      BY <1>1, PagesAre
    <3>2. Follows(NextOf(x), Before(x), Now(x))
      BY <1>1, <1>2 DEF LifeInv
    <3>. QED  BY <3>1, <3>2 DEF PageAt, FlagOn, Before
  <2>2. ASSUME NEW p \in Proposals
        PROVE  Ledger!Follows(Ledger!ProposalNext, PageAt(tip - 1).flag[p], PageAt(tip).flag[p])
    <3>1. p \in Objects /\ NextOf(p) = ProposalNext
      BY ProposalObjects DEF NextOf
    <3>. QED  BY <2>1, <3>1, LivesAre
  <2>3. ASSUME NEW r \in Requests
        PROVE  Ledger!Follows(Ledger!RequestNext, PageAt(tip - 1).flag[r], PageAt(tip).flag[r])
    <3>1. r \in Objects /\ NextOf(r) = RequestNext
      BY RequestObjects DEF NextOf
    <3>. QED  BY <2>1, <3>1, LivesAre
  <2>. QED  BY <2>2, <2>3 DEF Ledger!LifeGoesOn
<1>13. Len(Pages') = Len(Pages) + 1
  BY <1>3, <1>8
<1>14. Ledger!Balanced(Ledger!last)'
  BY <1>9, <1>10 DEF Ledger!Balanced, Ledger!Committed, Ledger!Drawn, Ledger!Total, Ledger!Coins
<1>. QED  BY <1>8, <1>9, <1>11, <1>12, <1>13, <1>14 DEF Ledger!AddPage

\* A block that is disconnected takes its page and leaves the others as they were.
LEMMA DisconnectTearsPage ==
  ASSUME HistoryInv, HistoryInv', DisconnectTip
  PROVE  Ledger!TearPage
<1>1. TypeOK /\ pc = "idle" /\ pc' = "idle"
  BY DEF HistoryInv, DisconnectTip
<1>2. /\ tip \in Nat /\ tip > 1 /\ tip' = tip - 1
      /\ \A h \in 1..(tip - 1) : chain'[h] = chain[h]
  BY <1>1, ShorterChain
<1>3. Connected = tip /\ Connected' = tip - 1
  BY <1>1, <1>2 DEF Connected
<1>4. ASSUME NEW h \in 1..(tip - 1) PROVE PageAt(h)' = PageAt(h)
  BY <1>2, BelowUndone, PageKept
<1>5. Pages = [h \in 1..tip |-> PageAt(h)]
  BY <1>3, PagesAre
<1>6. Pages' = [h \in 1..(tip - 1) |-> PageAt(h)]
  <2>1. (Pages = [h \in 1..Connected |-> PageAt(h)])'
    BY PagesSay, PTL
  <2>. QED  BY <1>3, <1>4, <2>1
<1>7. Len(Pages) = tip /\ Pages' = SubSeq(Pages, 1, tip - 1)
  <2>. DEFINE P(h) == PageAt(h)
  <2>. HIDE DEF P
  <2>1. Pages = [h \in 1..tip |-> P(h)] /\ Pages' = [h \in 1..(tip - 1) |-> P(h)]
    BY <1>5, <1>6 DEF P
  <2>2. Len(Pages) = tip /\ SubSeq(Pages, 1, tip - 1) = [h \in 1..(tip - 1) |-> P(h)]
    BY <1>2, <2>1
  <2>. QED  BY <2>1, <2>2
<1>. QED  BY <1>2, <1>7 DEF Ledger!TearPage

\* Every step of the fund is a step of the ledger or leaves it as it is.
LEMMA LedgerSteps == LedgerInv /\ [Next]_vars => LedgerStep
<1>. SUFFICES ASSUME LedgerInv, [Next]_vars PROVE Ledger!Next \/ Pages' = Pages
  BY DEF LedgerStep
<1>0. HistoryInv /\ TypeOK /\ LoopInv /\ HistoryInv'
  BY HistoryStep DEF LedgerInv, LifeSteps, FavouredInv, HistoryInv
<1>1. ASSUME NEW fork \in Forks, NEW step \in TimeSteps, NEW contribution \in Contributions,
             ConnectBlock(fork, step, contribution)
      PROVE  Pages' = Pages
  BY <1>0, <1>1, ConnectStutters
<1>2. ASSUME UNCHANGED <<chain, mapState>>, pc # "idle", pc' # "idle",
             \A x \in Objects : txblock'[x] = txblock[x] \/ (~Exists(x) /\ txblock'[x] = TipBlock)
      PROVE  Pages' = Pages
  BY <1>0, <1>2, BlockStutters DEF tip
<1>3. ASSUME NEW p \in Proposals, AddProposal(p) PROVE Pages' = Pages
  <2>1. \A x \in Objects : txblock'[x] = txblock[x] \/ (~Exists(x) /\ txblock'[x] = TipBlock)
    BY <1>0, <1>3, ProposalObjects DEF AddProposal, TypeOK
  <2>. QED  BY <1>2, <1>3, <2>1 DEF AddProposal
<1>4. ASSUME NEW r \in Requests, AddPaymentRequest(r) PROVE Pages' = Pages
  <2>1. \A x \in Objects : txblock'[x] = txblock[x] \/ (~Exists(x) /\ txblock'[x] = TipBlock)
    BY <1>0, <1>4, RequestObjects DEF AddPaymentRequest, TypeOK
  <2>. QED  BY <1>2, <1>4, <2>1 DEF AddPaymentRequest
<1>5. ASSUME NEW r \in Requests, PayRequest(r) PROVE Pages' = Pages
  <2>1. r \in Objects /\ PAID \in FlagsOf(r) /\ GiveState(r, PAID)
    BY <1>5, RequestObjects DEF PayRequest, GiveState, RequestFlags
  <2>2. pc # "idle" /\ pc' # "idle" /\ tip' = tip /\ UNCHANGED <<chain, txblock>>
    BY <1>5 DEF PayRequest, tip
  <2>. QED  BY <1>0, <2>1, <2>2, BlockStutters
<1>6. ASSUME NEW exclude \in Excludes, NEW tally \in [Counted -> Tallies],
             CountVotes(exclude, tally)
      PROVE  Pages' = Pages
  BY <1>2, <1>6 DEF CountVotes
<1>7. ASSUME NEW r \in Requests, UpdateRequest(r) PROVE Pages' = Pages
  <2>1. pc # "idle" /\ pc' # "idle" /\ UNCHANGED txblock /\ r \in Objects
    BY <1>7, RequestObjects DEF UpdateRequest
  <2>2. tip' = tip /\ \A h \in 1..tip : h # tip => chain'[h] = chain[h]
    BY <1>0, <1>7, RequestVisit, ChainKept DEF tip
  <2>. QED  BY <1>0, <1>7, <2>1, <2>2, RequestVisit, BlockStutters
<1>8. ASSUME RequestsDone PROVE Pages' = Pages
  BY <1>2, <1>8 DEF RequestsDone
<1>9. ASSUME NEW p \in Proposals, UpdateProposal(p) PROVE Pages' = Pages
  <2>1. pc # "idle" /\ pc' # "idle" /\ UNCHANGED txblock /\ p \in Objects
    BY <1>9, ProposalObjects DEF UpdateProposal
  <2>2. tip' = tip /\ \A h \in 1..tip : h # tip => chain'[h] = chain[h]
    BY <1>0, <1>9, ProposalVisit, ChainKept DEF tip
  <2>. QED  BY <1>0, <1>9, <2>1, <2>2, ProposalVisit, BlockStutters
<1>10. ASSUME ConnectTipDone PROVE Ledger!Next
  BY <1>0, <1>10, DoneAddsPage DEF Ledger!Next
<1>11. ASSUME DisconnectTip PROVE Ledger!Next
  BY <1>0, <1>11, DisconnectTearsPage DEF Ledger!Next
<1>12. ASSUME UNCHANGED vars PROVE Pages' = Pages
  BY <1>12 DEF vars, Pages, Page, PageFlag, Connected, FlagAt, ExistsAt, Exists, State, tip
<1>. QED  BY <1>1, <1>3, <1>4, <1>5, <1>6, <1>7, <1>8, <1>9, <1>10, <1>11, <1>12 DEF Next

\* The fund implements its ledger (ConnectTip, VoteStep and DisconnectTip): every
\* connected block adds one page, on which the states follow the life of proposals
\* and requests and the balances follow from the states, and a disconnected block
\* takes exactly its page.
THEOREM LedgerCorrect == Spec => LedgerSpec
<1>. QED  BY LifeInit, LifeStep, SolventInit, SolventStep, LedgerStarts, LedgerSteps, PTL
            DEF Spec, LedgerInv, LedgerSpec, LedgerStep, Ledger!Spec
=============================================================================
