------------------------------ MODULE MCViews ------------------------------
(***************************************************************************)
(* Small instances of the caches that follow the chain: coins, names and   *)
(* tokens of the state view, and the states of a deployment.  They do not  *)
(* depend on each other, so a behaviour is one of one instance, named by   *)
(* part; the coins of the other parts stay as they are when a node starts, *)
(* and the variables the part does not use are Absent.                     *)
(***************************************************************************)
EXTENDS CoinsView

CONSTANTS
  Absent, alice, bob  \* model values

\* Coins.  1: a coinbase with two outputs; 2: a coinstake that spends one of
\* them; 3: spends the other and the coinstake; 4: has no spendable output and
\* conflicts with 3; 5: spends both outputs of the coinbase at once; 6: spends
\* the last output of 3.
MCTxids == 1..6
MCInputs ==
  <<{}, {<<1, 0>>}, {<<1, 1>>, <<2, 0>>}, {<<1, 1>>}, {<<1, 0>>, <<1, 1>>}, {<<3, 0>>}>>
MCOutputs == <<{0, 1}, {0}, {0}, {}, {0}, {0}>>
MCCoinBase == {1}
MCCoinStake == {2}

VARIABLES
  part,
  chain, block, dbRecords, tipRecords, viewRecords, dbData, tipData, viewData, flushes,
  dbTokens, tipTokens, failed, tips, cache

onlyNames == <<block, dbRecords, tipRecords, viewRecords, dbData, tipData, viewData>>
onlyTokens == <<dbTokens, tipTokens, failed>>
bits == <<tips, cache>>
MCvars == <<part, vars, chain, flushes, onlyNames, onlyTokens, bits>>

\* A name: alice registers it, and an owner sets a value or gives it away.
Names == INSTANCE NameView WITH
  Owners <- {alice, bob}, Registrants <- {alice}, Fields <- {"a"}, Values <- {"1"},
  Data <- {<<"a", "1">>, <<"_key", bob>>}, Subdomains <- {""}, RevealDelay <- 2, NameLength <- 2,
  MaxHeight <- 5, MaxPrograms <- 1, MaxFlushes <- 1

\* A token, written to disk once.
Tokens == INSTANCE TokenView WITH
  db <- dbTokens, tip <- tipTokens,
  Kinds <- {"fungible", "nft"}, TotalSupply <- 2, Actions <- {"create", "mint", "burn", "stop"},
  BurnAfterStop <- FALSE, Settled <- 0, MaxOutputs <- 1, MaxHeight <- 6, MaxFlushes <- 1

\* ...whose creation is too deep to be disconnected, written twice
Deep == INSTANCE TokenView WITH
  db <- dbTokens, tip <- tipTokens,
  Kinds <- {"fungible", "nft"}, TotalSupply <- 2, Actions <- {"create", "mint", "burn", "stop"},
  BurnAfterStop <- FALSE, Settled <- 1, MaxOutputs <- 1, MaxHeight <- 5, MaxFlushes <- 2

\* ...that is burnt after its owner stopped it
Burnt == INSTANCE TokenView WITH
  db <- dbTokens, tip <- tipTokens,
  Kinds <- {"fungible", "nft"}, TotalSupply <- 2, Actions <- {"create", "mint", "burn", "stop"},
  BurnAfterStop <- TRUE, Settled <- 0, MaxOutputs <- 1, MaxHeight <- 5, MaxFlushes <- 0

\* A deployment, in a tree with two tips
Forks == INSTANCE VersionBits WITH
  Period <- 2, Threshold <- 2, StartTime <- 1, Timeout <- 2, MedianTimeSpan <- 1, NtpSync <- TRUE,
  SigHF <- TRUE, Required <- FALSE, Times <- {0, 1}, MaxLength <- 4, MaxTips <- 2

\* ...and in a longer chain, with the median of three times
Line == INSTANCE VersionBits WITH
  Period <- 2, Threshold <- 2, StartTime <- 1, Timeout <- 2, MedianTimeSpan <- 3, NtpSync <- TRUE,
  SigHF <- TRUE, Required <- TRUE, Times <- {0, 1, 2}, MaxLength <- 7, MaxTips <- 1

ASSUME Names!ConstantsAssumption
ASSUME Tokens!ConstantsAssumption /\ Deep!ConstantsAssumption
ASSUME Forks!ConstantsAssumption /\ Line!ConstantsAssumption

NoNames == /\ block = Absent /\ dbRecords = Absent /\ tipRecords = Absent /\ viewRecords = Absent
           /\ dbData = Absent /\ tipData = Absent /\ viewData = Absent
NoTokens == dbTokens = Absent /\ tipTokens = Absent /\ failed = Absent
NoChain == chain = Absent /\ flushes = Absent
NoBits == tips = Absent /\ cache = Absent

MCInit ==
  /\ Init
  /\ \/ part = "coins" /\ NoNames /\ NoTokens /\ NoChain /\ NoBits
     \/ part = "names" /\ Names!Init /\ NoTokens /\ NoBits
     \/ part = "tokens" /\ Tokens!Init /\ NoNames /\ NoBits
     \/ part = "deep" /\ Deep!Init /\ NoNames /\ NoBits
     \/ part = "forks" /\ Forks!Init /\ NoNames /\ NoTokens /\ NoChain
     \/ part = "line" /\ Line!Init /\ NoNames /\ NoTokens /\ NoChain

NoTable == UNCHANGED <<part, vars, chain, flushes, onlyNames, onlyTokens>>
CoinsNext == part = "coins" /\ Next /\ UNCHANGED <<part, chain, flushes, onlyNames, onlyTokens, bits>>
NamesNext == part = "names" /\ Names!Next /\ UNCHANGED <<part, vars, onlyTokens, bits>>
TokensNext == part = "tokens" /\ Tokens!Next /\ UNCHANGED <<part, vars, onlyNames, bits>>
DeepNext == part = "deep" /\ Deep!Next /\ UNCHANGED <<part, vars, onlyNames, bits>>
ForksNext == part = "forks" /\ Forks!Next /\ NoTable
LineNext == part = "line" /\ Line!Next /\ NoTable
MCNext == CoinsNext \/ NamesNext \/ TokensNext \/ DeepNext \/ ForksNext \/ LineNext
MCSpec == MCInit /\ [][MCNext]_MCvars

BurntInit == Init /\ part = "burnt" /\ Burnt!Init /\ NoNames /\ NoBits
BurntNext == part = "burnt" /\ Burnt!Next /\ UNCHANGED <<part, vars, onlyNames, bits>>
BurntSpec == BurntInit /\ [][BurntNext]_MCvars

-----------------------------------------------------------------------------
(* The tables and caches of names, tokens and deployments have their       *)
(* types; deployments are cached for blocks that end a period.             *)
TablesTypeOK ==
  /\ part = "names" => Names!TypeOK
  /\ part = "tokens" => Tokens!TypeOK
  /\ part = "deep" => Deep!TypeOK
  /\ part = "forks" => Forks!TypeOK

(* A name resolves to what the blocks of the active chain wrote.           *)
DataFollowsChain == part = "names" => Names!DataFollowsChain

(* A name is revealed by an owner who registered it long enough before.    *)
RevealedLate == part = "names" => Names!RevealedLate

(* No block changes the owner of an active name without the owner.         *)
OwnerConsents == [][part = "names" => Names!OwnerConsents]_MCvars

(* The token is what the active chain makes it (ConnectBlock and           *)
(* DisconnectBlock of token programs).                                     *)
TokenFollowsChain ==
  /\ part = "tokens" => Tokens!TokenFollowsChain
  /\ part = "deep" => Deep!TokenFollowsChain
  /\ part = "burnt" => Burnt!TokenFollowsChain

(* No more units circulate than the supply allows, and no id twice.        *)
SupplyIsBacked == part = "tokens" => Tokens!SupplyIsBacked

(* A connected block of token programs can be disconnected.                *)
DisconnectSucceeds == part = "tokens" => Tokens!DisconnectSucceeds

(* Writing a settled token to disk changes nothing but whether minting of  *)
(* a collection can be stopped.                                            *)
FlushIsInvisible == [][part = "deep" => Deep!FlushIsInvisible]_MCvars

(* What the cache shared by all branches answers is what the chain of the  *)
(* block alone decides.                                                    *)
CacheIsReference ==
  /\ part = "forks" => Forks!CacheIsReference
  /\ part = "line" => Line!CacheIsReference

(* A deployment is active only after a period with enough signals between  *)
(* its start and its timeout.                                              *)
ActivatedBySignals == part = "line" => Line!ActivatedBySignals

(* ACTIVE and FAILED are final while the median time does not go back.     *)
TerminalStates == part = "line" => Line!TerminalStates

-----------------------------------------------------------------------------
(* Names are what the active chain says, revealed no earlier than allowed, *)
(* and every table has its type.                                           *)
NamesFollowChain == TablesTypeOK /\ DataFollowsChain /\ RevealedLate

(* Tokens are what the active chain says, their units are backed, and a    *)
(* block of their programs can always be disconnected.                     *)
TokensFollowChain == TokenFollowsChain /\ SupplyIsBacked /\ DisconnectSucceeds

(* The state of a deployment depends on the chain below it alone, becomes  *)
(* ACTIVE by signals only, and is final once it is ACTIVE or FAILED.       *)
DeploymentsFollowChain == CacheIsReference /\ ActivatedBySignals /\ TerminalStates
=============================================================================
