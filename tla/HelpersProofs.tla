---------------------------- MODULE HelpersProofs ----------------------------
(***************************************************************************)
(* The safety properties of what is around listeners and writers, for all  *)
(* values of the constants.  The parts share no variable: each has an      *)
(* inductive invariant, and PartsInv is all of them.                       *)
(*                                                                         *)
(* Two of them need induction over data: the least free nonce of a pool,   *)
(* and the sum over the transfers under way.  It is done on sets of        *)
(* natural numbers, which have a least member (LeastNumber, Induction).    *)
(***************************************************************************)
EXTENDS Helpers, SequenceTheorems, FiniteSetTheorems, WellFoundedInduction, TLAPS

SC == INSTANCE SourceChainProofs

(* What a step does to the variables of a part is a step of that part, or  *)
(* nothing.                                                                *)

LEMMA PartsBegin ==
    ASSUME HelpersInit
    PROVE  Watch!Init /\ Init /\ Client!Init /\ Amount!Init /\ Key!Init /\ Start!Init
  BY DEF HelpersInit

LEMMA PartsStep ==
    ASSUME [HelpersNext]_allVars
    PROVE  /\ [Watch!Next]_(Watch!vars)
           /\ [Next]_vars
           /\ [Client!Next]_(Client!vars)
           /\ [Amount!Next]_(Amount!vars)
           /\ [Key!Next]_(Key!vars)
           /\ [Start!Next]_(Start!vars)
  <1>1. \/ [Watch!Next]_watchVars /\ UNCHANGED <<gasVars, clientVars, amountsVars, keysVars, startupVars>>
        \/ [Next]_gasVars /\ UNCHANGED <<watchVars, clientVars, amountsVars, keysVars, startupVars>>
        \/ [Client!Next]_clientVars /\ UNCHANGED <<watchVars, gasVars, amountsVars, keysVars, startupVars>>
        \/ [Amount!Next]_amountsVars /\ UNCHANGED <<watchVars, gasVars, clientVars, keysVars, startupVars>>
        \/ [Key!Next]_keysVars /\ UNCHANGED <<watchVars, gasVars, clientVars, amountsVars, startupVars>>
        \/ [Start!Next]_startupVars /\ UNCHANGED <<watchVars, gasVars, clientVars, amountsVars, keysVars>>
    BY DEF HelpersNext, WatchNext, GasNext, ClientNext, AmountNext, KeysNext, StartupNext, allVars
  <1>2. /\ UNCHANGED watchVars => UNCHANGED Watch!vars
        /\ UNCHANGED gasVars => UNCHANGED vars
        /\ UNCHANGED clientVars => UNCHANGED Client!vars
        /\ UNCHANGED amountsVars => UNCHANGED Amount!vars
        /\ UNCHANGED keysVars => UNCHANGED Key!vars
        /\ UNCHANGED startupVars => UNCHANGED Start!vars
    BY DEF watchVars, gasVars, clientVars, amountsVars, keysVars, startupVars, Watch!vars,
       Watch!chainVars, Watch!watchVars, Client!vars, Client!clientVars, Client!chainVars,
       Amount!vars, Key!vars, Key!store, Start!vars
  <1> QED BY <1>1, <1>2
-----------------------------------------------------------------------------
(* The gas price.  The opts are kept from one update to the next, and an   *)
(* update that fails leaves a part of them behind.  GasInv says why that   *)
(* does no harm: until a header of London was read the opts are those of a *)
(* legacy transaction, and afterwards no header without a base fee is read.*)

LegacyOpts ==
    /\ gasPrice \in MinGasPrice .. MaxGasPrice
    /\ gasTipCap = None
    /\ gasFeeCap = None

LondonOpts ==
    /\ gasPrice = None
    /\ gasTipCap \in Nat
    /\ gasFeeCap \in Nat
    /\ gasTipCap <= gasFeeCap
    /\ head > MaxGasPrice => gasFeeCap = MaxGasPrice + Gwei
    /\ head <= MaxGasPrice => gasFeeCap \in head .. MaxGasPrice

GasInv ==
    /\ TypeOK
    /\ baseFee = None => head = None
    /\ pc \in {"station", "node", "limit"} => head = None
    /\ pc = "limit" => suggested # None
    /\ pc = "london" => head # None
    /\ head = None => LegacyOpts
    /\ head # None /\ pc \in {"nonce", "ready"} => LondonOpts

LEMMA NoneIsNoPrice == None \notin Nat
  BY DEF None

\* The multiplier keeps a price a price.
LEMMA MultipliedType ==
    ASSUME GasAssumption, NEW price \in Nat
    PROVE  Multiplied(price) \in Nat
  <1>1. \A m \in Nat, d \in Nat \ {0} : m \div d \in Nat
    OBVIOUS
  <1>2. price * MultiplierNum \in Nat
    BY DEF GasAssumption
  <1> QED BY <1>1, <1>2 DEF Multiplied, GasAssumption

\* SafeEstimateGas: whatever the multiplier makes of it.
LEMMA LimitedBounds ==
    ASSUME GasAssumption, RangeAssumption, NEW price \in Nat
    PROVE  Limited(price) \in MinGasPrice .. MaxGasPrice
  BY MultipliedType DEF Limited, GasAssumption, RangeAssumption

\* EstimateGasLondon: the tip and the fee cap for any base fee and any tip the
\* node suggests.
LEMMA LondonBounds ==
    ASSUME GasAssumption, head \in Nat, NEW tip \in Nat
    PROVE  /\ London(tip).tip \in Nat
           /\ London(tip).cap \in Nat
           /\ London(tip).tip <= London(tip).cap
           /\ head > MaxGasPrice => London(tip).cap = MaxGasPrice + Gwei
           /\ head <= MaxGasPrice => London(tip).cap \in head .. MaxGasPrice
  <1>1. CASE MaxGasPrice < head
    BY <1>1 DEF London, LondonBeyondLimit, Gwei, GasAssumption
  <1>2. CASE ~(MaxGasPrice < head) /\ tip + 2 * head > MaxGasPrice
    BY <1>2 DEF London, LondonWithinLimit, GasAssumption
  <1>3. CASE ~(MaxGasPrice < head) /\ ~(tip + 2 * head > MaxGasPrice)
    BY <1>3 DEF London, LondonWithinLimit, GasAssumption
  <1> QED BY <1>1, <1>2, <1>3
-----------------------------------------------------------------------------
LEMMA GasInit ==
    ASSUME GasAssumption, RangeAssumption, Init
    PROVE  GasInv
  BY NoneIsNoPrice DEF Init, GasInv, TypeOK, OptPrices, LegacyOpts, GasAssumption,
     RangeAssumption

(* The steps of an update that leave the opts and the header alone.        *)
LEMMA GasQuiet ==
    ASSUME GasAssumption, GasInv,
           \/ UpdateFails \/ FetchGasPrice \/ FetchGasPriceFails \/ SuggestGasPrice
           \/ PendingNonceAt \/ NewBlock \/ UNCHANGED vars
    PROVE  GasInv'
  <1>1. UNCHANGED <<head, gasPrice, gasTipCap, gasFeeCap>>
    BY DEF UpdateFails, FetchGasPrice, FetchGasPriceFails, SuggestGasPrice,
       PendingNonceAt, NewBlock, vars, optVars
  <1>2. baseFee' = baseFee \/ baseFee' \in Nat
    BY DEF UpdateFails, FetchGasPrice, FetchGasPriceFails, SuggestGasPrice,
       PendingNonceAt, NewBlock, vars, Goto, GasAssumption
  <1>3. suggested' = suggested \/ suggested' \in Nat
    BY DEF UpdateFails, FetchGasPrice, FetchGasPriceFails, SuggestGasPrice,
       PendingNonceAt, NewBlock, vars, GasAssumption, ParsePrice
  <1>4. \/ pc' = pc /\ suggested' = suggested
        \/ pc' = "unlocked"
        \/ pc = "station" /\ pc' = "limit" /\ suggested' \in Nat
        \/ pc = "station" /\ pc' = "node"
        \/ pc = "node" /\ pc' = "limit" /\ suggested' \in Nat
        \/ pc = "nonce" /\ pc' = "ready"
    BY DEF UpdateFails, FetchGasPrice, FetchGasPriceFails, SuggestGasPrice,
       PendingNonceAt, NewBlock, vars, Goto, GasAssumption, ParsePrice
  <1>5. TypeOK'
    BY <1>1, <1>2, <1>3, <1>4 DEF GasInv, TypeOK, OptPrices
  <1>6. LegacyOpts' = LegacyOpts /\ LondonOpts' = LondonOpts
    BY <1>1 DEF LegacyOpts, LondonOpts
  <1> QED BY <1>1, <1>2, <1>4, <1>5, <1>6, NoneIsNoPrice DEF GasInv

LEMMA GasHeader ==
    ASSUME GasInv, HeaderByNumber
    PROVE  GasInv'
  <1>1. /\ UNCHANGED <<baseFee, gasPrice, gasTipCap, gasFeeCap>>
        /\ head' = baseFee /\ suggested' = None
        /\ pc' \in {"london", "station", "node"}
        /\ pc' = "london" <=> baseFee # None
    BY DEF HeaderByNumber, Goto, optVars
  <1>2. TypeOK'
    BY <1>1 DEF GasInv, TypeOK, OptPrices
  <1>3. head' = None => LegacyOpts'
    BY <1>1 DEF GasInv, LegacyOpts
  <1> QED BY <1>1, <1>2, <1>3 DEF GasInv

LEMMA GasLondon ==
    ASSUME GasAssumption, GasInv, EstimateGasLondon \/ EstimateGasLondonFails
    PROVE  GasInv'
  <1>1. UNCHANGED <<baseFee, head, suggested>> /\ head \in Nat
    BY DEF EstimateGasLondon, EstimateGasLondonFails, Goto, GasInv, TypeOK, OptPrices
  <1>2. CASE EstimateGasLondon
    <2>1. PICK tip \in Nat : gasTipCap' = London(tip).tip /\ gasFeeCap' = London(tip).cap
      BY <1>2 DEF EstimateGasLondon, GasAssumption
    <2>2. pc' = "nonce" /\ gasPrice' = None
      BY <1>2 DEF EstimateGasLondon, Goto
    <2>3. LondonOpts'
      BY <1>1, <2>1, <2>2, LondonBounds DEF LondonOpts
    <2>4. TypeOK'
      BY <1>1, <2>2, <2>3 DEF GasInv, TypeOK, OptPrices, LondonOpts
    <2> QED BY <1>1, <2>2, <2>3, <2>4, NoneIsNoPrice DEF GasInv
  <1>3. CASE EstimateGasLondonFails
    <2>1. pc' = "unlocked" /\ gasTipCap' = None /\ gasFeeCap' = None /\ gasPrice' = gasPrice
      BY <1>3 DEF EstimateGasLondonFails, Goto
    <2>2. TypeOK'
      BY <1>1, <2>1 DEF GasInv, TypeOK, OptPrices
    <2> QED BY <1>1, <2>1, <2>2, NoneIsNoPrice DEF GasInv
  <1> QED BY <1>2, <1>3

LEMMA GasSafeEstimate ==
    ASSUME GasAssumption, RangeAssumption, GasInv, SafeEstimateGas
    PROVE  GasInv'
  <1>1. /\ UNCHANGED <<baseFee, head, suggested, gasTipCap, gasFeeCap>>
        /\ pc = "limit" /\ pc' = "nonce"
        /\ gasPrice' = Limited(suggested)
    BY DEF SafeEstimateGas, Goto
  <1>2. suggested \in Nat /\ head = None
    BY <1>1 DEF GasInv, TypeOK, OptPrices
  <1>3. gasPrice' \in MinGasPrice .. MaxGasPrice
    BY <1>1, <1>2, LimitedBounds
  <1>4. gasPrice' \in Nat
    BY <1>3 DEF GasAssumption
  <1>5. TypeOK'
    BY <1>1, <1>4 DEF GasInv, TypeOK, OptPrices
  <1>6. LegacyOpts'
    BY <1>1, <1>2, <1>3 DEF GasInv, LegacyOpts
  <1> QED BY <1>1, <1>2, <1>5, <1>6 DEF GasInv

LEMMA GasStep ==
    ASSUME GasInv, [Next]_vars
    PROVE  GasInv'
  <1>1. GasAssumption /\ RangeAssumption
    BY HelpersAssumption
  <1> QED BY <1>1, GasQuiet, GasHeader, GasLondon, GasSafeEstimate DEF Next

LEMMA GasGives ==
    ASSUME GasInv
    PROVE  OneKindOfPrice /\ PriceWithinLimits /\ FeeCapFollowsLimit
  <1>1. GasAssumption /\ RangeAssumption
    BY HelpersAssumption
  <1>2. OneKindOfPrice
    <2>1. LegacyOpts => gasPrice # None
      BY <1>1, NoneIsNoPrice DEF LegacyOpts, GasAssumption
    <2> QED BY <2>1, NoneIsNoPrice DEF GasInv, OneKindOfPrice, LegacyOpts, LondonOpts
  <1>3. PriceWithinLimits
    BY DEF GasInv, PriceWithinLimits, LegacyOpts, LondonOpts
  <1>4. ASSUME pc = "ready", gasFeeCap # None PROVE FeeCapFollowsLimit
    <2>1. head \in Nat /\ LondonOpts
      BY <1>4 DEF GasInv, LegacyOpts, TypeOK, OptPrices
    <2> QED BY <1>1, <2>1 DEF LondonOpts, FeeCapFollowsLimit, GasAssumption
  <1> QED BY <1>2, <1>3, <1>4 DEF FeeCapFollowsLimit
-----------------------------------------------------------------------------
(* The keystore.  A file that loses its key is one importKey has           *)
(* truncated, and O_EXCL keeps the other commands away from it.            *)

LEMMA KeysInitTypes ==
    ASSUME Key!Init
    PROVE  Key!TypeOK
  BY HelpersAssumption
    DEF Key!KeystoreAssumption, Key!Init, Key!TypeOK, Key!FileStates, Key!Pcs, Key!Commands

LEMMA KeysNextTypes ==
    ASSUME Key!TypeOK, [Key!Next]_(Key!vars)
    PROVE  Key!TypeOK'
  <1>1. CASE UNCHANGED Key!vars
    BY <1>1 DEF Key!vars, Key!store, Key!TypeOK
  <1> SUFFICES ASSUME Key!Next PROVE Key!TypeOK'
    BY <1>1
  <1> PICK p \in Processes :
             \/ Key!Begin(p)
             \/ Key!KeystoreDir(p)
             \/ Key!KeystoreDirFails(p)
             \/ Key!OpenFile(p)
             \/ Key!WriteFile(p)
             \/ Key!Write(p)
             \/ Key!WriteElsewhere(p)
             \/ Key!Fails(p)
    BY DEF Key!Next
  <1> USE DEF Key!TypeOK, Key!Goto, Key!store, Key!Pcs, Key!FileStates
  <1>2. CASE Key!Begin(p)
    BY <1>2 DEF Key!Begin
  <1>3. CASE Key!KeystoreDir(p)
    BY <1>3 DEF Key!KeystoreDir
  <1>4. CASE Key!KeystoreDirFails(p)
    BY <1>4 DEF Key!KeystoreDirFails
  <1>5. CASE Key!OpenFile(p)
    BY <1>5 DEF Key!OpenFile
  <1>6. CASE Key!WriteFile(p)
    BY <1>6 DEF Key!WriteFile
  <1>7. CASE Key!Write(p)
    BY <1>7 DEF Key!Write
  <1>8. CASE Key!WriteElsewhere(p)
    BY <1>8 DEF Key!WriteElsewhere
  <1>9. CASE Key!Fails(p)
    BY <1>9 DEF Key!Fails
  <1> QED BY <1>2, <1>3, <1>4, <1>5, <1>6, <1>7, <1>8, <1>9

LEMMA KeysNextStored ==
    ASSUME Key!TypeOK, Key!ReportedIsStored, [Key!Next]_(Key!vars)
    PROVE  Key!ReportedIsStored'
  <1>1. CASE UNCHANGED Key!vars
    BY <1>1 DEF Key!vars, Key!store, Key!ReportedIsStored
  <1> SUFFICES ASSUME Key!Next PROVE Key!ReportedIsStored'
    BY <1>1
  <1> PICK p \in Processes :
             \/ Key!Begin(p)
             \/ Key!KeystoreDir(p)
             \/ Key!KeystoreDirFails(p)
             \/ Key!OpenFile(p)
             \/ Key!WriteFile(p)
             \/ Key!Write(p)
             \/ Key!WriteElsewhere(p)
             \/ Key!Fails(p)
    BY DEF Key!Next
  <1>2. CASE Key!Begin(p) \/ Key!KeystoreDir(p) \/ Key!Fails(p)
    BY <1>2 DEF Key!ReportedIsStored, Key!Begin, Key!KeystoreDir, Key!Fails, Key!store
  <1>3. CASE Key!KeystoreDirFails(p)
    BY <1>3 DEF Key!ReportedIsStored, Key!KeystoreDirFails, Key!store
  <1>4. CASE Key!OpenFile(p)
    \* a reported key whose file is absent is not to be found here anyway
    <2>1. files[address[p]] = "absent" /\ address[p] \in Addresses
      BY <1>4 DEF Key!OpenFile, Key!MayCreate, Key!TypeOK
    <2>2. \A a \in Addresses : a # address[p] => files'[a] = files[a]
      BY <1>4 DEF Key!OpenFile, Key!TypeOK
    <2>3. UNCHANGED <<reported, overwritten, elsewhere>>
      BY <1>4 DEF Key!OpenFile
    <2> QED BY <2>1, <2>2, <2>3 DEF Key!ReportedIsStored, Key!TypeOK
  <1>5. CASE Key!WriteFile(p)
    <2>1. overwritten' = overwritten \cup {address[p]} /\ UNCHANGED <<reported, elsewhere>>
      BY <1>5 DEF Key!WriteFile
    <2>2. \A a \in Addresses : a # address[p] => files'[a] = files[a]
      BY <1>5 DEF Key!WriteFile, Key!TypeOK
    <2> QED BY <2>1, <2>2 DEF Key!ReportedIsStored, Key!TypeOK
  <1>6. CASE Key!Write(p)
    <2>1. /\ overwritten' = overwritten \ {address[p]}
          /\ reported' = reported \cup {address[p]}
          /\ UNCHANGED elsewhere
      BY <1>6 DEF Key!Write
    <2>2. /\ files'[address[p]] = "key"
          /\ \A a \in Addresses : a # address[p] => files'[a] = files[a]
      BY <1>6 DEF Key!Write, Key!TypeOK
    <2> QED BY <2>1, <2>2 DEF Key!ReportedIsStored, Key!TypeOK
  <1>7. CASE Key!WriteElsewhere(p)
    BY <1>7 DEF Key!ReportedIsStored, Key!WriteElsewhere
  <1> QED BY <1>2, <1>3, <1>4, <1>5, <1>6, <1>7
-----------------------------------------------------------------------------
(* The start of the process.  Chains up to next are ready to be written to *)
(* before any listener is started, and a chain registered later for the    *)
(* same id has the same contract id.                                       *)

ChainReady(c) ==
    /\ Start!CanInitialize(c)
    /\ writers[Start!ChainId(c)] \in ConfiguredChains
    /\ ContractIds[writers[Start!ChainId(c)]] = ContractIds[c]

Accounted(c) == handled[c] \cup waived[c]

\* What is stored for a chain, and its listener, have passed over no block.
Resumes(c) ==
    /\ 0 .. block[c] - 1 \subseteq Accounted(c)
    /\ 0 .. stored[Start!StoreFile(c)] - 1 \subseteq Accounted(c)

StartInv ==
    /\ Start!TypeOK
    /\ polling \subseteq Start!Listed
    /\ polling # {} => spc \in {"start", "running"}
    /\ spc = "down" => next = 1
    /\ spc \in {"initialize", "start"} => next \in DOMAIN config
    /\ \A i \in DOMAIN config :
          (spc = "initialize" /\ i < next) \/ spc \in {"start", "running"} =>
              ChainReady(config[i])
    /\ \A c \in Start!Listed : Start!Shared(c) \/ Resumes(c)

LEMMA ConfigType ==
    ASSUME Start!TypeOK
    PROVE  /\ config \in Seq(ConfiguredChains)
           /\ DOMAIN config = 1 .. Len(config) /\ Len(config) \in Nat
           /\ \A i \in DOMAIN config : config[i] \in ConfiguredChains
           /\ Start!Listed \subseteq ConfiguredChains
  <1>1. config \in Seq(ConfiguredChains)
    BY HelpersAssumption DEF Start!StartupAssumption, Start!TypeOK
  <1>2. DOMAIN config = 1 .. Len(config) /\ Len(config) \in Nat
    BY <1>1, LenProperties
  <1>3. \A i \in DOMAIN config : config[i] \in ConfiguredChains
    BY <1>1, <1>2, ElementOfSeq
  <1> QED BY <1>1, <1>2, <1>3 DEF Start!Listed

(* What is configured does not change.                                     *)
LEMMA StartConstants ==
    /\ \A c : Start!ChainId(c)' = Start!ChainId(c)
    /\ \A c : Start!StoreFile(c)' = Start!StoreFile(c)
    /\ \A c : Start!CanInitialize(c)' = Start!CanInitialize(c)
    /\ Start!StoreFiles' = Start!StoreFiles
    /\ \A c \in ConfiguredChains : Start!StoreFile(c) \in Start!StoreFiles
  BY DEF Start!ChainId, Start!StoreFile, Start!CanInitialize, Start!ParseChainConfig,
     Start!ParseSubstrateOpts, Start!Accepted, Start!StoreFiles

LEMMA ChainIdType ==
    ASSUME NEW c \in ConfiguredChains
    PROVE  /\ Start!ChainId(c) \in 0 .. 255
           /\ StartBlocks[c] \in Nat
           /\ ContractIds[c] \in 0 .. 255
  <1>1. \A n \in Nat : n % 256 \in 0 .. 255
    OBVIOUS
  <1> QED BY <1>1, HelpersAssumption DEF Start!StartupAssumption, Start!ChainId

LEMMA StartInit ==
    ASSUME Start!Init
    PROVE  StartInv
  <1>1. config \in Configs /\ spc = "down" /\ next = 1 /\ polling = {} /\ flags = {} /\ starts = 0
    BY DEF Start!Init
  <1>2. /\ block = [c \in ConfiguredChains |-> 0]
        /\ latest = [c \in ConfiguredChains |-> 0]
        /\ stored = [f \in Start!StoreFiles |-> 0]
        /\ handled = [c \in ConfiguredChains |-> {}]
        /\ waived = [c \in ConfiguredChains |-> {}]
        /\ writers = [id \in 0 .. 255 |-> NoChain]
    BY DEF Start!Init, Start!NoWriters
  <1>3. Start!TypeOK
    BY <1>1, <1>2 DEF Start!TypeOK
  <1>4. \A c \in ConfiguredChains : Resumes(c)
    BY <1>2, StartConstants DEF Resumes
  <1> QED BY <1>1, <1>3, <1>4, ConfigType DEF StartInv

(* Steps that leave the writers and the blocks alone, or that forget all   *)
(* but the blockstore.                                                     *)

LEMMA StartStutters ==
    ASSUME StartInv, UNCHANGED Start!vars
    PROVE  StartInv'
  <1> USE DEF Start!vars, StartInv
  <1>1. Start!TypeOK'
    BY StartConstants DEF Start!TypeOK
  <1>2. \A i \in DOMAIN config : ChainReady(config[i])' = ChainReady(config[i])
    BY StartConstants DEF ChainReady
  <1>3. \A c \in Start!Listed : (Start!Shared(c) \/ Resumes(c))'
    BY StartConstants DEF Resumes, Accounted, Start!Listed, Start!Shared
  <1> QED BY <1>1, <1>2, <1>3 DEF Start!Listed

LEMMA StartRuns ==
    ASSUME StartInv, Start!Run
    PROVE  StartInv'
  <1>1. /\ UNCHANGED <<config, next, writers, polling, block, latest, stored, handled, waived>>
        /\ spc = "down" /\ spc' \in {"initialize", "running"}
        /\ starts' = starts + 1 /\ flags' \in SUBSET {"fresh", "latest"}
    BY DEF Start!Run
  <1>2. IF config = << >> THEN spc' = "running" ELSE spc' = "initialize"
    BY DEF Start!Run
  <1>3. Start!TypeOK
    BY DEF StartInv
  <1>4. Start!TypeOK'
    BY <1>1, <1>3, StartConstants DEF Start!TypeOK
  <1>5. polling' = {} /\ Start!Listed' = Start!Listed
    BY <1>1 DEF StartInv, Start!Listed
  <1>6. next \in DOMAIN config \/ config = << >>
    BY ConfigType, EmptySeq DEF Start!TypeOK, StartInv
  <1>7. (\A i \in DOMAIN config :
            (spc = "initialize" /\ i < next) \/ spc \in {"start", "running"} =>
                ChainReady(config[i]))'
    <2>1. DOMAIN << >> = {}
      OBVIOUS
    <2>2. CASE config = << >>
      BY <1>1, <2>1, <2>2
    <2>3. CASE config # << >>
      BY <1>1, <1>2, <2>3, ConfigType DEF StartInv
    <2> QED BY <2>2, <2>3
  <1>8. \A c \in Start!Listed : (Start!Shared(c) \/ Resumes(c))'
    BY <1>1, StartConstants DEF StartInv, Resumes, Accounted, Start!Listed, Start!Shared
  <1> QED BY <1>1, <1>2, <1>4, <1>5, <1>6, <1>7, <1>8 DEF StartInv

LEMMA StartEnds ==
    ASSUME StartInv, Start!ProcessEnds
    PROVE  StartInv'
  <1>1. /\ UNCHANGED <<config, latest, stored, starts, handled, waived>>
        /\ spc' = "down" /\ next' = 1 /\ flags' = {} /\ polling' = {}
        /\ writers' = [id \in 0 .. 255 |-> NoChain]
        /\ block' = [c \in ConfiguredChains |-> 0]
    BY DEF Start!ProcessEnds, Start!NoWriters
  <1>2. Start!TypeOK'
    BY <1>1, StartConstants DEF Start!TypeOK, StartInv
  <1>3. ASSUME NEW c \in Start!Listed, ~Start!Shared(c)
        PROVE  Resumes(c)'
    <2>1. c \in ConfiguredChains /\ Resumes(c)
      BY <1>3, ConfigType DEF StartInv
    <2>2. block'[c] = 0 /\ 0 .. 0 - 1 = {}
      BY <1>1, <2>1
    <2> QED BY <1>1, <2>1, <2>2, StartConstants DEF Resumes, Accounted
  <1>4. (\A c \in Start!Listed : Start!Shared(c) \/ Resumes(c))'
    BY <1>1, <1>3, StartConstants DEF Start!Listed, Start!Shared
  <1> QED BY <1>1, <1>2, <1>4 DEF StartInv, Start!Listed

LEMMA StartMines ==
    ASSUME StartInv, NEW c \in Start!Listed, Start!MineBlock(c)
    PROVE  StartInv'
  <1>1. /\ UNCHANGED <<config, spc, next, flags, writers, polling, block, stored, starts,
                       handled, waived>>
        /\ latest' = [latest EXCEPT ![c] = @ + 1]
    BY DEF Start!MineBlock
  <1>2. latest' \in [ConfiguredChains -> Nat]
    <2>1. c \in ConfiguredChains /\ latest \in [ConfiguredChains -> Nat]
      BY ConfigType DEF StartInv, Start!TypeOK
    <2> QED BY <1>1, <2>1
  <1>3. Start!TypeOK'
    BY <1>1, <1>2, StartConstants DEF Start!TypeOK, StartInv
  <1>4. \A i \in DOMAIN config : ChainReady(config[i])' = ChainReady(config[i])
    BY <1>1, StartConstants DEF ChainReady
  <1>5. \A d \in Start!Listed : (Start!Shared(d) \/ Resumes(d))'
    BY <1>1, StartConstants DEF StartInv, Resumes, Accounted, Start!Listed, Start!Shared
  <1> QED BY <1>1, <1>3, <1>4, <1>5 DEF StartInv, Start!Listed

(* The index after the chain at next has been dealt with.                  *)
LEMMA Advances ==
    ASSUME StartInv, spc \in {"initialize", "start"}, Start!Advance
    PROVE  /\ spc' \in {"initialize", "start", "running"}
           /\ spc = "start" => spc' # "initialize"
           /\ next' \in DOMAIN config
           /\ spc' = "initialize" => next' = next + 1
           /\ spc = "initialize" /\ spc' # "initialize" => next = Len(config)
  BY ConfigType DEF StartInv, Start!Advance

LEMMA StartInitializes ==
    ASSUME StartInv, Start!InitializeChain
    PROVE  StartInv'
  <1> DEFINE c == config[next]
  <1>1. /\ spc = "initialize" /\ next \in DOMAIN config /\ c \in ConfiguredChains
        /\ Start!TypeOK
    BY ConfigType DEF StartInv, Start!InitializeChain
  <1>2. /\ UNCHANGED <<config, flags, polling, latest, stored, starts, handled>>
        /\ Start!CanInitialize(c)
        /\ block' = [block EXCEPT ![c] = Start!StartBlock(c)]
        /\ waived' = [waived EXCEPT ![c] = @ \cup
              IF "latest" \in flags THEN 0 .. latest[c] - 1 ELSE 0 .. StartBlocks[c] - 1]
        /\ writers' = [writers EXCEPT ![Start!ChainId(c)] = c]
        /\ Start!Advance
    BY DEF Start!InitializeChain
  <1>3. /\ stored[Start!StoreFile(c)] \in Nat /\ StartBlocks[c] \in Nat /\ latest[c] \in Nat
        /\ Start!ChainId(c) \in 0 .. 255
    BY <1>1, ChainIdType, StartConstants DEF Start!TypeOK
  <1>4. Start!StartBlock(c) \in Nat
    BY <1>3 DEF Start!StartBlock, Start!Larger
  <1>5. Start!TypeOK'
    <2>1. block' \in [ConfiguredChains -> Nat]
      BY <1>1, <1>2, <1>4 DEF Start!TypeOK
    <2>2. waived' \in [ConfiguredChains -> SUBSET Nat]
      BY <1>1, <1>2, <1>3 DEF Start!TypeOK
    <2>3. writers' \in [0 .. 255 -> ConfiguredChains \cup {NoChain}]
      BY <1>1, <1>2 DEF Start!TypeOK
    <2> QED BY <1>1, <1>2, <2>1, <2>2, <2>3, Advances, StartConstants DEF Start!TypeOK
  <1>6. polling' = {}
    BY <1>1, <1>2 DEF StartInv
  <1>7. ASSUME NEW d \in Start!Listed, ~Start!Shared(d)
        PROVE  Resumes(d)'
    <2>1. Resumes(d) /\ d \in ConfiguredChains
      BY <1>7, ConfigType DEF StartInv
    <2>2. handled' = handled /\ stored' = stored /\ waived[d] \subseteq waived'[d]
      BY <1>1, <1>2, <2>1 DEF Start!TypeOK
    <2>3. CASE d # c
      BY <1>1, <1>2, <2>1, <2>2, <2>3, StartConstants DEF Resumes, Accounted, Start!TypeOK
    <2>4. CASE d = c
      <3>1. /\ block'[c] = Start!StartBlock(c)
            /\ waived'[c] = waived[c] \cup
                  IF "latest" \in flags THEN 0 .. latest[c] - 1 ELSE 0 .. StartBlocks[c] - 1
        BY <1>1, <1>2 DEF Start!TypeOK
      <3>2. 0 .. Start!StartBlock(c) - 1 \subseteq handled[c] \cup waived'[c]
        BY <1>3, <2>1, <2>4, <3>1 DEF Resumes, Accounted, Start!StartBlock, Start!Larger
      <3> QED BY <2>1, <2>2, <2>4, <3>1, <3>2, StartConstants DEF Resumes, Accounted
    <2> QED BY <2>3, <2>4
  <1>8. (\A d \in Start!Listed : Start!Shared(d) \/ Resumes(d))'
    BY <1>2, <1>7, StartConstants DEF Start!Listed, Start!Shared
  <1>9. ASSUME NEW i \in DOMAIN config, i <= next, spc' # "initialize" \/ i < next'
        PROVE  ChainReady(config[i])'
    <2>1. i = next \/ ChainReady(config[i])
      BY <1>1, <1>9, ConfigType DEF StartInv
    <2>2. config[i] \in ConfiguredChains
      BY <1>1, ConfigType
    <2>3. writers'[Start!ChainId(c)] = c /\ ContractIds[c] = Start!ChainId(c)
      BY <1>1, <1>2, <1>3 DEF Start!TypeOK, Start!CanInitialize
    <2>4. CASE Start!ChainId(config[i]) = Start!ChainId(c)
      <3>1. Start!CanInitialize(config[i]) /\ ContractIds[config[i]] = Start!ChainId(config[i])
        BY <1>2, <2>1 DEF ChainReady, Start!CanInitialize
      <3> QED BY <1>1, <1>2, <2>3, <2>4, <3>1, StartConstants DEF ChainReady
    <2>5. CASE Start!ChainId(config[i]) # Start!ChainId(c)
      <3>1. ChainReady(config[i])
        BY <2>1, <2>5
      <3>2. writers'[Start!ChainId(config[i])] = writers[Start!ChainId(config[i])]
        BY <1>1, <1>2, <2>2, <2>5, ChainIdType DEF Start!TypeOK
      <3> QED BY <1>2, <3>1, <3>2, StartConstants DEF ChainReady
    <2> QED BY <2>4, <2>5
  <1>10. (\A i \in DOMAIN config :
            (spc = "initialize" /\ i < next) \/ spc \in {"start", "running"} =>
                ChainReady(config[i]))'
    <2>1. ASSUME NEW i \in DOMAIN config,
                 (spc' = "initialize" /\ i < next') \/ spc' \in {"start", "running"}
          PROVE  i <= next /\ (spc' # "initialize" \/ i < next')
      BY <1>1, <1>2, <2>1, Advances, ConfigType
    <2> QED BY <1>2, <1>9, <2>1
  <1> QED BY <1>1, <1>2, <1>5, <1>6, <1>8, <1>10, Advances DEF StartInv

LEMMA StartStarts ==
    ASSUME StartInv, Start!StartChain
    PROVE  StartInv'
  <1>1. /\ spc = "start" /\ next \in DOMAIN config
        /\ config[next] \in ConfiguredChains /\ config[next] \in Start!Listed
    BY ConfigType DEF StartInv, Start!StartChain, Start!Listed
  <1>2. /\ UNCHANGED <<config, flags, writers, block, latest, stored, starts, handled, waived>>
        /\ polling' = polling \cup {config[next]}
        /\ Start!Advance
    BY DEF Start!StartChain
  <1>3. spc' \in {"start", "running"} /\ next' \in DOMAIN config
    BY <1>1, <1>2, Advances
  <1>4. Start!TypeOK'
    BY <1>1, <1>2, <1>3, StartConstants DEF Start!TypeOK, StartInv
  <1>5. \A i \in DOMAIN config : ChainReady(config[i])'
    BY <1>1, <1>2, StartConstants DEF ChainReady, StartInv
  <1>6. \A d \in Start!Listed : (Start!Shared(d) \/ Resumes(d))'
    BY <1>2, StartConstants DEF StartInv, Resumes, Accounted, Start!Listed, Start!Shared
  <1> QED BY <1>1, <1>2, <1>3, <1>4, <1>5, <1>6 DEF StartInv, Start!Listed

LEMMA StartPolls ==
    ASSUME StartInv, NEW c \in Start!Listed, Start!PollBlock(c)
    PROVE  StartInv'
  <1>1. /\ UNCHANGED <<config, spc, next, flags, writers, polling, latest, starts, waived>>
        /\ handled' = [handled EXCEPT ![c] = @ \cup {block[c]}]
        /\ stored' = [stored EXCEPT ![Start!StoreFile(c)] = block[c]]
        /\ block' = [block EXCEPT ![c] = @ + 1]
    BY DEF Start!PollBlock
  <1>2. c \in ConfiguredChains /\ block[c] \in Nat /\ Start!TypeOK
    BY ConfigType DEF StartInv, Start!TypeOK
  <1>3. Start!TypeOK'
    <2>1. handled' \in [ConfiguredChains -> SUBSET Nat] /\ block' \in [ConfiguredChains -> Nat]
      BY <1>1, <1>2 DEF Start!TypeOK
    <2>2. stored' \in [Start!StoreFiles -> Nat]
      BY <1>1, <1>2, StartConstants DEF Start!TypeOK
    <2> QED BY <1>1, <1>2, <2>1, <2>2, StartConstants DEF Start!TypeOK
  <1>4. \A i \in DOMAIN config : ChainReady(config[i])' = ChainReady(config[i])
    BY <1>1, StartConstants DEF ChainReady
  <1>5. ASSUME NEW d \in Start!Listed, ~Start!Shared(d)
        PROVE  Resumes(d)'
    <2>1. Resumes(d) /\ d \in ConfiguredChains
      BY <1>5, ConfigType, <1>2 DEF StartInv
    <2>2. CASE d = c
      <3>1. /\ handled'[c] = handled[c] \cup {block[c]}
            /\ stored'[Start!StoreFile(c)] = block[c]
            /\ block'[c] = block[c] + 1
        BY <1>1, <1>2, StartConstants DEF Start!TypeOK
      <3> QED BY <1>1, <1>2, <2>1, <2>2, <3>1, StartConstants DEF Resumes, Accounted
    <2>3. CASE d # c
      <3>1. Start!StoreFile(d) # Start!StoreFile(c)
        BY <1>5, <2>3 DEF Start!Shared, Start!StoreFile
      <3>2. /\ handled'[d] = handled[d] /\ block'[d] = block[d]
            /\ stored'[Start!StoreFile(d)] = stored[Start!StoreFile(d)]
        BY <1>1, <1>2, <2>1, <2>3, <3>1, StartConstants DEF Start!TypeOK
      <3> QED BY <1>1, <2>1, <3>2, StartConstants DEF Resumes, Accounted
    <2> QED BY <2>2, <2>3
  <1>6. (\A d \in Start!Listed : Start!Shared(d) \/ Resumes(d))'
    BY <1>1, <1>5, StartConstants DEF Start!Listed, Start!Shared
  <1> QED BY <1>1, <1>3, <1>4, <1>6 DEF StartInv, Start!Listed

LEMMA StartNext ==
    ASSUME StartInv, [Start!Next]_(Start!vars)
    PROVE  StartInv'
  BY StartStutters, StartRuns, StartEnds, StartMines, StartInitializes, StartStarts, StartPolls
    DEF Start!Next

LEMMA StartGives ==
    ASSUME StartInv
    PROVE  Start!ReadyBeforePolling /\ Start!ResumesOwnBlock
  <1>1. ASSUME polling # {}, NEW c \in Start!Listed
        PROVE  LET w == writers[Start!ChainId(c)] IN
               /\ w # NoChain
               /\ ContractIds[w] = ContractIds[c]
               /\ ContractIds[c] = Start!ChainId(c)
               /\ Types[c] = "ethereum" => DOMAIN Opts[c] \subseteq DOMAIN Start!Accepted
    <2>1. ChainReady(c)
      BY <1>1 DEF StartInv, Start!Listed
    <2>2. Types[c] = "ethereum" => Start!ParseChainConfig(c)
      BY <2>1 DEF ChainReady, Start!CanInitialize
    <2>3. Types[c] = "ethereum" => DOMAIN Opts[c] \subseteq DOMAIN Start!Accepted
      BY <2>2 DEF Start!ParseChainConfig
    <2> QED BY <2>1, <2>3, HelpersAssumption
          DEF ChainReady, Start!CanInitialize, Start!StartupAssumption
  <1>2. Start!ResumesOwnBlock
    BY DEF StartInv, Resumes, Accounted, Start!ResumesOwnBlock
  <1> QED BY <1>1, <1>2 DEF Start!ReadyBeforePolling
-----------------------------------------------------------------------------
(* The watch for an event.  Blocks are looked at when they are final, and  *)
(* final blocks stay what they are.                                        *)

WatchInv ==
    /\ Watch!TypeOK
    /\ final <= Watch!Height
    /\ Watch!Height - MaxReorg <= final
    /\ firstBlock <= latestBlock
    /\ wpc = "idle" => latestBlock = firstBlock
    /\ wpc \in {"wait", "filter"} => watched < ExecuteBlockWatchLimit
    /\ wpc = "wait" => waitRetrys < BlockRetryLimit
    /\ wpc = "filter" => latestBlock <= final
    /\ Watch!FoundIsFinal
    /\ \A h \in firstBlock .. latestBlock - 1 : h <= final
    /\ Watch!NothingPassedBy

LEMMA WatchConstants ==
    /\ MaxHeight \in Nat /\ MaxLogs \in Nat /\ MaxReorg \in Nat
    /\ ExecuteBlockWatchLimit \in Nat \ {0}
    /\ BlockRetryLimit \in Nat \ {0}
    /\ BlockConfirmations \in Nat
    /\ BlockConfirmations >= MaxReorg
  BY HelpersAssumption
    DEF Watch!SourceChainAssumption, Watch!WatchAssumption, Watch!ConfirmationsAssumption

(* The chain of the watch is the one SourceChainProofs is about.           *)
LEMMA SameChain ==
    /\ SC!SourceChainAssumption
    /\ Watch!Height = SC!Height /\ Watch!Height' = SC!Height'
    /\ \A h : Watch!Logs(h) = SC!Logs(h) /\ Watch!Logs(h)' = SC!Logs(h)'
    /\ Watch!Mine <=> SC!Mine
    /\ Watch!Reorg <=> SC!Reorg
    /\ Watch!TypeOK => SC!ChainTypeOK
  BY WatchConstants
    DEF SC!SourceChainAssumption, Watch!Height, SC!Height, Watch!Logs, SC!Logs, Watch!Mine,
        SC!Mine, Watch!Reorg, SC!Reorg, Watch!NewBlocks, SC!NewBlocks, Watch!Mined, SC!Mined,
        Watch!BoundedSeq, SC!BoundedSeq, Watch!SeqOf, SC!SeqOf, Watch!IsInjective,
        SC!IsInjective, Watch!TypeOK, SC!ChainTypeOK

LEMMA WatchedChain ==
    ASSUME WatchInv, Watch!ChainNext
    PROVE  /\ chain' \in Seq(Seq(Deposits)) /\ final' \in Nat
           /\ final <= final'
           /\ final' <= Watch!Height'
           /\ Watch!Height' - MaxReorg <= final'
           /\ \A h \in Nat : h <= final => Watch!Logs(h)' = Watch!Logs(h)
  <1>1. SC!ChainTypeOK /\ final <= SC!Height /\ SC!Height - MaxReorg <= final
    BY SameChain DEF WatchInv
  <1>2. CASE Watch!Mine
    BY <1>1, <1>2, SameChain, SC!MineStable
  <1>3. CASE Watch!Reorg
    BY <1>1, <1>3, SameChain, SC!ReorgStable DEF SC!ChainTypeOK
  <1> QED BY <1>2, <1>3 DEF Watch!ChainNext

LEMMA WatchBegins ==
    ASSUME Watch!Init
    PROVE  WatchInv
  <1>1. /\ chain = << >> /\ final = 0 /\ wpc = "idle" /\ watched = 0 /\ latestBlock = 0
        /\ waitRetrys = 0 /\ wstop = "open" /\ connStop = "open" /\ firstBlock = 0
        /\ unread = {}
    BY DEF Watch!Init, Watch!ChainInit
  <1>2. chain \in Seq(Seq(Deposits)) /\ Watch!Height = 0
    BY <1>1, EmptySeq DEF Watch!Height
  <1>3. Watch!TypeOK
    BY <1>1, <1>2, WatchConstants DEF Watch!TypeOK
  <1>4. Watch!FoundIsFinal /\ Watch!NothingPassedBy
    BY <1>1 DEF Watch!FoundIsFinal, Watch!NothingPassedBy
  <1> QED BY <1>1, <1>2, <1>3, <1>4, WatchConstants DEF WatchInv

LEMMA WatchChainStep ==
    ASSUME WatchInv, Watch!ChainStep
    PROVE  WatchInv'
  <1>1. UNCHANGED <<wpc, watched, latestBlock, waitRetrys, wstop, connStop, firstBlock, unread>>
    BY DEF Watch!ChainStep, Watch!watchVars
  <1>2. /\ chain' \in Seq(Seq(Deposits)) /\ final' \in Nat
        /\ final <= final' /\ final' <= Watch!Height' /\ Watch!Height' - MaxReorg <= final'
        /\ \A h \in Nat : h <= final => Watch!Logs(h)' = Watch!Logs(h)
    BY WatchedChain DEF Watch!ChainStep
  <1>3. Watch!TypeOK /\ Watch!TypeOK'
    BY <1>1, <1>2 DEF WatchInv, Watch!TypeOK, Watch!Returned
  <1>4. Watch!FoundIsFinal'
    BY <1>1, <1>2, <1>3 DEF WatchInv, Watch!FoundIsFinal, Watch!Matches, Watch!TypeOK
  <1>5. ASSUME NEW h \in firstBlock .. latestBlock - 1
        PROVE  h <= final /\ h <= final' /\ Watch!Logs(h)' = Watch!Logs(h)
    <2>1. /\ firstBlock \in Nat /\ latestBlock \in Nat /\ final \in Nat
          /\ h <= final
      BY <1>3 DEF WatchInv, Watch!TypeOK
    <2>2. h \in Nat
      BY <2>1
    <2>3. h <= final'
      BY <1>2, <2>1, <2>2
    <2> QED BY <1>2, <2>1, <2>2, <2>3
  <1>6. Watch!NothingPassedBy'
    BY <1>1, <1>5 DEF WatchInv, Watch!NothingPassedBy, Watch!Matches
  <1>7. wpc = "filter" => latestBlock <= final'
    BY <1>2, <1>3 DEF WatchInv, Watch!TypeOK
  <1> QED BY <1>1, <1>2, <1>3, <1>4, <1>5, <1>6, <1>7 DEF WatchInv

(* Steps that stay at the same block.                                      *)
LEMMA WatchStays ==
    ASSUME WatchInv,
           \/ Watch!LimitReached \/ Watch!Stopped \/ Watch!Loop
           \/ Watch!LatestBlockFails \/ Watch!ConnectionTerminated
           \/ Watch!ReportFatal \/ Watch!CoreEnds
           \/ Watch!CoreStop \/ Watch!Close \/ UNCHANGED Watch!vars
    PROVE  WatchInv'
  <1>1. UNCHANGED <<chain, final, watched, latestBlock, firstBlock, unread>>
    BY DEF Watch!LimitReached, Watch!Stopped, Watch!Loop, Watch!LatestBlockFails,
       Watch!ConnectionTerminated, Watch!WaitFails, Watch!ReportFatal, Watch!CoreEnds,
       Watch!CoreStop, Watch!Close, Watch!Goto, Watch!vars, Watch!chainVars, Watch!watchVars
  <1>2. /\ wstop' \in {wstop, "ending", "closed"} /\ connStop' \in {connStop, "closed"}
        /\ \/ UNCHANGED <<wpc, waitRetrys>>
           \/ wpc = "loop" /\ wpc' \in {"limit", "stopped"} /\ waitRetrys' = waitRetrys
           \/ wpc = "loop" /\ wpc' = "wait" /\ waitRetrys' = 0 /\ watched < ExecuteBlockWatchLimit
           \/ /\ wpc = "wait" /\ waitRetrys' = waitRetrys + 1
              /\ wpc' = IF waitRetrys + 1 = BlockRetryLimit THEN "report" ELSE "wait"
           \/ wpc = "report" /\ wpc' = "fatal" /\ waitRetrys' = waitRetrys
    BY DEF Watch!LimitReached, Watch!Stopped, Watch!Loop, Watch!LatestBlockFails,
       Watch!ConnectionTerminated, Watch!WaitFails, Watch!ReportFatal, Watch!CoreEnds,
       Watch!CoreStop, Watch!Close, Watch!Goto, Watch!vars, Watch!chainVars, Watch!watchVars
  <1>3. Watch!Height' = Watch!Height /\ \A h : Watch!Logs(h)' = Watch!Logs(h)
    BY <1>1 DEF Watch!Height, Watch!Logs
  <1>4. Watch!TypeOK
    BY DEF WatchInv
  <1>5. /\ waitRetrys' \in 0 .. BlockRetryLimit
        /\ wpc' = "wait" => waitRetrys' < BlockRetryLimit
    BY <1>2, <1>4, WatchConstants DEF WatchInv, Watch!TypeOK
  <1>6. Watch!TypeOK'
    BY <1>1, <1>2, <1>4, <1>5 DEF Watch!TypeOK, Watch!Returned
  <1>7. /\ wpc' = "idle" => wpc = "idle"
        /\ wpc' = "filter" => wpc = "filter"
        /\ wpc' = "found" => wpc = "found"
        /\ wpc' \in {"wait", "filter"} => watched < ExecuteBlockWatchLimit
    BY <1>2 DEF WatchInv
  <1>8. Watch!FoundIsFinal' /\ Watch!NothingPassedBy'
    BY <1>1, <1>3, <1>7 DEF WatchInv, Watch!FoundIsFinal, Watch!NothingPassedBy, Watch!Matches
  <1> QED BY <1>1, <1>3, <1>5, <1>6, <1>7, <1>8 DEF WatchInv

LEMMA WatchStarts ==
    ASSUME WatchInv, Watch!Watch
    PROVE  WatchInv'
  <1>1. /\ UNCHANGED <<chain, final, watched, waitRetrys, wstop, connStop, unread>>
        /\ wpc' = "loop" /\ latestBlock' = Watch!Height /\ firstBlock' = Watch!Height
    BY DEF Watch!Watch, Watch!chainVars
  <1>2. Watch!Height \in Nat /\ Watch!Height' = Watch!Height
    BY <1>1, LenProperties DEF WatchInv, Watch!TypeOK, Watch!Height
  <1>3. Watch!TypeOK'
    BY <1>1, <1>2 DEF WatchInv, Watch!TypeOK
  <1>4. firstBlock' .. latestBlock' - 1 = {}
    BY <1>1, <1>2
  <1>5. Watch!FoundIsFinal' /\ Watch!NothingPassedBy'
    BY <1>1, <1>4 DEF Watch!FoundIsFinal, Watch!NothingPassedBy
  <1> QED BY <1>1, <1>2, <1>3, <1>4, <1>5 DEF WatchInv

(* A block is read when it is final.                                       *)
LEMMA WatchReaches ==
    ASSUME WatchInv, Watch!WaitForBlock
    PROVE  WatchInv'
  <1>1. /\ UNCHANGED <<chain, final, watched, latestBlock, waitRetrys, wstop, connStop,
                       firstBlock, unread>>
        /\ wpc = "wait" /\ wpc' = "filter"
        /\ Watch!Height - BlockConfirmations >= latestBlock
    BY DEF Watch!WaitForBlock, Watch!Goto, Watch!chainVars, Watch!Reached
  <1>2. Watch!Height' = Watch!Height /\ \A h : Watch!Logs(h)' = Watch!Logs(h)
    BY <1>1 DEF Watch!Height, Watch!Logs
  <1>3. Watch!Height \in Nat /\ Watch!TypeOK
    BY LenProperties DEF WatchInv, Watch!TypeOK, Watch!Height
  <1>4. latestBlock <= final
    BY <1>1, <1>3, WatchConstants DEF WatchInv, Watch!TypeOK
  <1>5. Watch!TypeOK'
    BY <1>1, <1>3 DEF Watch!TypeOK
  <1>6. Watch!FoundIsFinal' /\ Watch!NothingPassedBy'
    BY <1>1, <1>2 DEF WatchInv, Watch!FoundIsFinal, Watch!NothingPassedBy, Watch!Matches
  <1> QED BY <1>1, <1>2, <1>4, <1>5, <1>6 DEF WatchInv

LEMMA WatchFilters ==
    ASSUME WatchInv, Watch!FilterLogs \/ Watch!FilterLogsFails
    PROVE  WatchInv'
  <1>1. /\ UNCHANGED <<chain, final, waitRetrys, wstop, connStop, firstBlock>>
        /\ wpc = "filter"
    BY DEF Watch!FilterLogs, Watch!FilterLogsFails, Watch!Goto, Watch!NextBlock, Watch!chainVars
  <1>2. Watch!Height' = Watch!Height /\ \A h : Watch!Logs(h)' = Watch!Logs(h)
    BY <1>1 DEF Watch!Height, Watch!Logs
  <1>3. /\ Watch!TypeOK /\ latestBlock \in Nat /\ firstBlock \in Nat /\ latestBlock <= final
        /\ watched < ExecuteBlockWatchLimit /\ watched \in Nat
    BY <1>1 DEF WatchInv, Watch!TypeOK
  <1>4. CASE /\ Watch!Matches(Watch!Logs(latestBlock)) /\ wpc' = "found"
             /\ UNCHANGED <<watched, latestBlock, unread>>
    <2>1. latestBlock \in 1 .. final
      <3>1. PICK i \in DOMAIN SC!Logs(latestBlock) : TRUE
        BY <1>4, SameChain DEF Watch!Matches
      <3>2. latestBlock \in 1 .. SC!Height
        BY <1>3, <3>1, SameChain, SC!LogsDomain
      <3> QED BY <1>3, <3>2 DEF Watch!TypeOK
    <2>2. Watch!FoundIsFinal' /\ Watch!NothingPassedBy'
      BY <1>1, <1>2, <1>4, <2>1
        DEF WatchInv, Watch!FoundIsFinal, Watch!NothingPassedBy, Watch!Matches
    <2>3. Watch!TypeOK'
      BY <1>1, <1>3, <1>4 DEF Watch!TypeOK, Watch!Returned
    <2> QED BY <1>1, <1>2, <1>3, <1>4, <2>2, <2>3 DEF WatchInv
  <1>5. CASE /\ wpc' = "loop" /\ latestBlock' = latestBlock + 1 /\ watched' = watched + 1
             /\ unread \subseteq unread' /\ unread' \subseteq Nat
             /\ Watch!Matches(Watch!Logs(latestBlock)) => latestBlock \in unread'
    <2>1. \A h \in firstBlock .. latestBlock' - 1 :
              h = latestBlock \/ h \in firstBlock .. latestBlock - 1
      BY <1>3, <1>5
    <2>2. Watch!FoundIsFinal' /\ Watch!NothingPassedBy'
      BY <1>1, <1>2, <1>5, <2>1
        DEF WatchInv, Watch!FoundIsFinal, Watch!NothingPassedBy, Watch!Matches
    <2>3. Watch!TypeOK'
      BY <1>1, <1>3, <1>5, WatchConstants DEF Watch!TypeOK
    <2>4. (\A h \in firstBlock .. latestBlock - 1 : h <= final)' /\ firstBlock' <= latestBlock'
      BY <1>1, <1>3, <1>5, <2>1 DEF WatchInv
    <2> QED BY <1>1, <1>2, <1>5, <2>2, <2>3, <2>4 DEF WatchInv
  <1>6. CASE Watch!FilterLogs
    BY <1>3, <1>4, <1>5, <1>6 DEF Watch!FilterLogs, Watch!Goto, Watch!NextBlock, Watch!TypeOK
  <1>7. CASE Watch!FilterLogsFails
    BY <1>3, <1>5, <1>7 DEF Watch!FilterLogsFails, Watch!NextBlock, Watch!TypeOK
  <1> QED BY <1>6, <1>7

LEMMA WatchStep ==
    ASSUME WatchInv, [Watch!Next]_(Watch!vars)
    PROVE  WatchInv'
  BY WatchChainStep, WatchStays, WatchStarts, WatchReaches, WatchFilters
    DEF Watch!Next, Watch!Step, Watch!Shutdown
-----------------------------------------------------------------------------
(* A set of natural numbers has a least member; hence the nonces of a pool *)
(* leave one free, at most as many nonces ahead as there are in the pool.  *)

Less == {ss \in Nat \X Nat : ss[1] < ss[2]}

LEMMA LessIsWellFounded == IsWellFoundedOn(Less, Nat)
  BY NatLessThanWellFounded DEF OpToRel, Less

LEMMA LeastNumber ==
    ASSUME NEW T \in SUBSET Nat, T # {}
    PROVE  \E m \in T : \A k \in T : m <= k
  <1>1. PICK m \in T : \A k \in T : ~(<<k, m>> \in Less)
    BY LessIsWellFounded, WFMin
  <1>2. \A i, j \in Nat : i < j => <<i, j>> \in Less
    BY DEF Less
  <1>3. \A k \in T : ~(k < m)
    BY <1>1, <1>2
  <1> QED BY <1>3

LEMMA FreeNumber ==
    ASSUME NEW a \in Nat, NEW S \in SUBSET Nat, IsFiniteSet(S)
    PROVE  /\ Cardinality(S) \in Nat
           /\ \E n \in a .. a + Cardinality(S) : n \notin S /\ a .. n - 1 \subseteq S
  <1> DEFINE I == a .. a + Cardinality(S)
             T == I \ S
  <1>1. Cardinality(S) \in Nat
    BY FS_CardinalityType
  <1>2. IsFiniteSet(I) /\ Cardinality(I) = Cardinality(S) + 1
    BY <1>1, FS_Interval
  <1>3. T # {}
    <2>1. ~(I \subseteq S)
      BY <1>1, <1>2, FS_Subset
    <2> QED BY <2>1
  <1>4. T \subseteq Nat
    BY <1>1
  <1>5. PICK n \in T : \A k \in T : n <= k
    BY <1>3, <1>4, LeastNumber
  <1>6. a .. n - 1 \subseteq S
    BY <1>1, <1>4, <1>5
  <1> QED BY <1>1, <1>5, <1>6
-----------------------------------------------------------------------------
(* The operators of FiniteSets, seen through the instance.                 *)
LEMMA SameCardinality ==
    /\ \A S : Client!IsFiniteSet(S) <=> IsFiniteSet(S)
    /\ \A S : Client!Cardinality(S) = Cardinality(S)
  <1>1. ASSUME NEW S
        PROVE  Client!IsFiniteSet(S) <=> IsFiniteSet(S)
    BY DEF Client!IsFiniteSet, IsFiniteSet
  <1>2. ASSUME NEW S
        PROVE  Client!Cardinality(S) = Cardinality(S)
    BY DEF Client!Cardinality, Cardinality
  <1> QED BY <1>1, <1>2
-----------------------------------------------------------------------------
(* The shared client.  The holder of the lock is the only one that changes *)
(* the nonce or the pool, unless a goroutine is alone; what is pending     *)
(* then has no gap.                                                        *)

Pending(n) ==
    /\ n \in Nat
    /\ n >= mined
    /\ pool = mined .. n - 1

Good == Client!Sequential \/ (\A g \in Goroutines : ~Client!Bumps(g))

Own(g) == <<cpc[g], call[g], section[g], tx[g], polls[g]>>

\* Where a goroutine is fits its program, and a locked section is locked.
Place(g) ==
    /\ cpc[g] # "begin" => ~Client!Done(g)
    /\ Client!Done(g) => section[g] = 0
    /\ ~Client!Done(g) => section[g] < Len(Client!Operation(g))
    /\ cpc[g] = "nonce" => Client!Section(g) = Client!Locked
    /\ cpc[g] = "add" => Client!Section(g) # Client!Locked
    /\ cpc[g] \in {"nonce", "send", "wait"} /\ Client!Section(g) = Client!Locked =>
           nonceLock = g

\* What the nonce is worth to a goroutine.
Nonce(g) ==
    /\ Good /\ cpc[g] = "send" => Pending(optsNonce)
    /\ Client!Sequential /\ cpc[g] = "add" => Pending(tx[g])
    /\ Client!Sequential /\ (cpc[g] = "wait" \/ (cpc[g] = "begin" /\ section[g] > 0)) =>
           Pending(optsNonce + 1)

ClientInv ==
    /\ Client!TypeOK
    /\ IsFiniteSet(pool)
    /\ \A g \in Goroutines : Place(g)
    /\ Good => \E n \in Nat : Pending(n)
    /\ \A g \in Goroutines : Nonce(g)

LEMMA ClientConstants ==
    /\ Programs \subseteq [Goroutines -> Seq(Client!Operations)]
    /\ ReceiptPolls \in Nat \ {0}
    /\ IsFiniteSet(Goroutines)
    /\ Nobody \notin Goroutines
  <1>1. Client!ClientAssumption
    BY HelpersAssumption
  <1> QED BY <1>1, SameCardinality DEF Client!ClientAssumption

LEMMA OperationFacts ==
    ASSUME NEW o \in Client!Operations
    PROVE  /\ Len(o) \in 1 .. 4
           /\ o[1] = Client!Locked
           /\ o # Client!FundErc20Handler => \A i \in 1 .. Len(o) : o[i] = Client!Locked
  BY DEF Client!Operations, Client!RegisterResource, Client!DeployMintApproveErc20,
     Client!DeployAndMintErc20, Client!Erc20AddMinter, Client!FundErc20Handler,
     Client!Erc721Mint, Client!FundErc721Handler, Client!DeployAssetStore,
     Client!DeployContracts, Client!Locked

LEMMA ProgramType ==
    ASSUME Client!TypeOK, NEW g \in Goroutines
    PROVE  /\ program[g] \in Seq(Client!Operations)
           /\ Len(program[g]) \in Nat /\ DOMAIN program[g] = 1 .. Len(program[g])
           /\ call[g] \in Nat /\ call[g] <= Len(program[g])
           /\ ~Client!Done(g) => /\ call[g] < Len(program[g])
                                 /\ Client!Operation(g) \in Client!Operations
                                 /\ program[g] # << >>
  <1>1. program[g] \in Seq(Client!Operations)
    BY ClientConstants DEF Client!TypeOK
  <1>2. Len(program[g]) \in Nat /\ DOMAIN program[g] = 1 .. Len(program[g])
    BY <1>1, LenProperties
  <1>3. call[g] \in Nat /\ call[g] <= Len(program[g])
    BY DEF Client!TypeOK
  <1>4. ASSUME ~Client!Done(g)
        PROVE  /\ call[g] < Len(program[g])
               /\ Client!Operation(g) \in Client!Operations
               /\ program[g] # << >>
    <2>1. call[g] < Len(program[g]) /\ call[g] + 1 \in 1 .. Len(program[g])
      BY <1>2, <1>3, <1>4 DEF Client!Done
    <2>2. Client!Operation(g) \in Client!Operations
      BY <1>1, <2>1, ElementOfSeq DEF Client!Operation
    <2>3. Len(<< >>) = 0
      OBVIOUS
    <2> QED BY <1>2, <2>1, <2>2, <2>3
  <1> QED BY <1>1, <1>2, <1>3, <1>4

(* Without a bump every section is a locked one.                           *)
LEMMA LockedSections ==
    ASSUME ClientInv, \A g \in Goroutines : ~Client!Bumps(g),
           NEW g \in Goroutines, ~Client!Done(g)
    PROVE  Client!Section(g) = Client!Locked
  <1>1. call[g] + 1 \in DOMAIN program[g] /\ Client!Operation(g) \in Client!Operations
    BY ProgramType DEF ClientInv
  <1>2. Client!Operation(g) # Client!FundErc20Handler
    BY <1>1 DEF Client!Bumps, Client!Operation
  <1>3. section[g] \in Nat /\ section[g] < Len(Client!Operation(g))
    <2>1. section \in [Goroutines -> 0 .. 3] /\ Place(g)
      BY DEF ClientInv, Client!TypeOK
    <2>2. section[g] \in 0 .. 3
      BY <2>1
    <2>3. section[g] < Len(Client!Operation(g))
      BY <2>1 DEF Place
    <2> QED BY <2>2, <2>3
  <1> QED BY <1>1, <1>2, <1>3, OperationFacts DEF Client!Section

(* A sequential program has one goroutine that is not done.                *)
LEMMA OneRuns ==
    ASSUME ClientInv, Client!Sequential, NEW g \in Goroutines, NEW h \in Goroutines,
           ~Client!Done(g), ~Client!Done(h)
    PROVE  g = h
  <1> DEFINE S == {k \in Goroutines : program[k] # << >>}
  <1>1. g \in S /\ h \in S
    BY ProgramType DEF ClientInv
  <1>2. IsFiniteSet(S) /\ Cardinality(S) \in Nat /\ Cardinality(S) <= 1
    BY ClientConstants, SameCardinality, FS_Subset, FS_CardinalityType
       DEF Client!Sequential
  <1>3. Cardinality(S) = 1
    BY <1>1, <1>2, FS_EmptySet
  <1>4. PICK x : S = {x}
    BY <1>2, <1>3, FS_Singleton
  <1> QED BY <1>1, <1>4

(* PendingNonceAt.                                                         *)
LEMMA PendingNonceType ==
    ASSUME Client!TypeOK, IsFiniteSet(pool)
    PROVE  /\ Client!PendingNonce \in Nat
           /\ Client!PendingNonce >= mined
           /\ Client!PendingNonce \notin pool
           /\ mined .. Client!PendingNonce - 1 \subseteq pool
  <1>1. mined \in Nat /\ pool \subseteq Nat
    BY DEF Client!TypeOK
  <1>2. /\ Cardinality(pool) \in Nat
        /\ \E n \in mined .. mined + Cardinality(pool) : n \notin pool /\ mined .. n - 1 \subseteq pool
    BY <1>1, FreeNumber
  <1>3. /\ Client!PendingNonce \in mined .. mined + Cardinality(pool)
        /\ Client!PendingNonce \notin pool
        /\ mined .. Client!PendingNonce - 1 \subseteq pool
    BY <1>2, SameCardinality DEF Client!PendingNonce
  <1> QED BY <1>1, <1>2, <1>3

LEMMA PendingIsPendingNonce ==
    ASSUME Client!TypeOK, IsFiniteSet(pool), NEW n, Pending(n)
    PROVE  n = Client!PendingNonce
  <1>1. mined \in Nat /\ n \in Nat /\ n >= mined /\ pool = mined .. n - 1
    BY DEF Client!TypeOK, Pending
  <1>2. /\ Client!PendingNonce \in Nat
        /\ Client!PendingNonce >= mined
        /\ Client!PendingNonce \notin pool
        /\ mined .. Client!PendingNonce - 1 \subseteq pool
    BY PendingNonceType
  <1>3. ~(Client!PendingNonce < n)
    BY <1>1, <1>2
  <1>4. ~(n < Client!PendingNonce)
    <2>1. n < Client!PendingNonce => n \in mined .. Client!PendingNonce - 1
      BY <1>1, <1>2
    <2> QED BY <1>1, <1>2, <2>1
  <1> QED BY <1>1, <1>2, <1>3, <1>4
-----------------------------------------------------------------------------
LEMMA ClientBegins ==
    ASSUME Client!Init
    PROVE  ClientInv
  <1>1. Client!TypeOK
    <2>1. program \in [Goroutines -> Seq(Client!Operations)]
      BY ClientConstants DEF Client!Init
    <2>2. ASSUME NEW g \in Goroutines
          PROVE  0 <= Len(program[g])
      BY <2>1, LenProperties
    <2> QED BY <2>2, ClientConstants DEF Client!Init, Client!TypeOK, Client!Pcs
  <1>2. IsFiniteSet(pool)
    BY FS_EmptySet DEF Client!Init
  <1>3. ASSUME NEW g \in Goroutines
        PROVE  Place(g) /\ Nonce(g)
    <2>1. cpc[g] = "begin" /\ section[g] = 0
      BY DEF Client!Init
    <2>2. ~Client!Done(g) => Len(Client!Operation(g)) \in 1 .. 4
      BY <1>1, ProgramType, OperationFacts
    <2>3. \A l \in 1 .. 4 : 0 < l
      OBVIOUS
    <2>4. ~Client!Done(g) => section[g] < Len(Client!Operation(g))
      BY <2>1, <2>2, <2>3
    <2> QED BY <2>1, <2>4 DEF Place, Nonce
  <1>4. Pending(0)
    BY DEF Client!Init, Pending
  <1>5. \E n \in Nat : Pending(n)
    BY <1>4
  <1> QED BY <1>1, <1>2, <1>3, <1>5 DEF ClientInv

(* What a step of one goroutine leaves alone.                              *)
LEMMA ClientFrame ==
    ASSUME ClientInv, NEW g \in Goroutines, Client!Step(g)
    PROVE  /\ program' = program
           /\ ~Client!Done(g)
           /\ mined' = mined
           /\ \A h \in Goroutines \ {g} : Own(h)' = Own(h)
  <1>1. program' = program /\ Client!TypeOK /\ Place(g)
    BY DEF Client!Step, ClientInv
  <1>2. ~Client!Done(g) /\ mined' = mined
    BY <1>1 DEF Client!Step, Place, Client!LockNonce, Client!UpdateNonce,
       Client!UpdateNonceFails, Client!ReadNonce, Client!WriteNonce, Client!Send,
       Client!SendFails, Client!Receipt, Client!NotFound, Client!ReceiptFails,
       Client!chainVars
  <1>3. ASSUME NEW h \in Goroutines \ {g}, NEW f, NEW v
        PROVE  [f EXCEPT ![g] = v][h] = f[h]
    <2>1. h # g
      OBVIOUS
    <2> QED BY <2>1
  <1>4. /\ cpc \in [Goroutines -> Client!Pcs]
        /\ call \in [Goroutines -> Nat]
        /\ section \in [Goroutines -> 0 .. 3]
        /\ tx \in [Goroutines -> Nat]
        /\ polls \in [Goroutines -> 0 .. ReceiptPolls - 1]
    BY <1>1 DEF Client!TypeOK
  <1>5. ASSUME NEW h \in Goroutines \ {g}, NEW how, Client!SectionEnds(g, how)
        PROVE  Own(h)' = Own(h)
    BY <1>4, <1>5 DEF Client!SectionEnds, Client!Goto, Own
  <1>6. ASSUME NEW h \in Goroutines \ {g}, NEW label, Client!Goto(g, label)
        PROVE  cpc'[h] = cpc[h]
    BY <1>4, <1>6 DEF Client!Goto
  <1>7. ASSUME NEW h \in Goroutines \ {g}
        PROVE  Own(h)' = Own(h)
    <2>1. CASE Client!LockNonce(g)
      BY <1>6, <2>1 DEF Client!LockNonce, Own
    <2>2. CASE Client!UpdateNonce(g)
      BY <1>6, <2>2 DEF Client!UpdateNonce, Own
    <2>3. CASE Client!UpdateNonceFails(g)
      BY <1>5, <2>3 DEF Client!UpdateNonceFails
    <2>4. CASE Client!ReadNonce(g)
      BY <1>4, <1>6, <2>4 DEF Client!ReadNonce, Own
    <2>5. CASE Client!WriteNonce(g)
      BY <1>6, <2>5 DEF Client!WriteNonce, Own
    <2>6. CASE Client!Send(g)
      BY <1>4, <1>6, <2>6 DEF Client!Send, Own
    <2>7. CASE Client!SendFails(g)
      BY <1>5, <2>7 DEF Client!SendFails, Client!ReturnError
    <2>8. CASE Client!Receipt(g)
      BY <1>5, <2>8 DEF Client!Receipt, Client!ReturnError, Client!Return
    <2>9. CASE Client!NotFound(g)
      <3>1. CASE polls[g] + 1 < ReceiptPolls
        BY <1>4, <2>9, <3>1 DEF Client!NotFound, Own
      <3>2. CASE ~(polls[g] + 1 < ReceiptPolls)
        BY <1>5, <2>9, <3>2 DEF Client!NotFound, Client!Return
      <3> QED BY <3>1, <3>2
    <2>10. CASE Client!ReceiptFails(g)
      BY <1>5, <2>10 DEF Client!ReceiptFails, Client!ReturnError
    <2> QED BY <2>1, <2>2, <2>3, <2>4, <2>5, <2>6, <2>7, <2>8, <2>9, <2>10
            DEF Client!Step
  <1> QED BY <1>1, <1>2, <1>7

(* A section that ends.                                                    *)
LEMMA SectionEndsTypes ==
    ASSUME ClientInv, NEW g \in Goroutines, ~Client!Done(g), program' = program,
           NEW how, Client!SectionEnds(g, how)
    PROVE  /\ cpc' \in [Goroutines -> Client!Pcs]
           /\ call' \in [Goroutines -> Nat]
           /\ \A h \in Goroutines : call'[h] <= Len(program'[h])
           /\ section' \in [Goroutines -> 0 .. 3]
           /\ tx' \in [Goroutines -> Nat]
           /\ polls' \in [Goroutines -> 0 .. ReceiptPolls - 1]
           /\ Place(g)'
           /\ cpc'[g] = "begin"
           /\ how = "error" => section'[g] = 0
  <1>1. Client!TypeOK /\ Place(g)
    BY DEF ClientInv
  <1>2. /\ cpc \in [Goroutines -> Client!Pcs]
        /\ call \in [Goroutines -> Nat]
        /\ section \in [Goroutines -> 0 .. 3]
        /\ tx \in [Goroutines -> Nat]
        /\ polls \in [Goroutines -> 0 .. ReceiptPolls - 1]
        /\ ReceiptPolls \in Nat \ {0}
    BY <1>1, ClientConstants DEF Client!TypeOK
  <1>3. /\ cpc' = [cpc EXCEPT ![g] = "begin"]
        /\ tx' = [tx EXCEPT ![g] = 0]
        /\ polls' = [polls EXCEPT ![g] = 0]
    BY DEF Client!SectionEnds, Client!Goto
  <1>4. /\ cpc' \in [Goroutines -> Client!Pcs]
        /\ tx' \in [Goroutines -> Nat]
        /\ polls' \in [Goroutines -> 0 .. ReceiptPolls - 1]
        /\ cpc'[g] = "begin"
    <2>1. "begin" \in Client!Pcs /\ 0 \in Nat /\ 0 \in 0 .. ReceiptPolls - 1
      BY <1>2 DEF Client!Pcs
    <2>2. cpc' \in [Goroutines -> Client!Pcs] /\ cpc'[g] = "begin"
      BY <1>2, <1>3, <2>1
    <2>3. tx' \in [Goroutines -> Nat]
      BY <1>2, <1>3, <2>1
    <2>4. polls' \in [Goroutines -> 0 .. ReceiptPolls - 1]
      BY <1>2, <1>3, <2>1
    <2> QED BY <2>2, <2>3, <2>4
  <1>5. /\ Len(program[g]) \in Nat /\ call[g] \in Nat
        /\ call[g] < Len(program[g])
        /\ Client!Operation(g) \in Client!Operations
    BY <1>1, ProgramType
  <1>6. Len(Client!Operation(g)) \in 1 .. 4
    BY <1>5, OperationFacts
  <1>7. section[g] \in 0 .. 3 /\ section[g] < Len(Client!Operation(g))
    BY <1>1, <1>2 DEF Place
  <1>8. \A h \in Goroutines : call[h] <= Len(program[h])
    BY <1>1 DEF Client!TypeOK
  <1>9. CASE how = "error" \/ section[g] + 1 = Len(Client!Operation(g))
    <2>1. call' = [call EXCEPT ![g] = @ + 1] /\ section' = [section EXCEPT ![g] = 0]
      BY <1>9 DEF Client!SectionEnds
    <2>2. /\ call[g] + 1 \in Nat /\ call[g] + 1 <= Len(program[g])
          /\ 0 \in 0 .. 3
      BY <1>5
    <2>3. section' \in [Goroutines -> 0 .. 3] /\ section'[g] = 0
      BY <1>2, <2>1, <2>2
    <2>4. call' \in [Goroutines -> Nat] /\ call'[g] = call[g] + 1
      BY <1>2, <2>1, <2>2
    <2>5. ASSUME NEW h \in Goroutines
          PROVE  call'[h] <= Len(program'[h])
      <3>1. CASE h = g
        BY <2>2, <2>4, <3>1
      <3>2. CASE h # g
        BY <1>2, <1>8, <2>1, <3>2
      <3> QED BY <3>1, <3>2
    <2>6. ASSUME ~Client!Done(g)'
          PROVE  0 < Len(Client!Operation(g))'
      <3>1. call'[g] + 1 \in 1 .. Len(program[g])
        BY <1>5, <2>2, <2>4, <2>6 DEF Client!Done
      <3>2. program[g] \in Seq(Client!Operations)
        BY <1>1, ProgramType
      <3>3. program[g][call'[g] + 1] \in Client!Operations
        BY <3>1, <3>2, ElementOfSeq
      <3>4. Len(program[g][call'[g] + 1]) \in 1 .. 4
        BY <3>3, OperationFacts
      <3>5. Client!Operation(g)' = program[g][call'[g] + 1]
        BY DEF Client!Operation
      <3>6. \A l \in 1 .. 4 : 0 < l
        OBVIOUS
      <3> QED BY <3>4, <3>5, <3>6
    <2>7. Place(g)'
      BY <1>4, <2>3, <2>6 DEF Place
    <2> QED BY <1>4, <2>3, <2>4, <2>5, <2>7
  <1>10. CASE ~(how = "error" \/ section[g] + 1 = Len(Client!Operation(g)))
    <2>1. call' = call /\ section' = [section EXCEPT ![g] = @ + 1]
      BY <1>10 DEF Client!SectionEnds
    <2>2. section[g] + 1 \in 0 .. 3 /\ section[g] + 1 < Len(Client!Operation(g))
      <3>1. \A s \in 0 .. 3 : \A l \in 1 .. 4 :
                s < l /\ s + 1 # l => s + 1 \in 0 .. 3 /\ s + 1 < l
        OBVIOUS
      <3> QED BY <1>6, <1>7, <1>10, <3>1
    <2>3. section' \in [Goroutines -> 0 .. 3] /\ section'[g] = section[g] + 1
      BY <1>2, <2>1, <2>2
    <2>4. Client!Operation(g)' = Client!Operation(g) /\ ~Client!Done(g)'
      BY <2>1 DEF Client!Operation, Client!Done
    <2>5. Place(g)'
      <3>1. section'[g] < Len(Client!Operation(g)')
        BY <2>2, <2>3, <2>4
      <3> QED BY <1>4, <2>4, <3>1 DEF Place
    <2> QED BY <1>2, <1>4, <1>8, <1>10, <2>1, <2>3, <2>5
  <1> QED BY <1>9, <1>10

(* An entry of a function that a step sets.                                *)
LEMMA SetsEntry ==
    ASSUME NEW S, NEW T, NEW f \in [S -> T], NEW s \in S, NEW v \in T
    PROVE  [f EXCEPT ![s] = v] \in [S -> T] /\ [f EXCEPT ![s] = v][s] = v
  OBVIOUS

LEMMA GotoTypes ==
    ASSUME Client!TypeOK, NEW g \in Goroutines, NEW label \in Client!Pcs,
           Client!Goto(g, label)
    PROVE  cpc' \in [Goroutines -> Client!Pcs] /\ cpc'[g] = label
  BY SetsEntry DEF Client!TypeOK, Client!Goto

LEMMA ClientTypes ==
    ASSUME ClientInv, NEW g \in Goroutines, Client!Step(g)
    PROVE  Client!TypeOK' /\ IsFiniteSet(pool')
  <1>1. Client!TypeOK /\ Place(g) /\ program' = program /\ ~Client!Done(g) /\ IsFiniteSet(pool)
    BY ClientFrame DEF ClientInv
  <1>2. {"begin", "nonce", "add", "send", "wait"} \subseteq Client!Pcs
    BY DEF Client!Pcs
  <1>3. Client!PendingNonce \in Nat
    BY <1>1, PendingNonceType
  <1>4. ReceiptPolls \in Nat \ {0}
    BY ClientConstants
  <1>5. CASE Client!LockNonce(g)
    BY <1>1, <1>2, <1>5, GotoTypes
       DEF Client!LockNonce, Client!TypeOK, Client!chainVars
  <1>6. CASE Client!UpdateNonce(g)
    BY <1>1, <1>2, <1>3, <1>6, GotoTypes
       DEF Client!UpdateNonce, Client!TypeOK, Client!chainVars
  <1>7. CASE Client!UpdateNonceFails(g)
    BY <1>1, <1>7, SectionEndsTypes
       DEF Client!UpdateNonceFails, Client!TypeOK, Client!chainVars
  <1>8. CASE Client!ReadNonce(g)
    <2>1. optsNonce + 1 \in Nat
      BY <1>1 DEF Client!TypeOK
    <2>2. tx' \in [Goroutines -> Nat]
      BY <1>1, <1>8, <2>1, SetsEntry DEF Client!ReadNonce, Client!TypeOK
    <2> QED BY <1>1, <1>2, <1>8, <2>2, GotoTypes
            DEF Client!ReadNonce, Client!TypeOK, Client!chainVars
  <1>9. CASE Client!WriteNonce(g)
    <2>1. tx[g] \in Nat
      BY <1>1 DEF Client!TypeOK
    <2> QED BY <1>1, <1>2, <1>9, <2>1, GotoTypes
            DEF Client!WriteNonce, Client!TypeOK, Client!chainVars
  <1>10. CASE Client!Send(g)
    <2>1. tx' \in [Goroutines -> Nat]
      BY <1>1, <1>10, SetsEntry DEF Client!Send, Client!TypeOK
    <2>2. pool' \subseteq Nat /\ IsFiniteSet(pool')
      BY <1>1, <1>10, FS_AddElement DEF Client!Send, Client!TypeOK
    <2> QED BY <1>1, <1>2, <1>10, <2>1, <2>2, GotoTypes DEF Client!Send, Client!TypeOK
  <1>11. CASE Client!SendFails(g)
    <2>1. pool' = pool \/ pool' = pool \cup {optsNonce}
      BY <1>11 DEF Client!SendFails
    <2>2. pool' \subseteq Nat /\ IsFiniteSet(pool')
      <3>1. pool \subseteq Nat /\ optsNonce \in Nat /\ IsFiniteSet(pool)
        BY <1>1 DEF Client!TypeOK
      <3>2. IsFiniteSet(pool \cup {optsNonce})
        BY <3>1, FS_AddElement
      <3> QED BY <2>1, <3>1, <3>2
    <2>3. leaked' \in {"no", "yes"}
      BY <1>1, <1>11 DEF Client!SendFails, Client!ReturnError, Client!TypeOK
    <2>4. UNCHANGED <<mined, reverted, nonceLock, optsNonce>>
      BY <1>11 DEF Client!SendFails, Client!ReturnError
    <2>5. Client!SectionEnds(g, "error")
      BY <1>11 DEF Client!SendFails, Client!ReturnError
    <2> QED BY <1>1, <2>2, <2>3, <2>4, <2>5, SectionEndsTypes DEF Client!TypeOK
  <1>12. ASSUME Client!ReturnError(g), UNCHANGED Client!chainVars
         PROVE  Client!TypeOK' /\ IsFiniteSet(pool')
    <2>1. leaked' \in {"no", "yes"}
      BY <1>1, <1>12 DEF Client!ReturnError, Client!TypeOK
    <2>2. UNCHANGED <<mined, pool, reverted, nonceLock, optsNonce>>
      BY <1>12 DEF Client!ReturnError, Client!chainVars
    <2>3. Client!SectionEnds(g, "error")
      BY <1>12 DEF Client!ReturnError
    <2> QED BY <1>1, <2>1, <2>2, <2>3, SectionEndsTypes DEF Client!TypeOK
  <1>13. ASSUME NEW how, Client!Return(g, how), UNCHANGED Client!chainVars
         PROVE  Client!TypeOK' /\ IsFiniteSet(pool')
    <2>1. nonceLock' \in Goroutines \cup {Nobody}
      BY <1>1, <1>13 DEF Client!Return, Client!TypeOK
    <2>2. UNCHANGED <<mined, pool, reverted, leaked, optsNonce>>
      BY <1>13 DEF Client!Return, Client!chainVars
    <2>3. Client!SectionEnds(g, how)
      BY <1>13 DEF Client!Return
    <2> QED BY <1>1, <2>1, <2>2, <2>3, SectionEndsTypes DEF Client!TypeOK
  <1>14. CASE Client!Receipt(g)
    BY <1>12, <1>13, <1>14 DEF Client!Receipt
  <1>15. CASE Client!NotFound(g)
    <2>1. CASE polls[g] + 1 < ReceiptPolls
      <3>1. polls \in [Goroutines -> 0 .. ReceiptPolls - 1]
        BY <1>1 DEF Client!TypeOK
      <3>2. polls[g] + 1 \in 0 .. ReceiptPolls - 1
        BY <1>4, <2>1, <3>1
      <3>3. polls' \in [Goroutines -> 0 .. ReceiptPolls - 1]
        BY <1>15, <2>1, <3>1, <3>2, SetsEntry DEF Client!NotFound
      <3>4. UNCHANGED <<program, cpc, call, section, tx, nonceLock, optsNonce, leaked,
                mined, pool, reverted>>
        BY <1>1, <1>15, <2>1 DEF Client!NotFound, Client!chainVars
      <3> QED BY <1>1, <3>3, <3>4 DEF Client!TypeOK
    <2>2. CASE ~(polls[g] + 1 < ReceiptPolls)
      BY <1>13, <1>15, <2>2 DEF Client!NotFound
    <2> QED BY <2>1, <2>2
  <1>16. CASE Client!ReceiptFails(g)
    BY <1>12, <1>16 DEF Client!ReceiptFails
  <1> QED BY <1>5, <1>6, <1>7, <1>8, <1>9, <1>10, <1>11, <1>14, <1>15, <1>16
          DEF Client!Step

(* The lock of another goroutine is kept.                                  *)
LEMMA LockKept ==
    ASSUME ClientInv, NEW g \in Goroutines, Client!Step(g), NEW h \in Goroutines \ {g},
           nonceLock = h
    PROVE  nonceLock' = h
  <1>1. Place(g) /\ h # Nobody
    BY ClientConstants DEF ClientInv
  <1>2. ~(cpc[g] \in {"nonce", "send", "wait"} /\ Client!Section(g) = Client!Locked)
    BY <1>1 DEF Place
  <1>3. cpc[g] # "nonce"
    BY <1>1, <1>2 DEF Place
  <1> QED BY <1>1, <1>2, <1>3 DEF Client!Step, Client!LockNonce, Client!LockIsFree,
          Client!UpdateNonce, Client!UpdateNonceFails, Client!ReadNonce,
          Client!WriteNonce, Client!Send, Client!SendFails, Client!Receipt,
          Client!NotFound, Client!ReceiptFails, Client!Return, Client!ReturnError

(* Where nobody bumps, the holder of the lock decides over nonce and pool. *)
LEMMA ChainKept ==
    ASSUME ClientInv, NEW g \in Goroutines, Client!Step(g), NEW h \in Goroutines \ {g},
           nonceLock = h, \A k \in Goroutines : ~Client!Bumps(k)
    PROVE  optsNonce' = optsNonce /\ pool' = pool
  <1>1. Place(g) /\ ~Client!Done(g)
    BY ClientFrame DEF ClientInv
  <1>2. Client!Section(g) = Client!Locked
    BY <1>1, LockedSections
  <1>3. cpc[g] \notin {"nonce", "send", "wait", "add"}
    BY <1>1, <1>2 DEF Place
  <1> QED BY <1>3 DEF Client!Step, Client!LockNonce, Client!chainVars,
          Client!UpdateNonce, Client!UpdateNonceFails, Client!ReadNonce,
          Client!WriteNonce, Client!Send, Client!SendFails, Client!Receipt,
          Client!NotFound, Client!ReceiptFails

LEMMA PlaceStep ==
    ASSUME ClientInv, NEW g \in Goroutines, Client!Step(g), NEW h \in Goroutines
    PROVE  Place(h)'
  <1>1. /\ program' = program /\ ~Client!Done(g) /\ Place(g) /\ Place(h)
        /\ Client!TypeOK /\ Client!TypeOK'
        /\ \A k \in Goroutines \ {g} : Own(k)' = Own(k)
    BY ClientFrame, ClientTypes DEF ClientInv
  <1>2. CASE h # g
    <2>1. Own(h)' = Own(h)
      BY <1>1, <1>2
    <2>2. /\ cpc'[h] = cpc[h] /\ call'[h] = call[h] /\ section'[h] = section[h]
      BY <2>1 DEF Own
    <2>3. /\ Client!Done(h)' = Client!Done(h)
          /\ Client!Operation(h)' = Client!Operation(h)
          /\ Client!Section(h)' = Client!Section(h)
      BY <1>1, <2>2 DEF Client!Done, Client!Operation, Client!Section
    <2>4. nonceLock = h => nonceLock' = h
      BY <1>2, LockKept
    <2> QED BY <1>1, <2>2, <2>3, <2>4 DEF Place
  <1>3. CASE h = g
    <2> SUFFICES Place(g)'
      BY <1>3
    <2>1. ASSUME UNCHANGED <<call, section>>
          PROVE  /\ Client!Done(g)' = Client!Done(g)
                 /\ Client!Operation(g)' = Client!Operation(g)
                 /\ Client!Section(g)' = Client!Section(g)
                 /\ section'[g] = section[g]
      BY <1>1, <2>1 DEF Client!Done, Client!Operation, Client!Section
    <2>2. \A label \in Client!Pcs : Client!Goto(g, label) => cpc'[g] = label
      BY <1>1, GotoTypes
    <2>3. {"begin", "nonce", "add", "send", "wait"} \subseteq Client!Pcs
      BY DEF Client!Pcs
    <2>4. \A how : Client!SectionEnds(g, how) => Place(g)'
      BY <1>1, SectionEndsTypes
    <2>5. CASE Client!LockNonce(g)
      <3>1. /\ UNCHANGED <<call, section>> /\ nonceLock' = g /\ cpc'[g] = "nonce"
            /\ Client!Section(g) = Client!Locked
        BY <2>2, <2>3, <2>5 DEF Client!LockNonce
      <3> QED BY <1>1, <2>1, <3>1 DEF Place
    <2>6. CASE Client!UpdateNonce(g)
      <3>1. /\ UNCHANGED <<call, section, nonceLock>> /\ cpc'[g] = "send"
            /\ cpc[g] = "nonce"
        BY <2>2, <2>3, <2>6 DEF Client!UpdateNonce
      <3> QED BY <1>1, <2>1, <3>1 DEF Place
    <2>7. CASE Client!ReadNonce(g)
      <3>1. /\ UNCHANGED <<call, section, nonceLock>> /\ cpc'[g] = "add"
            /\ Client!Section(g) # Client!Locked
        BY <2>2, <2>3, <2>7 DEF Client!ReadNonce
      <3> QED BY <1>1, <2>1, <3>1 DEF Place
    <2>8. CASE Client!WriteNonce(g)
      <3>1. /\ UNCHANGED <<call, section, nonceLock>> /\ cpc'[g] = "send"
            /\ cpc[g] = "add"
        BY <2>2, <2>3, <2>8 DEF Client!WriteNonce
      <3> QED BY <1>1, <2>1, <3>1 DEF Place
    <2>9. CASE Client!Send(g)
      <3>1. /\ UNCHANGED <<call, section, nonceLock>> /\ cpc'[g] = "wait"
            /\ cpc[g] = "send"
        BY <2>2, <2>3, <2>9 DEF Client!Send
      <3> QED BY <1>1, <2>1, <3>1 DEF Place
    <2>10. CASE Client!NotFound(g)
      <3>1. CASE polls[g] + 1 < ReceiptPolls
        <4>1. UNCHANGED <<cpc, call, section, nonceLock>>
          BY <2>10, <3>1 DEF Client!NotFound
        <4> QED BY <1>1, <2>1, <4>1 DEF Place
      <3>2. CASE ~(polls[g] + 1 < ReceiptPolls)
        BY <2>4, <2>10, <3>2 DEF Client!NotFound, Client!Return
      <3> QED BY <3>1, <3>2
    <2>11. CASE \/ Client!UpdateNonceFails(g) \/ Client!SendFails(g)
                \/ Client!Receipt(g) \/ Client!ReceiptFails(g)
      BY <2>4, <2>11 DEF Client!UpdateNonceFails, Client!SendFails, Client!Receipt,
         Client!ReceiptFails, Client!ReturnError, Client!Return
    <2> QED BY <2>5, <2>6, <2>7, <2>8, <2>9, <2>10, <2>11 DEF Client!Step
  <1> QED BY <1>2, <1>3

LEMMA GoodStays ==
    ASSUME program' = program
    PROVE  /\ Good' <=> Good
           /\ Client!Sequential' <=> Client!Sequential
  BY DEF Good, Client!Sequential, Client!Bumps

\* What stays pending, and what does not any more once it is sent.
LEMMA PendingStays ==
    ASSUME ClientInv, mined' = mined, pool' = pool, NEW n, Pending(n)
    PROVE  n \in Nat /\ n >= mined' /\ pool' = mined' .. n - 1
  BY DEF Pending

LEMMA PendingSent ==
    ASSUME ClientInv, mined' = mined, NEW n, Pending(n), pool' = pool \cup {n}
    PROVE  /\ n + 1 \in Nat /\ n + 1 >= mined' /\ pool' = mined' .. n + 1 - 1
           /\ \E m \in Nat : m >= mined' /\ pool' = mined' .. m - 1
  <1>1. mined \in Nat /\ n \in Nat /\ n >= mined /\ pool = mined .. n - 1
    BY DEF Pending, ClientInv, Client!TypeOK
  <1>2. (mined .. n - 1) \cup {n} = mined .. n + 1 - 1
    BY <1>1
  <1>3. n + 1 \in Nat /\ n + 1 >= mined' /\ pool' = mined' .. n + 1 - 1
    BY <1>1, <1>2
  <1>4. \E m \in Nat : m >= mined' /\ pool' = mined' .. m - 1
    <2>1. PICK m \in Nat : m = n + 1
      BY <1>1
    <2>2. m >= mined' /\ pool' = mined' .. m - 1
      BY <1>3, <2>1
    <2> QED BY <2>2
  <1> QED BY <1>3, <1>4

\* The nonce of the goroutines that do nothing.
LEMMA NonceOfOthers ==
    ASSUME ClientInv, NEW g \in Goroutines, Client!Step(g), NEW h \in Goroutines \ {g}
    PROVE  Nonce(h)'
  <1>1. /\ program' = program /\ ~Client!Done(g) /\ Place(h) /\ Nonce(h)
        /\ mined' = mined /\ Own(h)' = Own(h)
    BY ClientFrame DEF ClientInv
  <1>2. cpc'[h] = cpc[h] /\ section'[h] = section[h] /\ tx'[h] = tx[h]
    BY <1>1 DEF Own
  <1>3. (Good' <=> Good) /\ (Client!Sequential' <=> Client!Sequential)
    BY <1>1, GoodStays
  <1>4. CASE Client!Sequential
    <2>1. Client!Done(h)
      BY <1>1, <1>4, OneRuns
    <2>2. cpc[h] = "begin" /\ section[h] = 0
      BY <1>1, <2>1 DEF Place
    <2> QED BY <1>2, <2>2 DEF Nonce
  <1>5. CASE ~Client!Sequential
    <2>1. ASSUME Good, cpc[h] = "send"
          PROVE  Pending(optsNonce)'
      <3>1. \A k \in Goroutines : ~Client!Bumps(k)
        BY <1>5, <2>1 DEF Good
      <3>2. ~Client!Done(h)
        BY <1>1, <2>1 DEF Place
      <3>3. nonceLock = h
        BY <1>1, <2>1, <3>1, <3>2, LockedSections DEF Place
      <3>4. optsNonce' = optsNonce /\ pool' = pool
        BY <3>1, <3>3, ChainKept
      <3>5. Pending(optsNonce)
        BY <1>1, <2>1 DEF Nonce
      <3> QED BY <1>1, <3>4, <3>5 DEF Pending
    <2> QED BY <1>2, <1>3, <1>5, <2>1 DEF Nonce
  <1> QED BY <1>4, <1>5

\* The nonce of the goroutine that does a step.
LEMMA NonceOfOne ==
    ASSUME ClientInv, NEW g \in Goroutines, Client!Step(g)
    PROVE  Nonce(g)' /\ (Good => (\E n \in Nat : Pending(n))')
  <1>1. /\ program' = program /\ ~Client!Done(g) /\ Place(g) /\ Nonce(g)
        /\ mined' = mined /\ Client!TypeOK /\ IsFiniteSet(pool)
    BY ClientFrame DEF ClientInv
  <1>2. (Good' <=> Good) /\ (Client!Sequential' <=> Client!Sequential)
    BY <1>1, GoodStays
  <1>3. Good => \E n \in Nat : Pending(n)
    BY DEF ClientInv
  <1>4. ASSUME pool' = pool
        PROVE  /\ Good => (\E n \in Nat : Pending(n))'
               /\ \A n : Pending(n) => n \in Nat /\ n >= mined' /\ pool' = mined' .. n - 1
    BY <1>1, <1>3, <1>4, PendingStays DEF Pending
  <1>5. \A label \in Client!Pcs : Client!Goto(g, label) => cpc'[g] = label
    BY <1>1, GotoTypes
  <1>6. {"begin", "nonce", "add", "send", "wait"} \subseteq Client!Pcs
    BY DEF Client!Pcs
  <1>7. Client!SectionEnds(g, "error") => cpc'[g] = "begin" /\ section'[g] = 0
    BY <1>1, SectionEndsTypes
  <1>8. \A how : Client!SectionEnds(g, how) => cpc'[g] = "begin"
    BY <1>1, SectionEndsTypes
  <1>9. CASE Client!LockNonce(g)
    <2>1. pool' = pool /\ cpc'[g] = "nonce"
      BY <1>5, <1>6, <1>9 DEF Client!LockNonce, Client!chainVars
    <2> QED BY <1>4, <2>1 DEF Nonce
  <1>10. CASE Client!UpdateNonce(g)
    <2>1. pool' = pool /\ cpc'[g] = "send" /\ optsNonce' = Client!PendingNonce
      BY <1>5, <1>6, <1>10 DEF Client!UpdateNonce, Client!chainVars
    <2>2. Good => Pending(optsNonce')
      BY <1>1, <1>3, <2>1, PendingIsPendingNonce
    <2>3. Good => Pending(optsNonce)'
      BY <1>1, <2>1, <2>2 DEF Pending
    <2> QED BY <1>2, <1>4, <2>1, <2>3 DEF Nonce
  <1>11. CASE Client!UpdateNonceFails(g)
    <2>1. pool' = pool /\ cpc'[g] = "begin" /\ section'[g] = 0
      BY <1>7, <1>11 DEF Client!UpdateNonceFails, Client!chainVars
    <2> QED BY <1>4, <2>1 DEF Nonce
  <1>12. CASE Client!ReadNonce(g)
    <2>1. /\ pool' = pool /\ cpc'[g] = "add" /\ tx' = [tx EXCEPT ![g] = optsNonce + 1]
          /\ cpc[g] = "begin" /\ Client!Section(g) # Client!Locked
      BY <1>5, <1>6, <1>12 DEF Client!ReadNonce, Client!chainVars
    <2>2. tx'[g] = optsNonce + 1
      BY <1>1, <2>1 DEF Client!TypeOK
    <2>3. section[g] > 0
      <3>1. section \in [Goroutines -> 0 .. 3]
        BY <1>1 DEF Client!TypeOK
      <3>2. section[g] \in 0 .. 3
        BY <3>1
      <3>3. section[g] = 0 => Client!Section(g) = Client!Operation(g)[1]
        BY DEF Client!Section
      <3>4. Client!Operation(g)[1] = Client!Locked
        BY <1>1, ProgramType, OperationFacts
      <3> QED BY <2>1, <3>2, <3>3, <3>4
    <2>4. Client!Sequential => Pending(tx'[g])
      BY <1>1, <2>1, <2>2, <2>3 DEF Nonce
    <2>5. Client!Sequential => Pending(tx[g])'
      BY <1>1, <2>1, <2>4 DEF Pending
    <2> QED BY <1>2, <1>4, <2>1, <2>5 DEF Nonce
  <1>13. CASE Client!WriteNonce(g)
    <2>1. /\ pool' = pool /\ cpc'[g] = "send" /\ optsNonce' = tx[g] /\ cpc[g] = "add"
      BY <1>5, <1>6, <1>13 DEF Client!WriteNonce, Client!chainVars
    <2>2. Client!Section(g) # Client!Locked
      BY <1>1, <2>1 DEF Place
    <2>3. Good => Client!Sequential
      BY <1>1, <2>2, LockedSections DEF Good
    <2>4. Good => Pending(optsNonce')
      BY <1>1, <2>1, <2>3 DEF Nonce
    <2>5. Good => Pending(optsNonce)'
      BY <1>1, <2>1, <2>4 DEF Pending
    <2> QED BY <1>2, <1>4, <2>1, <2>5 DEF Nonce
  <1>14. CASE Client!Send(g)
    <2>1. /\ pool' = pool \cup {optsNonce} /\ cpc'[g] = "wait" /\ optsNonce' = optsNonce
          /\ cpc[g] = "send"
      BY <1>5, <1>6, <1>14 DEF Client!Send
    <2>2. Good => Pending(optsNonce)
      BY <1>1, <2>1 DEF Nonce
    <2>3. Good => /\ optsNonce + 1 \in Nat /\ optsNonce + 1 >= mined'
                  /\ pool' = mined' .. optsNonce + 1 - 1
                  /\ \E m \in Nat : m >= mined' /\ pool' = mined' .. m - 1
      BY <1>1, <2>1, <2>2, PendingSent
    <2>4. Good => Pending(optsNonce + 1)'
      BY <2>1, <2>3 DEF Pending
    <2>5. Good => (\E n \in Nat : Pending(n))'
      BY <2>3 DEF Pending
    <2> QED BY <1>2, <2>1, <2>4, <2>5 DEF Nonce, Good
  <1>15. CASE Client!SendFails(g)
    <2>1. /\ pool' = pool \/ pool' = pool \cup {optsNonce}
          /\ cpc'[g] = "begin" /\ section'[g] = 0
          /\ cpc[g] = "send"
      BY <1>7, <1>15 DEF Client!SendFails, Client!ReturnError
    <2>2. Good => Pending(optsNonce)
      BY <1>1, <2>1 DEF Nonce
    <2>3. ASSUME Good, pool' = pool \cup {optsNonce}
          PROVE  (\E n \in Nat : Pending(n))'
      <3>1. \E m \in Nat : m >= mined' /\ pool' = mined' .. m - 1
        BY <1>1, <2>2, <2>3, PendingSent
      <3> QED BY <3>1 DEF Pending
    <2> QED BY <1>4, <2>1, <2>3 DEF Nonce
  <1>16. ASSUME pool' = pool, optsNonce' = optsNonce, cpc[g] = "wait",
                cpc'[g] \in {"begin", "wait"}
         PROVE  Nonce(g)' /\ (Good => (\E n \in Nat : Pending(n))')
    <2>1. Client!Sequential => Pending(optsNonce + 1)
      BY <1>1, <1>16 DEF Nonce
    <2>2. Client!Sequential => Pending(optsNonce + 1)'
      BY <1>1, <1>16, <2>1 DEF Pending
    <2> QED BY <1>2, <1>4, <1>16, <2>2 DEF Nonce
  <1>17. CASE Client!Receipt(g)
    <2>1. pool' = pool /\ optsNonce' = optsNonce /\ cpc[g] = "wait" /\ cpc'[g] = "begin"
      BY <1>8, <1>17 DEF Client!Receipt, Client!ReturnError, Client!Return, Client!chainVars
    <2> QED BY <1>16, <2>1
  <1>18. CASE Client!NotFound(g)
    <2>1. pool' = pool /\ optsNonce' = optsNonce /\ cpc[g] = "wait"
      BY <1>18 DEF Client!NotFound, Client!Return, Client!chainVars
    <2>2. cpc'[g] \in {"begin", "wait"}
      <3>1. CASE polls[g] + 1 < ReceiptPolls
        BY <1>18, <2>1, <3>1 DEF Client!NotFound
      <3>2. CASE ~(polls[g] + 1 < ReceiptPolls)
        BY <1>8, <1>18, <3>2 DEF Client!NotFound, Client!Return
      <3> QED BY <3>1, <3>2
    <2> QED BY <1>16, <2>1, <2>2
  <1>19. CASE Client!ReceiptFails(g)
    <2>1. pool' = pool /\ optsNonce' = optsNonce /\ cpc[g] = "wait" /\ cpc'[g] = "begin"
      BY <1>8, <1>19 DEF Client!ReceiptFails, Client!ReturnError, Client!chainVars
    <2> QED BY <1>16, <2>1
  <1> QED BY <1>9, <1>10, <1>11, <1>12, <1>13, <1>14, <1>15, <1>17, <1>18, <1>19
          DEF Client!Step

LEMMA ClientStep ==
    ASSUME ClientInv, NEW g \in Goroutines, Client!Step(g)
    PROVE  ClientInv'
  <1>1. Client!TypeOK' /\ IsFiniteSet(pool')
    BY ClientTypes
  <1>2. \A h \in Goroutines : Place(h)'
    BY PlaceStep
  <1>3. \A h \in Goroutines : Nonce(h)'
    BY NonceOfOne, NonceOfOthers
  <1>4. (Good => \E n \in Nat : Pending(n))'
    BY NonceOfOne, ClientFrame, GoodStays
  <1> QED BY <1>1, <1>2, <1>3, <1>4 DEF ClientInv

LEMMA ClientMine ==
    ASSUME ClientInv, Client!Mine
    PROVE  ClientInv'
  <1>1. /\ mined \in pool /\ mined' = mined + 1 /\ pool' = pool \ {mined}
        /\ reverted' \in {reverted, reverted \cup {mined}}
        /\ UNCHANGED <<program, cpc, call, section, tx, polls, nonceLock, optsNonce, leaked>>
    BY DEF Client!Mine, Client!clientVars
  <1>2. Client!TypeOK /\ IsFiniteSet(pool) /\ mined \in Nat
    BY DEF ClientInv, Client!TypeOK
  <1>3. Client!TypeOK'
    <2>1. mined' \in Nat /\ pool' \subseteq Nat /\ reverted' \subseteq Nat
      BY <1>1, <1>2 DEF Client!TypeOK
    <2> QED BY <1>1, <1>2, <2>1 DEF Client!TypeOK
  <1>4. IsFiniteSet(pool')
    BY <1>1, <1>2, FS_RemoveElement
  <1>5. \A h \in Goroutines : Place(h)'
    BY <1>1 DEF ClientInv, Place, Client!Done, Client!Operation, Client!Section
  <1>6. ASSUME NEW n, Pending(n)
        PROVE  n \in Nat /\ n >= mined' /\ pool' = mined' .. n - 1
    <2>1. n \in Nat /\ n >= mined /\ pool = mined .. n - 1
      BY <1>6 DEF Pending
    <2>2. n >= mined + 1
      BY <1>1, <1>2, <2>1
    <2>3. (mined .. n - 1) \ {mined} = mined + 1 .. n - 1
      BY <1>2, <2>1
    <2> QED BY <1>1, <2>1, <2>2, <2>3
  <1>7. (Good' <=> Good) /\ (Client!Sequential' <=> Client!Sequential)
    BY <1>1, GoodStays
  <1>8. (Good => \E n \in Nat : Pending(n))'
    BY <1>6, <1>7 DEF ClientInv, Pending
  <1>9. ASSUME NEW h \in Goroutines
        PROVE  Nonce(h)'
    <2>1. Nonce(h)
      BY DEF ClientInv
    <2>2. Pending(optsNonce) => Pending(optsNonce)'
      BY <1>1, <1>6 DEF Pending
    <2>3. Pending(optsNonce + 1) => Pending(optsNonce + 1)'
      BY <1>1, <1>6 DEF Pending
    <2>4. Pending(tx[h]) => Pending(tx[h])'
      BY <1>1, <1>6 DEF Pending
    <2> QED BY <1>1, <1>7, <2>1, <2>2, <2>3, <2>4 DEF Nonce
  <1> QED BY <1>3, <1>4, <1>5, <1>8, <1>9 DEF ClientInv

LEMMA ClientMoves ==
    ASSUME ClientInv, Client!Next
    PROVE  ClientInv'
  BY ClientMine, ClientStep DEF Client!Next

LEMMA ClientGives ==
    ASSUME ClientInv
    PROVE  Client!TypeOK /\ Client!NonceIsPending
  <1>1. ASSUME Good, NEW g \in Goroutines, cpc[g] = "send"
        PROVE  optsNonce = Client!PendingNonce
    <2>1. Pending(optsNonce)
      BY <1>1 DEF ClientInv, Nonce
    <2> QED BY <2>1, PendingIsPendingNonce DEF ClientInv
  <1> QED BY <1>1 DEF ClientInv, Client!NonceIsPending, Good
-----------------------------------------------------------------------------
(* The sum of a function over a finite set, which is what MapThenSumSet     *)
(* computes: it takes the members in the order of CHOOSE, but the order     *)
(* does not matter.                                                         *)

Some(s) == CHOOSE x \in s : TRUE

Sums(T, v, f) ==
    f = [s \in SUBSET T |-> IF s = {} THEN 0 ELSE v[Some(s)] + f[s \ {Some(s)}]]

Sum(T, v) == (CHOOSE f : Sums(T, v, f))[T]

LEMMA Induction ==
    ASSUME NEW Q \in SUBSET Nat, 0 \in Q, \A n \in Q : n + 1 \in Q
    PROVE  \A n \in Nat : n \in Q
  <1> SUFFICES ASSUME Nat \ Q # {} PROVE FALSE
    OBVIOUS
  <1>1. PICK m \in Nat \ Q : \A k \in Nat \ Q : m <= k
    BY LeastNumber
  <1>2. m # 0 /\ m - 1 \in Nat /\ ~(m <= m - 1)
    BY <1>1
  <1>3. m - 1 \in Q
    BY <1>1, <1>2
  <1>4. m - 1 + 1 \in Q
    BY <1>3
  <1> QED BY <1>1, <1>4

LEMMA LessOne ==
    ASSUME NEW s, IsFiniteSet(s), s # {}
    PROVE  /\ Some(s) \in s
           /\ IsFiniteSet(s \ {Some(s)})
           /\ Cardinality(s) \in Nat \ {0}
           /\ Cardinality(s \ {Some(s)}) = Cardinality(s) - 1
  <1>1. Some(s) \in s
    BY DEF Some
  <1>2. Cardinality(s) \in Nat /\ Cardinality(s) # 0
    BY FS_CardinalityType, FS_EmptySet
  <1> QED BY <1>1, <1>2, FS_RemoveElement

LEMMA SumsExist ==
    ASSUME NEW T, IsFiniteSet(T), NEW v \in [T -> Int]
    PROVE  \E f \in [SUBSET T -> Int] : Sums(T, v, f)
  <1> DEFINE At(f, s) == IF s = {} THEN 0 ELSE v[Some(s)] + f[s \ {Some(s)}]
             Upto(f, n) == \A s \in SUBSET T : Cardinality(s) <= n => f[s] = At(f, s)
             Q == {n \in Nat : \E f \in [SUBSET T -> Int] : Upto(f, n)}
  <1>1. \A s \in SUBSET T : IsFiniteSet(s) /\ Cardinality(s) \in Nat
    BY FS_Subset, FS_CardinalityType
  <1>2. \A s \in SUBSET T : s # {} =>
            /\ Some(s) \in s
            /\ s \ {Some(s)} \in SUBSET T
            /\ Cardinality(s) \in Nat \ {0}
            /\ Cardinality(s \ {Some(s)}) = Cardinality(s) - 1
    BY <1>1, LessOne
  <1>3. ASSUME NEW f \in [SUBSET T -> Int], NEW s \in SUBSET T
        PROVE  At(f, s) \in Int
    <2>1. CASE s = {}
      BY <2>1
    <2>2. CASE s # {}
      <3>1. Some(s) \in T /\ s \ {Some(s)} \in SUBSET T
        BY <1>2, <2>2
      <3>2. v[Some(s)] \in Int /\ f[s \ {Some(s)}] \in Int
        BY <3>1
      <3> QED BY <2>2, <3>2
    <2> QED BY <2>1, <2>2
  <1>4. 0 \in Q
    <2> DEFINE z == [s \in SUBSET T |-> 0]
    <2>1. z \in [SUBSET T -> Int]
      OBVIOUS
    <2>2. ASSUME NEW s \in SUBSET T, Cardinality(s) <= 0
          PROVE  z[s] = At(z, s)
      <3>1. Cardinality(s) = 0
        BY <1>1, <2>2
      <3>2. s = {}
        BY <1>1, <3>1, FS_EmptySet
      <3> QED BY <3>2
    <2>3. Upto(z, 0)
      BY <2>2
    <2> HIDE DEF z, Upto
    <2> QED BY <2>1, <2>3
  <1>5. ASSUME NEW n \in Q
        PROVE  n + 1 \in Q
    <2>1. PICK f \in [SUBSET T -> Int] : Upto(f, n)
      OBVIOUS
    <2> DEFINE h == [s \in SUBSET T |-> IF Cardinality(s) <= n THEN f[s] ELSE At(f, s)]
    <2>2. h \in [SUBSET T -> Int]
      BY <1>3
    <2>3. ASSUME NEW s \in SUBSET T
          PROVE  h[s] = At(f, s)
      BY <2>1
    <2>4. ASSUME NEW s \in SUBSET T, Cardinality(s) <= n + 1
          PROVE  h[s] = At(h, s)
      <3>1. CASE s = {}
        BY <2>3, <3>1
      <3>2. CASE s # {}
        <4> DEFINE r == s \ {Some(s)}
        <4>1. r \in SUBSET T /\ Cardinality(r) = Cardinality(s) - 1 /\ Cardinality(s) \in Nat
          BY <1>2, <3>2
        <4>2. Cardinality(r) <= n
          BY <2>4, <4>1
        <4>3. h[r] = f[r]
          BY <4>1, <4>2
        <4> HIDE DEF h, r
        <4>4. At(h, s) = v[Some(s)] + h[r] /\ At(f, s) = v[Some(s)] + f[r]
          BY <3>2 DEF r
        <4> QED BY <2>3, <4>3, <4>4
      <3> QED BY <3>1, <3>2
    <2>5. Upto(h, n + 1)
      BY <2>4
    <2>6. n + 1 \in Nat
      OBVIOUS
    <2> HIDE DEF h, Upto
    <2> QED BY <2>2, <2>5, <2>6
  <1>6. Cardinality(T) \in Q
    <2>1. Q \in SUBSET Nat /\ Cardinality(T) \in Nat
      BY FS_CardinalityType
    <2> HIDE DEF Q
    <2> QED BY <1>4, <1>5, <2>1, Induction
  <1>7. PICK f \in [SUBSET T -> Int] : Upto(f, Cardinality(T))
    BY <1>6
  <1>8. \A s \in SUBSET T : Cardinality(s) <= Cardinality(T)
    BY FS_Subset
  <1>9. \A s \in SUBSET T : f[s] = At(f, s)
    BY <1>7, <1>8
  <1>10. f = [s \in SUBSET T |-> At(f, s)]
    BY <1>9
  <1> QED BY <1>10 DEF Sums

LEMMA SumsAgree ==
    ASSUME NEW T, IsFiniteSet(T), NEW U, NEW v, NEW w, NEW f, NEW g,
           Sums(T, v, f), Sums(U, w, g), T \subseteq U, \A x \in T : v[x] = w[x]
    PROVE  \A s \in SUBSET T : f[s] = g[s]
  <1> DEFINE Q == {n \in Nat : \A s \in SUBSET T : Cardinality(s) <= n => f[s] = g[s]}
  <1>1. \A s \in SUBSET T : IsFiniteSet(s) /\ Cardinality(s) \in Nat
    BY FS_Subset, FS_CardinalityType
  <1>2. \A s \in SUBSET T : f[s] = IF s = {} THEN 0 ELSE v[Some(s)] + f[s \ {Some(s)}]
    BY DEF Sums
  <1>3. \A s \in SUBSET T : g[s] = IF s = {} THEN 0 ELSE w[Some(s)] + g[s \ {Some(s)}]
    BY DEF Sums
  <1>4. 0 \in Q
    <2>1. ASSUME NEW s \in SUBSET T, Cardinality(s) <= 0
          PROVE  f[s] = g[s]
      <3>1. Cardinality(s) = 0
        BY <1>1, <2>1
      <3>2. s = {}
        BY <1>1, <3>1, FS_EmptySet
      <3> QED BY <1>2, <1>3, <3>2
    <2> QED BY <2>1
  <1>5. ASSUME NEW n \in Q
        PROVE  n + 1 \in Q
    <2>1. ASSUME NEW s \in SUBSET T, Cardinality(s) <= n + 1
          PROVE  f[s] = g[s]
      <3>1. CASE s = {}
        BY <1>2, <1>3, <3>1
      <3>2. CASE s # {}
        <4> DEFINE r == s \ {Some(s)}
        <4>1. /\ Some(s) \in s
              /\ r \in SUBSET T /\ Cardinality(r) = Cardinality(s) - 1
              /\ Cardinality(s) \in Nat
          BY <1>1, <3>2, LessOne
        <4>2. Cardinality(r) <= n
          BY <2>1, <4>1
        <4>3. f[r] = g[r] /\ v[Some(s)] = w[Some(s)]
          BY <4>1, <4>2
        <4> QED BY <1>2, <1>3, <3>2, <4>3
      <3> QED BY <3>1, <3>2
    <2>2. n + 1 \in Nat
      OBVIOUS
    <2> QED BY <2>1, <2>2
  <1>6. ASSUME NEW s \in SUBSET T
        PROVE  f[s] = g[s]
    <2>1. Q \in SUBSET Nat /\ Cardinality(s) \in Nat /\ Cardinality(s) <= Cardinality(s)
      BY <1>1
    <2>2. Cardinality(s) \in Q
      <3> HIDE DEF Q
      <3> QED BY <1>4, <1>5, <2>1, Induction
    <2> QED BY <2>1, <2>2
  <1> QED BY <1>6

Adds(T, v, f) == \A s \in SUBSET T : \A x \in T \ s : f[s \cup {x}] = v[x] + f[s]

LEMMA SumsAdd ==
    ASSUME NEW T, IsFiniteSet(T), NEW v \in [T -> Int], NEW f \in [SUBSET T -> Int],
           Sums(T, v, f)
    PROVE  Adds(T, v, f)
  <1> DEFINE Q == {n \in Nat : \A s \in SUBSET T : \A x \in T \ s :
                       Cardinality(s) <= n => f[s \cup {x}] = v[x] + f[s]}
  <1>1. \A s \in SUBSET T : IsFiniteSet(s) /\ Cardinality(s) \in Nat
    BY FS_Subset, FS_CardinalityType
  <1>2. \A s \in SUBSET T : f[s] = IF s = {} THEN 0 ELSE v[Some(s)] + f[s \ {Some(s)}]
    BY DEF Sums
  <1>3. \A s \in SUBSET T : s # {} => Some(s) \in s
    BY <1>1, LessOne
  <1>4. \A s \in SUBSET T : f[s] \in Int
    OBVIOUS
  <1>5. ASSUME NEW s \in SUBSET T, NEW x \in T \ s, Some(s \cup {x}) = x
        PROVE  f[s \cup {x}] = v[x] + f[s]
    <2>1. s \cup {x} \in SUBSET T /\ s \cup {x} # {} /\ (s \cup {x}) \ {x} = s
      OBVIOUS
    <2> QED BY <1>2, <1>5, <2>1
  <1>6. 0 \in Q
    <2>1. ASSUME NEW s \in SUBSET T, NEW x \in T \ s, Cardinality(s) <= 0
          PROVE  f[s \cup {x}] = v[x] + f[s]
      <3>1. Cardinality(s) = 0
        BY <1>1, <2>1
      <3>2. s = {}
        BY <1>1, <3>1, FS_EmptySet
      <3>3. s \cup {x} \in SUBSET T /\ s \cup {x} # {} /\ s \cup {x} = {x}
        BY <3>2
      <3>4. Some(s \cup {x}) = x
        BY <1>3, <3>3
      <3> QED BY <1>5, <3>4
    <2> QED BY <2>1
  <1>7. ASSUME NEW n \in Q
        PROVE  n + 1 \in Q
    <2>1. ASSUME NEW s \in SUBSET T, NEW x \in T \ s, Cardinality(s) <= n + 1
          PROVE  f[s \cup {x}] = v[x] + f[s]
      <3> DEFINE u == s \cup {x}
                 y == Some(u)
                 r == s \ {y}
      <3>1. u \in SUBSET T /\ u # {} /\ y \in u
        BY <1>3
      <3>2. CASE y = x
        BY <1>5, <3>2
      <3>3. CASE y # x
        <4>1. y \in s /\ y \in T
          BY <3>1, <3>3
        <4>2. r \in SUBSET T /\ x \in T \ r /\ y \in T \ r
          BY <4>1
        <4>3. IsFiniteSet(s) /\ Cardinality(s) \in Nat
          BY <1>1
        <4>4. Cardinality(r) = Cardinality(s) - 1
          <5>1. \A a : Cardinality(s \ {a}) =
                    IF a \in s THEN Cardinality(s) - 1 ELSE Cardinality(s)
            BY <4>3, FS_RemoveElement
          <5> QED BY <4>1, <5>1
        <4>5. Cardinality(r) <= n
          BY <2>1, <4>3, <4>4
        <4>6. f[r \cup {x}] = v[x] + f[r] /\ f[r \cup {y}] = v[y] + f[r]
          BY <4>2, <4>5
        <4>7. u \ {y} = r \cup {x} /\ r \cup {y} = s
          BY <3>3, <4>1
        <4>8. f[u] = v[y] + f[u \ {y}]
          BY <1>2, <3>1
        <4>9. f[u] = v[y] + (v[x] + f[r]) /\ f[s] = v[y] + f[r]
          BY <4>6, <4>7, <4>8
        <4>10. v[x] \in Int /\ v[y] \in Int /\ f[r] \in Int
          BY <1>4, <4>2
        <4>11. \A a, b, c \in Int : a + (b + c) = b + (a + c)
          OBVIOUS
        <4>12. f[u] = v[x] + f[s]
          <5> HIDE DEF u, y, r
          <5> QED BY <4>9, <4>10, <4>11
        <4> QED BY <4>12
      <3> QED BY <3>2, <3>3
    <2>2. n + 1 \in Nat
      OBVIOUS
    <2> QED BY <2>1, <2>2
  <1>8. ASSUME NEW s \in SUBSET T, NEW x \in T \ s
        PROVE  f[s \cup {x}] = v[x] + f[s]
    <2>1. Q \in SUBSET Nat /\ Cardinality(s) \in Nat /\ Cardinality(s) <= Cardinality(s)
      BY <1>1
    <2>2. Cardinality(s) \in Q
      <3> HIDE DEF Q
      <3> QED BY <1>6, <1>7, <2>1, Induction
    <2> QED BY <2>1, <2>2
  <1> QED BY <1>8 DEF Adds

LEMMA SumOf ==
    ASSUME NEW T, IsFiniteSet(T), NEW v \in [T -> Int], NEW f, Sums(T, v, f)
    PROVE  f[T] = Sum(T, v) /\ Sum(T, v) \in Int
  <1>1. PICK g \in [SUBSET T -> Int] : Sums(T, v, g)
    BY SumsExist
  <1> DEFINE c == CHOOSE h : Sums(T, v, h)
  <1>2. Sums(T, v, c)
    BY <1>1
  <1> HIDE DEF c
  <1>3. c[T] = g[T] /\ f[T] = g[T]
    BY <1>1, <1>2, SumsAgree
  <1>4. Sum(T, v) = c[T]
    BY DEF Sum, c
  <1> QED BY <1>1, <1>3, <1>4

LEMMA SumOfNone ==
    ASSUME NEW v \in [{} -> Int]
    PROVE  Sum({}, v) = 0
  <1>1. PICK f \in [SUBSET {} -> Int] : Sums({}, v, f)
    BY SumsExist, FS_EmptySet
  <1>2. f[{}] = 0
    BY <1>1 DEF Sums
  <1> QED BY <1>1, <1>2, SumOf, FS_EmptySet

LEMMA SumOfOneMore ==
    ASSUME NEW T, IsFiniteSet(T), NEW x, x \notin T,
           NEW v \in [T -> Int], NEW w \in [T \cup {x} -> Int], \A y \in T : v[y] = w[y]
    PROVE  Sum(T \cup {x}, w) = w[x] + Sum(T, v)
  <1> DEFINE U == T \cup {x}
  <1>1. IsFiniteSet(U)
    BY FS_AddElement
  <1>2. PICK g \in [SUBSET U -> Int] : Sums(U, w, g)
    BY <1>1, SumsExist
  <1>3. PICK f \in [SUBSET T -> Int] : Sums(T, v, f)
    BY SumsExist
  <1>4. g[T \cup {x}] = w[x] + g[T]
    <2>1. T \in SUBSET U /\ x \in U \ T
      OBVIOUS
    <2>2. w \in [U -> Int]
      OBVIOUS
    <2> HIDE DEF U
    <2>3. IsFiniteSet(U) /\ g \in [SUBSET U -> Int] /\ Sums(U, w, g)
      BY <1>1, <1>2
    <2>4. Adds(U, w, g)
      BY <2>2, <2>3, SumsAdd
    <2> QED BY <2>1, <2>4 DEF Adds
  <1>5. f[T] = g[T]
    BY <1>2, <1>3, SumsAgree
  <1>6. g[U] = Sum(U, w) /\ f[T] = Sum(T, v)
    BY <1>1, <1>2, <1>3, SumOf
  <1> QED BY <1>4, <1>5, <1>6
-----------------------------------------------------------------------------
(* The amounts.  What is under way is a sum over the deposits that have    *)
(* not been executed; a step moves one of them.                            *)

Value == [m \in inFlight |-> m.amount * Amount!Unit(m.from)]

Messages == [id : 1 .. deposits, from : {"source", "destination"}, amount : Nat \ {0}]

AmountTypes ==
    /\ Amount!TypeOK
    /\ wallets + locked = Supply
    /\ deposits \in Nat
    /\ IsFiniteSet(inFlight)
    /\ inFlight \subseteq Messages
    /\ executed + Cardinality(inFlight) = deposits

AmountInv ==
    /\ AmountTypes
    /\ Amount!Backed
    /\ Amount!LossIsBounded

LEMMA AmountConstants ==
    /\ Base \in Nat \ {0, 1}
    /\ Differences \subseteq Int
    /\ MaxInt \in Nat \ {0} /\ MaxUint \in Nat \ {0}
    /\ Supply \in Nat \ {0} /\ MaxTransfers \in Nat \ {0}
  <1>1. Amount!AmountsAssumption
    BY HelpersAssumption
  <1> QED BY <1>1 DEF Amount!AmountsAssumption

LEMMA Coarseness ==
    ASSUME difference \in Differences
    PROVE  /\ difference \in Int
           /\ Amount!Abs(difference) = 0 <=> difference = 0
           /\ Amount!Coarse \in Nat \ {0}
           /\ difference = 0 => Amount!Coarse = 1
           /\ Amount!Exact => Amount!Multipliers(Amount!Abs(difference)) = {Amount!Coarse}
           /\ Amount!Multipliers(Amount!Abs(difference)) \subseteq Nat \ {0}
           /\ \A from : Amount!Unit(from) \in Nat \ {0}
  <1>1. difference \in Int
    BY AmountConstants
  <1>2. Amount!AmountsAssumption
    BY HelpersAssumption
  <1>3. Amount!Abs(difference) = 0 <=> difference = 0
    BY <1>1 DEF Amount!Abs
  <1>4. Amount!Coarse \in Nat \ {0}
    BY <1>2 DEF Amount!AmountsAssumption, Amount!Coarse
  <1>5. difference = 0 => Amount!Coarse = 1
    BY <1>2, <1>3 DEF Amount!AmountsAssumption, Amount!Coarse
  <1>6. Amount!Exact => Amount!Multipliers(Amount!Abs(difference)) = {Amount!Coarse}
    BY DEF Amount!Exact, Amount!Multipliers, Amount!Coarse
  <1>7. Amount!Multipliers(Amount!Abs(difference)) \subseteq {Amount!Coarse, MaxInt, MaxInt + 1}
    BY DEF Amount!Multipliers, Amount!Coarse
  <1>8. MaxInt \in Nat \ {0} /\ MaxInt + 1 \in Nat \ {0}
    BY AmountConstants
  <1>9. Amount!Multipliers(Amount!Abs(difference)) \subseteq Nat \ {0}
    BY <1>4, <1>7, <1>8
  <1>10. \A from : Amount!Unit(from) \in Nat \ {0}
    BY <1>4 DEF Amount!Unit
  <1> QED BY <1>1, <1>3, <1>4, <1>5, <1>6, <1>9, <1>10

(* What a conversion drops.                                                *)
LEMMA Division ==
    ASSUME NEW a \in Nat, NEW k \in Nat \ {0}
    PROVE  /\ a \div k \in Nat
           /\ (a \div k) * k <= a
           /\ a - (a \div k) * k <= k - 1
  OBVIOUS

Other(from) == IF from = "source" THEN "destination" ELSE "source"

LEMMA ConvertType ==
    ASSUME difference \in Differences, NEW from \in {"source", "destination"},
           NEW a \in Nat, NEW k \in Amount!Multipliers(Amount!Abs(difference))
    PROVE  Amount!Convert(a, Amount!Lost(from), k) \in Nat
  <1>1. k \in Nat \ {0}
    BY Coarseness
  <1>2. a \div k \in Nat
    BY <1>1, Division
  <1>3. a * k \in Nat
    BY <1>1
  <1> QED BY <1>2, <1>3 DEF Amount!Convert

LEMMA ConvertLoses ==
    ASSUME difference \in Differences, NEW from \in {"source", "destination"},
           NEW a \in Nat, Amount!Exact,
           NEW k \in Amount!Multipliers(Amount!Abs(difference)),
           NEW b, b = Amount!Convert(a, Amount!Lost(from), k)
    PROVE  /\ b * Amount!Unit(Other(from)) <= a * Amount!Unit(from)
           /\ a * Amount!Unit(from) - b * Amount!Unit(Other(from)) <= Amount!Coarse - 1
  <1>1. /\ k = Amount!Coarse /\ k \in Nat \ {0} /\ difference \in Int
        /\ difference = 0 => k = 1
    BY Coarseness
  <1>2. Amount!Lost(from) = IF from = "source" THEN difference ELSE -difference
    BY DEF Amount!Lost
  <1>3. CASE Amount!Lost(from) > 0
    <2>1. Amount!Unit(from) = 1 /\ Amount!Unit(Other(from)) = k
      BY <1>1, <1>2, <1>3 DEF Amount!Unit, Other
    <2>2. b = a \div k
      BY <1>3 DEF Amount!Convert
    <2>3. a \div k \in Nat /\ (a \div k) * k <= a /\ a - (a \div k) * k <= k - 1
      BY <1>1, Division
    <2> QED BY <1>1, <2>1, <2>2, <2>3
  <1>4. CASE ~(Amount!Lost(from) > 0) /\ difference # 0
    <2>1. Amount!Unit(from) = k /\ Amount!Unit(Other(from)) = 1
      BY <1>1, <1>2, <1>4 DEF Amount!Unit, Other
    <2>2. b = a * k
      BY <1>4 DEF Amount!Convert
    <2> QED BY <1>1, <2>1, <2>2
  <1>5. CASE difference = 0
    <2>1. Amount!Unit(from) = 1 /\ Amount!Unit(Other(from)) = 1
      BY <1>1, <1>5 DEF Amount!Unit
    <2>2. b = a
      BY <1>1, <1>2, <1>5 DEF Amount!Convert
    <2> QED BY <1>1, <2>1, <2>2
  <1> QED BY <1>3, <1>4, <1>5

(* The sum of Loss is the one of the lemmas above.                         *)
LossIsSum ==
    AmountTypes =>
        /\ Value \in [inFlight -> Int]
        /\ Sum(inFlight, Value) \in Int
        /\ Amount!Loss = locked * Amount!Unit("source")
               - minted * Amount!Unit("destination") - Sum(inFlight, Value)

LEMMA UnderWay == LossIsSum
  <1> SUFFICES ASSUME AmountTypes
               PROVE  /\ Value \in [inFlight -> Int]
                      /\ Sum(inFlight, Value) \in Int
                      /\ Amount!Loss = locked * Amount!Unit("source")
                             - minted * Amount!Unit("destination") - Sum(inFlight, Value)
    BY DEF LossIsSum
  <1>1. /\ IsFiniteSet(inFlight) /\ difference \in Differences
        /\ \A m \in inFlight : m.amount \in Nat
    BY DEF AmountTypes, Amount!TypeOK
  <1>2. \A m \in inFlight : m.amount * Amount!Unit(m.from) \in Int
    <2>1. \A m \in inFlight : Amount!Unit(m.from) \in Nat
      BY <1>1, Coarseness
    <2> QED BY <1>1, <2>1
  <1>3. Value \in [inFlight -> Int]
    BY <1>2 DEF Value
  <1> DEFINE Step(s, f) ==
                 IF s = {} THEN 0
                 ELSE (CHOOSE x \in s : TRUE).amount
                          * Amount!Unit((CHOOSE x \in s : TRUE).from)
                      + f[s \ {CHOOSE x \in s : TRUE}]
             iter == CHOOSE f : f = [s \in SUBSET inFlight |-> Step(s, f)]
  <1>4. ASSUME NEW f, NEW s \in SUBSET inFlight
        PROVE  Step(s, f) = IF s = {} THEN 0 ELSE Value[Some(s)] + f[s \ {Some(s)}]
    <2>1. s # {} => Some(s) \in inFlight
      BY DEF Some
    <2>2. s # {} => Value[Some(s)] = Some(s).amount * Amount!Unit(Some(s).from)
      BY <2>1 DEF Value
    <2>3. Some(s) = CHOOSE x \in s : TRUE
      BY DEF Some
    <2> QED BY <2>2, <2>3
  <1>5. \A f : Sums(inFlight, Value, f) <=> f = [s \in SUBSET inFlight |-> Step(s, f)]
    <2>1. \A f : [s \in SUBSET inFlight |-> Step(s, f)] =
              [s \in SUBSET inFlight |->
                  IF s = {} THEN 0 ELSE Value[Some(s)] + f[s \ {Some(s)}]]
      <3> HIDE DEF Step
      <3> QED BY <1>4
    <2> HIDE DEF Step
    <2> QED BY <2>1 DEF Sums
  <1>6. PICK g : Sums(inFlight, Value, g)
    BY <1>1, <1>3, SumsExist
  <1>7. iter = [s \in SUBSET inFlight |-> Step(s, iter)]
    <2>1. \E f : f = [s \in SUBSET inFlight |-> Step(s, f)]
      <3> HIDE DEF Step
      <3> QED BY <1>5, <1>6
    <2> HIDE DEF Step
    <2> QED BY <2>1
  <1>8. iter[inFlight] = Sum(inFlight, Value) /\ Sum(inFlight, Value) \in Int
    <2>1. Sums(inFlight, Value, iter)
      <3> HIDE DEF iter, Step
      <3> QED BY <1>5, <1>7
    <2> HIDE DEF iter
    <2> QED BY <1>1, <1>3, <2>1, SumOf
  <1>9. Amount!Loss = locked * Amount!Unit("source")
            - minted * Amount!Unit("destination") - iter[inFlight]
    BY DEF Amount!Loss, Amount!MapThenSumSet, Amount!MapThenFoldSet
  <1> HIDE DEF iter
  <1> QED BY <1>3, <1>8, <1>9

LEMMA UnderWayNext == LossIsSum'
  <1>1. LossIsSum
    BY UnderWay
  <1> QED BY <1>1, PTL

LEMMA AmountBegins ==
    ASSUME Amount!Init
    PROVE  AmountInv
  <1>1. /\ difference \in Differences /\ wallets = Supply /\ locked = 0 /\ minted = 0
        /\ inFlight = {} /\ deposits = 0 /\ executed = 0 /\ stuck = 0
    BY DEF Amount!Init
  <1>2. AmountTypes
    <2>1. IsFiniteSet(inFlight) /\ Cardinality(inFlight) = 0
      BY <1>1, FS_EmptySet
    <2>2. Amount!TypeOK
      BY <1>1, AmountConstants DEF Amount!TypeOK
    <2> QED BY <1>1, <2>1, <2>2, AmountConstants DEF AmountTypes
  <1>3. Sum(inFlight, Value) = 0
    <2>1. Value \in [{} -> Int]
      BY <1>1, <1>2, UnderWay DEF LossIsSum
    <2> QED BY <1>1, <2>1, SumOfNone
  <1>4. Amount!Loss = 0
    <2>1. Amount!Unit("source") \in Nat /\ Amount!Unit("destination") \in Nat
      BY <1>1, Coarseness
    <2> QED BY <1>1, <1>2, <1>3, <2>1, UnderWay DEF LossIsSum
  <1>5. Amount!Coarse \in Nat \ {0}
    BY <1>1, Coarseness
  <1> QED BY <1>1, <1>2, <1>4, <1>5 DEF AmountInv, Amount!Backed, Amount!LossIsBounded

\* The units do not change.
LEMMA SameUnits ==
    ASSUME difference' = difference
    PROVE  /\ \A from : Amount!Unit(from)' = Amount!Unit(from)
           /\ Amount!Coarse' = Amount!Coarse
           /\ Amount!Exact' <=> Amount!Exact
  <1>1. Amount!Coarse' = Amount!Coarse
    BY DEF Amount!Coarse, Amount!Abs
  <1>2. ASSUME NEW from
        PROVE  Amount!Unit(from)' = Amount!Unit(from)
    BY <1>1 DEF Amount!Unit
  <1> QED BY <1>1, <1>2 DEF Amount!Exact

\* A deposit adds its value to what is under way ...
LEMMA DepositAdds ==
    ASSUME AmountTypes, NEW from \in {"source", "destination"}, NEW a \in Nat \ {0},
           Amount!Deposit(from, a), Amount!TypeOK', wallets' + locked' = Supply
    PROVE  /\ AmountTypes'
           /\ Sum(inFlight', Value') = a * Amount!Unit(from) + Sum(inFlight, Value)
           /\ executed' = executed /\ stuck' = stuck /\ difference' = difference
  <1> DEFINE m == [id |-> deposits + 1, from |-> from, amount |-> a]
  <1>1. /\ deposits' = deposits + 1 /\ inFlight' = inFlight \cup {m}
        /\ executed' = executed /\ stuck' = stuck /\ difference' = difference
    BY DEF Amount!Deposit
  <1>2. /\ deposits \in Nat /\ IsFiniteSet(inFlight) /\ inFlight \subseteq Messages
        /\ executed + Cardinality(inFlight) = deposits /\ executed \in 0 .. deposits
    BY DEF AmountTypes, Amount!TypeOK
  <1>3. m \notin inFlight
    <2>1. \A x \in inFlight : x.id \in 1 .. deposits
      BY <1>2 DEF Messages
    <2>2. m.id \notin 1 .. deposits
      BY <1>2
    <2> QED BY <2>1, <2>2
  <1>4. /\ IsFiniteSet(inFlight \cup {m})
        /\ Cardinality(inFlight) \in Nat
        /\ Cardinality(inFlight \cup {m}) = Cardinality(inFlight) + 1
    BY <1>2, <1>3, FS_AddElement, FS_CardinalityType
  <1>5. inFlight' \subseteq Messages'
    <2>1. Messages \subseteq Messages'
      <3>1. 1 .. deposits \subseteq 1 .. deposits'
        BY <1>1, <1>2
      <3> QED BY <3>1 DEF Messages
    <2>2. m \in Messages'
      <3>1. deposits + 1 \in 1 .. deposits'
        BY <1>1, <1>2
      <3> QED BY <3>1 DEF Messages
    <2> HIDE DEF m
    <2> QED BY <1>1, <1>2, <2>1, <2>2
  <1>6. AmountTypes'
    <2>1. IsFiniteSet(inFlight')
      BY <1>1, <1>4
    <2>2. deposits' \in Nat
      BY <1>1, <1>2
    <2>3. Cardinality(inFlight') = Cardinality(inFlight) + 1
      BY <1>1, <1>4
    <2>4. executed' + Cardinality(inFlight') = deposits'
      BY <1>1, <1>2, <1>4, <2>3
    <2> QED BY <1>5, <2>1, <2>2, <2>4 DEF AmountTypes
  <1>7. Value \in [inFlight -> Int] /\ Value' \in [inFlight' -> Int]
    BY <1>6, UnderWay, UnderWayNext DEF LossIsSum
  <1>8. \A y \in inFlight : Value[y] = Value'[y]
    BY <1>1, SameUnits DEF Value
  <1>9. Value'[m] = a * Amount!Unit(from)
    <2>1. m \in inFlight' /\ m.amount = a /\ m.from = from
      BY <1>1
    <2> HIDE DEF m
    <2> QED BY <1>1, <2>1, SameUnits DEF Value
  <1>10. Sum(inFlight', Value') = Value'[m] + Sum(inFlight, Value)
    <2> HIDE DEF m
    <2>1. Value' \in [inFlight \cup {m} -> Int]
      BY <1>1, <1>7
    <2>2. Sum(inFlight \cup {m}, Value') = Value'[m] + Sum(inFlight, Value)
      BY <1>2, <1>3, <1>7, <1>8, <2>1, SumOfOneMore
    <2> QED BY <1>1, <2>2
  <1> QED BY <1>1, <1>6, <1>9, <1>10

\* ... and an execution takes it away.
LEMMA ExecutionRemoves ==
    ASSUME AmountTypes, NEW m \in inFlight, Amount!Executes(m), Amount!TypeOK',
           wallets' + locked' = Supply
    PROVE  /\ AmountTypes'
           /\ Sum(inFlight, Value) = m.amount * Amount!Unit(m.from) + Sum(inFlight', Value')
           /\ executed' = executed + 1 /\ difference' = difference
  <1>1. /\ inFlight' = inFlight \ {m} /\ executed' = executed + 1
        /\ difference' = difference /\ deposits' = deposits
    BY DEF Amount!Executes
  <1>2. /\ deposits \in Nat /\ IsFiniteSet(inFlight) /\ inFlight \subseteq Messages
        /\ executed + Cardinality(inFlight) = deposits /\ executed \in 0 .. deposits
    BY DEF AmountTypes, Amount!TypeOK
  <1>3. /\ IsFiniteSet(inFlight \ {m}) /\ Cardinality(inFlight) \in Nat
        /\ Cardinality(inFlight \ {m}) = Cardinality(inFlight) - 1
    BY <1>2, FS_RemoveElement, FS_CardinalityType
  <1>4. AmountTypes'
    <2>1. IsFiniteSet(inFlight') /\ Cardinality(inFlight') = Cardinality(inFlight) - 1
      BY <1>1, <1>3
    <2>2. executed' + Cardinality(inFlight') = deposits'
      BY <1>1, <1>2, <1>3, <2>1
    <2>3. inFlight' \subseteq Messages'
      BY <1>1, <1>2 DEF Messages
    <2>4. deposits' \in Nat
      BY <1>1, <1>2
    <2> QED BY <2>1, <2>2, <2>3, <2>4 DEF AmountTypes
  <1>5. Value \in [inFlight -> Int] /\ Value' \in [inFlight' -> Int]
    BY <1>4, UnderWay, UnderWayNext DEF LossIsSum
  <1>6. \A y \in inFlight' : Value'[y] = Value[y]
    BY <1>1, SameUnits DEF Value
  <1>7. Value[m] = m.amount * Amount!Unit(m.from)
    BY DEF Value
  <1>8. Sum(inFlight, Value) = Value[m] + Sum(inFlight', Value')
    <2>1. inFlight' \cup {m} = inFlight /\ m \notin inFlight' /\ IsFiniteSet(inFlight')
      BY <1>1, <1>3
    <2>2. Value \in [inFlight' \cup {m} -> Int]
      BY <1>5, <2>1
    <2>3. Sum(inFlight' \cup {m}, Value) = Value[m] + Sum(inFlight', Value')
      BY <1>5, <1>6, <2>1, <2>2, SumOfOneMore
    <2> QED BY <2>1, <2>3
  <1> QED BY <1>1, <1>4, <1>7, <1>8

\* What a step makes of the loss, from what it moves.
LossAt(l, m, s) == l * Amount!Unit("source") - m * Amount!Unit("destination") - s

LEMMA LossOf ==
    ASSUME AmountTypes, AmountTypes', difference' = difference
    PROVE  /\ Amount!Loss = LossAt(locked, minted, Sum(inFlight, Value))
           /\ Amount!Loss' = LossAt(locked', minted', Sum(inFlight', Value'))
           /\ Sum(inFlight, Value) \in Int /\ Sum(inFlight', Value') \in Int
           /\ Amount!Loss \in Int
  <1>1. /\ Amount!Loss = LossAt(locked, minted, Sum(inFlight, Value))
        /\ Sum(inFlight, Value) \in Int
    BY UnderWay DEF LossIsSum, LossAt
  <1>2. /\ Amount!Loss' = locked' * Amount!Unit("source")'
               - minted' * Amount!Unit("destination")' - Sum(inFlight', Value')
        /\ Sum(inFlight', Value') \in Int
    BY UnderWayNext DEF LossIsSum
  <1>3. Amount!Loss' = LossAt(locked', minted', Sum(inFlight', Value'))
    BY <1>2, SameUnits DEF LossAt
  <1>4. Amount!Loss \in Int
    <2>1. locked \in Nat /\ minted \in Nat
      BY AmountConstants DEF AmountTypes, Amount!TypeOK
    <2>2. Amount!Unit("source") \in Nat /\ Amount!Unit("destination") \in Nat
      BY Coarseness DEF AmountTypes, Amount!TypeOK
    <2> QED BY <1>1, <2>1, <2>2 DEF LossAt
  <1> QED BY <1>1, <1>2, <1>3, <1>4

Transfers(l, m, s, d) ==
    /\ LossAt(l + d, m, s + d * Amount!Unit("source")) = LossAt(l, m, s)
    /\ LossAt(l, m - d, s + d * Amount!Unit("destination")) = LossAt(l, m, s)
    /\ \A v \in Int : LossAt(l, m + d, s) =
           LossAt(l, m, s + v) + (v - d * Amount!Unit("destination"))
    /\ \A v \in Int : LossAt(l - d, m, s) =
           LossAt(l, m, s + v) + (v - d * Amount!Unit("source"))
    /\ \A v \in Int : LossAt(l, m, s) = LossAt(l, m, s + v) + v

LEMMA Moves ==
    ASSUME AmountTypes,
           NEW l \in Nat, NEW m \in Nat, NEW s \in Int, NEW d \in Int
    PROVE  Transfers(l, m, s, d)
  <1>1. PICK p \in Nat : p = Amount!Unit("source")
    BY Coarseness DEF AmountTypes, Amount!TypeOK
  <1>2. PICK q \in Nat : q = Amount!Unit("destination")
    BY Coarseness DEF AmountTypes, Amount!TypeOK
  <1>3. (l + d) * p = l * p + d * p /\ (l - d) * p = l * p - d * p
    OBVIOUS
  <1>4. (m + d) * q = m * q + d * q /\ (m - d) * q = m * q - d * q
    OBVIOUS
  <1>5. /\ l * p \in Int /\ d * p \in Int /\ m * q \in Int /\ d * q \in Int
    OBVIOUS
  <1>6. (l + d) * p - m * q - (s + d * p) = l * p - m * q - s
    BY <1>3, <1>5
  <1>7. l * p - (m - d) * q - (s + d * q) = l * p - m * q - s
    BY <1>4, <1>5
  <1>8. \A v \in Int : l * p - (m + d) * q - s = l * p - m * q - (s + v) + (v - d * q)
    BY <1>4, <1>5
  <1>9. \A v \in Int : (l - d) * p - m * q - s = l * p - m * q - (s + v) + (v - d * p)
    BY <1>3, <1>5
  <1>10. \A v \in Int : l * p - m * q - s = l * p - m * q - (s + v) + v
    BY <1>5
  <1> QED BY <1>1, <1>2, <1>6, <1>7, <1>8, <1>9, <1>10 DEF LossAt, Transfers

\* A loss within its bounds stays there.
LEMMA LossStays ==
    ASSUME AmountInv, AmountTypes', difference' = difference, NEW d \in Int,
           Amount!Loss' = Amount!Loss + d,
           \/ d = 0 /\ executed' = executed /\ stuck' = stuck
           \/ /\ Amount!Exact => 0 <= d /\ d <= Amount!Coarse - 1
              /\ executed' = executed + 1 /\ stuck' = stuck
           \/ d >= 0 /\ executed' = executed + 1 /\ stuck' = stuck + d
    PROVE  AmountInv'
  <1>1. AmountTypes /\ Amount!Backed /\ Amount!LossIsBounded
    BY DEF AmountInv
  <1>2. /\ Amount!Coarse' = Amount!Coarse /\ (Amount!Exact' <=> Amount!Exact)
        /\ Amount!Coarse \in Nat \ {0}
    BY <1>1, SameUnits, Coarseness DEF AmountTypes, Amount!TypeOK
  <1>3. executed \in Nat /\ stuck \in Nat /\ Amount!Loss \in Int
    BY <1>1, LossOf DEF AmountTypes, Amount!TypeOK
  <1>4. PICK e \in Nat : e = Amount!Coarse - 1
    BY <1>2
  <1>5. (executed + 1) * e = executed * e + e /\ executed * e \in Nat
    BY <1>3
  <1>6. ASSUME Amount!Exact
        PROVE  Amount!Loss' >= 0 /\ Amount!Loss' <= executed' * e + stuck'
    <2>1. Amount!Loss >= 0 /\ Amount!Loss <= executed * e + stuck
      BY <1>1, <1>4, <1>6 DEF Amount!Backed, Amount!LossIsBounded
    <2>2. CASE d = 0 /\ executed' = executed /\ stuck' = stuck
      BY <1>3, <1>5, <2>1, <2>2
    <2>3. CASE 0 <= d /\ d <= e /\ executed' = executed + 1 /\ stuck' = stuck
      BY <1>3, <1>5, <2>1, <2>3
    <2>4. CASE d >= 0 /\ executed' = executed + 1 /\ stuck' = stuck + d
      BY <1>3, <1>5, <2>1, <2>4
    <2> QED BY <1>4, <1>6, <2>2, <2>3, <2>4
  <1> QED BY <1>2, <1>4, <1>6 DEF AmountInv, Amount!Backed, Amount!LossIsBounded

LEMMA AmountVariables ==
    ASSUME AmountInv
    PROVE  /\ AmountTypes /\ Amount!TypeOK /\ wallets + locked = Supply
           /\ difference \in Differences
           /\ wallets \in Nat /\ locked \in Nat /\ minted \in Nat
           /\ deposits \in Nat /\ executed \in Nat /\ stuck \in Nat
           /\ executed + Cardinality(inFlight) = deposits
           /\ IsFiniteSet(inFlight) /\ Cardinality(inFlight) \in Nat
           /\ \A m \in inFlight : /\ m.amount \in Nat \ {0}
                                  /\ m.from \in {"source", "destination"}
           /\ Supply \in Nat
  <1>1. AmountTypes
    BY DEF AmountInv
  <1> QED BY <1>1, AmountConstants, FS_CardinalityType
          DEF AmountTypes, Amount!TypeOK, Messages

LEMMA LockStep ==
    ASSUME AmountInv, NEW a \in 1 .. Supply, Amount!Lock(a)
    PROVE  AmountInv'
  <1>1. /\ a <= wallets /\ wallets' = wallets - a /\ locked' = locked + a
        /\ minted' = minted /\ Amount!Deposit("source", a)
    BY DEF Amount!Lock
  <1>2. /\ deposits' = deposits + 1 /\ executed' = executed /\ stuck' = stuck
        /\ difference' = difference
        /\ inFlight' = inFlight \cup {[id |-> deposits + 1, from |-> "source", amount |-> a]}
    BY <1>1 DEF Amount!Deposit
  <1>3. a \in Nat \ {0} /\ wallets' + locked' = Supply
    BY <1>1, AmountVariables
  <1>4. Amount!TypeOK'
    <2>1. wallets' \in 0 .. Supply /\ locked' \in 0 .. Supply
      BY <1>1, <1>3, AmountVariables
    <2>2. executed' \in 0 .. deposits'
      BY <1>2, AmountVariables DEF Amount!TypeOK
    <2>3. \A m \in inFlight' : m.amount \in Nat \ {0}
      BY <1>2, <1>3, AmountVariables
    <2> QED BY <1>1, <1>2, <2>1, <2>2, <2>3, AmountVariables DEF Amount!TypeOK
  <1>5. /\ AmountTypes'
        /\ Sum(inFlight', Value') = a * Amount!Unit("source") + Sum(inFlight, Value)
    BY <1>1, <1>3, <1>4, AmountVariables, DepositAdds
  <1>6. PICK s \in Int : s = Sum(inFlight, Value)
    BY <1>2, <1>5, AmountVariables, LossOf
  <1>7. Amount!Unit("source") \in Nat
    BY AmountVariables, Coarseness
  <1>8. Sum(inFlight', Value') = s + a * Amount!Unit("source")
    BY <1>3, <1>5, <1>6, <1>7
  <1>9. LossAt(locked + a, minted, s + a * Amount!Unit("source")) = LossAt(locked, minted, s)
    <2>1. AmountTypes /\ locked \in Nat /\ minted \in Nat /\ a \in Int
      BY <1>3, AmountVariables
    <2>2. Transfers(locked, minted, s, a)
      BY <2>1, Moves
    <2> QED BY <2>2 DEF Transfers
  <1>10. Amount!Loss' = Amount!Loss /\ Amount!Loss \in Int
    BY <1>1, <1>2, <1>5, <1>6, <1>8, <1>9, AmountVariables, LossOf
  <1>11. Amount!Loss' = Amount!Loss + 0
    BY <1>10
  <1> QED BY <1>2, <1>5, <1>11, LossStays

LEMMA BurnStep ==
    ASSUME AmountInv, NEW a \in 1 .. MaxUint, Amount!Burn(a)
    PROVE  AmountInv'
  <1>1. /\ a <= minted /\ minted' = minted - a /\ wallets' = wallets /\ locked' = locked
        /\ Amount!Deposit("destination", a)
    BY DEF Amount!Burn
  <1>2. /\ deposits' = deposits + 1 /\ executed' = executed /\ stuck' = stuck
        /\ difference' = difference
        /\ inFlight' = inFlight \cup
               {[id |-> deposits + 1, from |-> "destination", amount |-> a]}
    BY <1>1 DEF Amount!Deposit
  <1>3. a \in Nat \ {0} /\ wallets' + locked' = Supply
    BY <1>1, AmountConstants, AmountVariables
  <1>4. Amount!TypeOK'
    <2>1. minted' \in Nat
      BY <1>1, <1>3, AmountVariables
    <2>2. executed' \in 0 .. deposits'
      BY <1>2, AmountVariables DEF Amount!TypeOK
    <2>3. \A m \in inFlight' : m.amount \in Nat \ {0}
      BY <1>2, <1>3, AmountVariables
    <2> QED BY <1>1, <1>2, <2>1, <2>2, <2>3, AmountVariables DEF Amount!TypeOK
  <1>5. /\ AmountTypes'
        /\ Sum(inFlight', Value') = a * Amount!Unit("destination") + Sum(inFlight, Value)
    BY <1>1, <1>3, <1>4, AmountVariables, DepositAdds
  <1>6. PICK s \in Int : s = Sum(inFlight, Value)
    BY <1>2, <1>5, AmountVariables, LossOf
  <1>7. Amount!Unit("destination") \in Nat
    BY AmountVariables, Coarseness
  <1>8. Sum(inFlight', Value') = s + a * Amount!Unit("destination")
    BY <1>3, <1>5, <1>6, <1>7
  <1>9. LossAt(locked, minted - a, s + a * Amount!Unit("destination")) =
            LossAt(locked, minted, s)
    <2>1. AmountTypes /\ locked \in Nat /\ minted \in Nat /\ a \in Int
      BY <1>3, AmountVariables
    <2>2. Transfers(locked, minted, s, a)
      BY <2>1, Moves
    <2> QED BY <2>2 DEF Transfers
  <1>10. Amount!Loss' = Amount!Loss /\ Amount!Loss \in Int
    BY <1>1, <1>2, <1>5, <1>6, <1>8, <1>9, AmountVariables, LossOf
  <1>11. Amount!Loss' = Amount!Loss + 0
    BY <1>10
  <1> QED BY <1>2, <1>5, <1>11, LossStays

LEMMA RelayStep ==
    ASSUME AmountInv, Amount!Relay
    PROVE  AmountInv'
  <1>1. PICK m \in inFlight : \E k \in Amount!Multipliers(Amount!Abs(difference)) :
            LET amount == Amount!Convert(m.amount, Amount!Lost(m.from), k) IN
            Amount!Mint(m, amount) \/ Amount!Release(m, amount) \/ Amount!Malformed(m, amount)
    BY DEF Amount!Relay
  <1>2. PICK k \in Amount!Multipliers(Amount!Abs(difference)) :
            LET amount == Amount!Convert(m.amount, Amount!Lost(m.from), k) IN
            Amount!Mint(m, amount) \/ Amount!Release(m, amount) \/ Amount!Malformed(m, amount)
    BY <1>1
  <1>3. m.amount \in Nat /\ m.from \in {"source", "destination"} /\ difference \in Differences
    BY AmountVariables
  <1>4. PICK b \in Nat : b = Amount!Convert(m.amount, Amount!Lost(m.from), k)
    BY <1>3, ConvertType
  <1>5. Amount!Mint(m, b) \/ Amount!Release(m, b) \/ Amount!Malformed(m, b)
    BY <1>2, <1>4
  <1>6. PICK v \in Nat : v = m.amount * Amount!Unit(m.from)
    BY <1>3, Coarseness
  <1>7. Amount!Exact => /\ b * Amount!Unit(Other(m.from)) <= v
                        /\ v - b * Amount!Unit(Other(m.from)) <= Amount!Coarse - 1
    BY <1>3, <1>4, <1>6, ConvertLoses
  <1>8. b * Amount!Unit(Other(m.from)) \in Nat
    BY <1>3, Coarseness
  <1>9. Amount!Executes(m)
    BY <1>5 DEF Amount!Mint, Amount!Release, Amount!Malformed
  <1>10. /\ inFlight' = inFlight \ {m} /\ executed' = executed + 1
         /\ difference' = difference /\ deposits' = deposits
    BY <1>9 DEF Amount!Executes
  <1>11. executed' \in 0 .. deposits'
    <2>1. Cardinality(inFlight) # 0
      BY AmountVariables, FS_EmptySet
    <2> QED BY <1>10, <2>1, AmountVariables
  <1>12. \A x \in inFlight' : x.amount \in Nat \ {0}
    BY <1>10, AmountVariables
  <1>13. /\ wallets' \in 0 .. Supply /\ locked' \in 0 .. Supply /\ minted' \in Nat
         /\ stuck' \in Nat /\ wallets' + locked' = Supply
    <2>1. CASE Amount!Mint(m, b)
      BY <2>1, AmountVariables DEF Amount!Mint
    <2>2. CASE Amount!Release(m, b)
      BY <2>2, AmountVariables DEF Amount!Release
    <2>3. CASE Amount!Malformed(m, b)
      BY <1>6, <2>3, AmountVariables DEF Amount!Malformed
    <2> QED BY <1>5, <2>1, <2>2, <2>3
  <1>14. Amount!TypeOK'
    BY <1>3, <1>10, <1>11, <1>12, <1>13 DEF Amount!TypeOK
  <1>15. AmountTypes' /\ Sum(inFlight, Value) = v + Sum(inFlight', Value')
    BY <1>6, <1>9, <1>13, <1>14, AmountVariables, ExecutionRemoves
  <1>16. PICK s \in Int : s = Sum(inFlight', Value')
    BY <1>10, <1>15, AmountVariables, LossOf
  <1>17. Sum(inFlight, Value) = s + v
    BY <1>15, <1>16
  <1>18. /\ Amount!Loss = LossAt(locked, minted, s + v)
         /\ Amount!Loss' = LossAt(locked', minted', s)
    BY <1>10, <1>15, <1>16, <1>17, AmountVariables, LossOf
  <1>19. CASE Amount!Mint(m, b)
    <2>1. /\ m.from = "source" /\ minted' = minted + b /\ locked' = locked /\ stuck' = stuck
      BY <1>19 DEF Amount!Mint
    <2>2. Other(m.from) = "destination"
      BY <2>1 DEF Other
    <2>3. LossAt(locked, minted + b, s) =
              LossAt(locked, minted, s + v) + (v - b * Amount!Unit("destination"))
      <3>1. AmountTypes /\ locked \in Nat /\ minted \in Nat /\ b \in Int
        BY AmountVariables
      <3>2. Transfers(locked, minted, s, b)
        BY <3>1, Moves
      <3> QED BY <3>2 DEF Transfers
    <2>4. PICK d \in Int : d = v - b * Amount!Unit("destination")
      BY <1>6, <1>8, <2>2
    <2>5. Amount!Loss' = Amount!Loss + d
      BY <1>18, <2>1, <2>3, <2>4
    <2>6. Amount!Exact => 0 <= d /\ d <= Amount!Coarse - 1
      BY <1>6, <1>7, <1>8, <2>2, <2>4
    <2> QED BY <1>10, <1>15, <2>1, <2>5, <2>6, LossStays
  <1>20. CASE Amount!Release(m, b)
    <2>1. /\ m.from = "destination" /\ locked' = locked - b /\ minted' = minted
          /\ stuck' = stuck
      BY <1>20 DEF Amount!Release
    <2>2. Other(m.from) = "source"
      BY <2>1 DEF Other
    <2>3. LossAt(locked - b, minted, s) =
              LossAt(locked, minted, s + v) + (v - b * Amount!Unit("source"))
      <3>1. AmountTypes /\ locked \in Nat /\ minted \in Nat /\ b \in Int
        BY AmountVariables
      <3>2. Transfers(locked, minted, s, b)
        BY <3>1, Moves
      <3> QED BY <3>2 DEF Transfers
    <2>4. PICK d \in Int : d = v - b * Amount!Unit("source")
      BY <1>6, <1>8, <2>2
    <2>5. Amount!Loss' = Amount!Loss + d
      BY <1>18, <2>1, <2>3, <2>4
    <2>6. Amount!Exact => 0 <= d /\ d <= Amount!Coarse - 1
      BY <1>6, <1>7, <1>8, <2>2, <2>4
    <2> QED BY <1>10, <1>15, <2>1, <2>5, <2>6, LossStays
  <1>21. CASE Amount!Malformed(m, b)
    <2>1. /\ stuck' = stuck + v /\ locked' = locked /\ minted' = minted
      BY <1>6, <1>21 DEF Amount!Malformed
    <2>2. LossAt(locked, minted, s) = LossAt(locked, minted, s + v) + v
      <3>1. AmountTypes /\ locked \in Nat /\ minted \in Nat /\ b \in Int
        BY AmountVariables
      <3>2. Transfers(locked, minted, s, b)
        BY <3>1, Moves
      <3> QED BY <3>2 DEF Transfers
    <2>3. Amount!Loss' = Amount!Loss + v
      BY <1>18, <2>1, <2>2
    <2> QED BY <1>6, <1>10, <1>15, <2>1, <2>3, LossStays
  <1> QED BY <1>5, <1>19, <1>20, <1>21

LEMMA AmountStep ==
    ASSUME AmountInv, Amount!Next
    PROVE  AmountInv'
  BY LockStep, BurnStep, RelayStep DEF Amount!Next
-----------------------------------------------------------------------------
(* All parts.                                                              *)

KeysInv == Key!TypeOK /\ Key!ReportedIsStored

\* The inductive invariant of the composition.
PartsInv == WatchInv /\ GasInv /\ ClientInv /\ AmountInv /\ KeysInv /\ StartInv

LEMMA Stutters ==
    /\ ClientInv /\ UNCHANGED Client!vars => ClientInv'
    /\ AmountInv /\ UNCHANGED Amount!vars => AmountInv'
  <1>1. ASSUME ClientInv, UNCHANGED Client!vars
        PROVE  ClientInv'
    BY <1>1 DEF ClientInv, Client!vars, Client!clientVars, Client!chainVars, Client!TypeOK,
       Place, Nonce, Pending, Good, Client!Sequential, Client!Bumps, Client!Done,
       Client!Operation, Client!Section
  <1>2. ASSUME AmountInv, UNCHANGED Amount!vars
        PROVE  AmountInv'
    <2>1. UNCHANGED <<difference, wallets, locked, minted, inFlight, deposits, executed, stuck>>
      BY <1>2 DEF Amount!vars
    <2>2. AmountTypes /\ AmountTypes'
      BY <1>2, <2>1 DEF AmountInv, AmountTypes, Amount!TypeOK, Messages
    <2>3. Value' = Value
      BY <2>1, SameUnits DEF Value
    <2>4. Amount!Loss' = Amount!Loss /\ Amount!Loss \in Int
      BY <2>1, <2>2, <2>3, LossOf
    <2>5. Amount!Loss' = Amount!Loss + 0
      BY <2>4
    <2> QED BY <1>2, <2>1, <2>2, <2>5, LossStays
  <1> QED BY <1>1, <1>2

\* Every part keeps its invariant: its own steps do, and the steps of the others
\* leave it alone.
THEOREM Invariance == HelpersSpec => []PartsInv
  <1>1. HelpersInit => PartsInv
    <2>1. Key!Init => KeysInv
      BY KeysInitTypes DEF KeysInv, Key!Init, Key!ReportedIsStored
    <2>2. GasAssumption /\ RangeAssumption
      BY HelpersAssumption
    <2> QED BY <2>1, <2>2, PartsBegin, WatchBegins, GasInit, ClientBegins, AmountBegins,
            StartInit DEF PartsInv
  <1>2. PartsInv /\ [HelpersNext]_allVars => PartsInv'
    <2> SUFFICES ASSUME PartsInv, [HelpersNext]_allVars PROVE PartsInv'
      OBVIOUS
    <2>1. WatchInv'
      BY PartsStep, WatchStep DEF PartsInv
    <2>2. GasInv'
      BY PartsStep, GasStep DEF PartsInv
    <2>3. ClientInv'
      BY PartsStep, ClientMoves, Stutters DEF PartsInv
    <2>4. AmountInv'
      BY PartsStep, AmountStep, Stutters DEF PartsInv
    <2>5. KeysInv'
      BY PartsStep, KeysNextTypes, KeysNextStored DEF PartsInv, KeysInv
    <2>6. StartInv'
      BY PartsStep, StartNext DEF PartsInv
    <2> QED BY <2>1, <2>2, <2>3, <2>4, <2>5, <2>6 DEF PartsInv
  <1> QED BY <1>1, <1>2, PTL DEF HelpersSpec
-----------------------------------------------------------------------------
\* Every variable of every part has its type.
THEOREM TypeCorrect == HelpersSpec => []PartsTypeOK
  <1>1. PartsInv => PartsTypeOK
    BY ClientGives, AmountVariables
       DEF PartsInv, PartsTypeOK, WatchInv, GasInv, KeysInv, StartInv
  <1> QED BY <1>1, Invariance, PTL

\* watchThenExecute finds only events that no reorganisation reverts, where as
\* many confirmations are waited for as a reorganisation is deep.
THEOREM WatchFindsFinalEvents == HelpersSpec => []FoundIsFinal
  <1>1. PartsInv => FoundIsFinal
    BY DEF PartsInv, WatchInv, FoundIsFinal
  <1> QED BY <1>1, Invariance, PTL

\* ... and has passed by no event, but in blocks FilterLogs failed for.
THEOREM WatchMissesNoEvent == HelpersSpec => []NothingPassedBy
  <1>1. PartsInv => NothingPassedBy
    BY DEF PartsInv, WatchInv, NothingPassedBy
  <1> QED BY <1>1, Invariance, PTL

\* The opts a transaction is sent with have a gas price or both fee caps, over
\* failed updates and the London upgrade (LockAndUpdateOpts).
THEOREM OptsAreNeverMixed == HelpersSpec => []OneKindOfPrice
  <1>1. PartsInv => OneKindOfPrice
    BY GasGives DEF PartsInv
  <1> QED BY <1>1, Invariance, PTL

\* A legacy gas price is within the configured limits, whatever the station, the
\* node and the multiplier say (SafeEstimateGas).
THEOREM LegacyPriceIsLimited == HelpersSpec => []PriceWithinLimits
  <1>1. PartsInv => PriceWithinLimits
    BY GasGives DEF PartsInv
  <1> QED BY <1>1, Invariance, PTL

\* The fee cap covers the tip, and the base fee unless the limit is below it;
\* it passes the limit only then, and by one gwei (EstimateGasLondon).
THEOREM FeeCapIsLimited == HelpersSpec => []FeeCapFollowsLimit
  <1>1. PartsInv => FeeCapFollowsLimit
    BY GasGives DEF PartsInv
  <1> QED BY <1>1, Invariance, PTL

\* With any number of goroutines of which none funds an ERC20 handler, or with
\* a single one that does what it likes, the shared client sends every
\* transaction with the pending nonce (LockNonceAndUpdate, FundErc20Handler).
THEOREM ClientSendsPendingNonce == HelpersSpec => []NonceIsPending
  <1>1. PartsInv => NonceIsPending
    BY ClientGives DEF PartsInv, NonceIsPending
  <1> QED BY <1>1, Invariance, PTL

\* For any number of transfers in both directions, in whatever order they are
\* relayed, minted tokens and transfers under way are backed by locked tokens,
\* as long as the multiplier fits an int64 (handleErc20DepositedEvent).
THEOREM TransfersAreBacked == HelpersSpec => []Backed
  <1>1. PartsInv => Backed
    BY DEF PartsInv, AmountInv, Backed
  <1> QED BY <1>1, Invariance, PTL

\* Each transfer executed loses less than a unit of the coarser token, and
\* nothing else is lost but what does not fit 32 bytes (ConstructErc20Proposal).
THEOREM TransfersLoseLittle == HelpersSpec => []LossIsBounded
  <1>1. PartsInv => LossIsBounded
    BY DEF PartsInv, AmountInv, LossIsBounded
  <1> QED BY <1>1, Invariance, PTL

\* Whatever commands run at the same time and wherever they are interrupted, a
\* key that was reported is in the keystore, with the two exceptions the
\* property names (generateKeypair and the import functions of account.go).
THEOREM ReportedKeysAreStored == HelpersSpec => []ReportedIsStored
  <1>1. PartsInv => ReportedIsStored
    BY DEF PartsInv, KeysInv, ReportedIsStored
  <1> QED BY <1>1, Invariance, PTL

\* When a listener polls, a message to any chain of the file has a writer, with
\* the contract of that chain (run in main.go, InitializeChain).
THEOREM WritersBeforeListeners == HelpersSpec => []ReadyBeforePolling
  <1>1. PartsInv => ReadyBeforePolling
    BY StartGives DEF PartsInv, ReadyBeforePolling
  <1> QED BY <1>1, Invariance, PTL

\* Over any restarts with any flags, a chain that shares its blockstore file
\* with no other passes over no block (run, NewBlockstore, TryLoadLatestBlock).
THEOREM ListenersResume == HelpersSpec => []ResumesOwnBlock
  <1>1. PartsInv => ResumesOwnBlock
    BY StartGives DEF PartsInv, ResumesOwnBlock
  <1> QED BY <1>1, Invariance, PTL
-----------------------------------------------------------------------------
(* The nonce lock: who has it, and how it is lost.                         *)

InSection(g) ==
    cpc[g] \in {"nonce", "send", "wait"} /\ Client!Section(g) = Client!Locked

\* The lock is held by a goroutine between LockNonceAndUpdate and UnlockNonce,
\* unless an operation has returned with it.
LockHasReason ==
    leaked = "no" => \A g \in Goroutines : nonceLock = g => InSection(g)

LEMMA LockReasonStep ==
    ASSUME ClientInv, LockHasReason, NEW g \in Goroutines, Client!Step(g)
    PROVE  LockHasReason'
  <1> SUFFICES ASSUME leaked' = "no", NEW h \in Goroutines, nonceLock' = h
               PROVE  InSection(h)'
    BY DEF LockHasReason
  <1>1. /\ Client!TypeOK /\ Place(g) /\ program' = program
        /\ cpc \in [Goroutines -> Client!Pcs]
        /\ h # Nobody
    BY ClientFrame, ClientConstants DEF ClientInv, Client!TypeOK
  <1>2. leaked = "no"
    BY <1>1 DEF Client!Step, Client!LockNonce, Client!UpdateNonce,
       Client!UpdateNonceFails, Client!ReadNonce, Client!WriteNonce, Client!Send,
       Client!SendFails, Client!Receipt, Client!NotFound, Client!ReceiptFails,
       Client!ReturnError, Client!Return, Client!TypeOK
  <1>3. nonceLock = h => InSection(h)
    BY <1>2 DEF LockHasReason
  <1>4. ASSUME cpc[g] = "wait", nonceLock = h, h # g
        PROVE  Client!Section(g) # Client!Locked
    BY <1>1, <1>4 DEF Place
  <1>5. CASE h # g
    <2>1. Own(h)' = Own(h)
      BY <1>5, ClientFrame
    <2>2. nonceLock = h
      BY <1>1, <1>5 DEF Client!Step, Client!LockNonce, Client!UpdateNonce,
         Client!UpdateNonceFails, Client!ReadNonce, Client!WriteNonce, Client!Send,
         Client!SendFails, Client!Receipt, Client!NotFound, Client!ReceiptFails,
         Client!ReturnError, Client!Return
    <2> QED BY <1>1, <1>3, <2>1, <2>2
            DEF Own, InSection, Client!Section, Client!Operation
  <1>6. CASE h = g
    <2> SUFFICES InSection(g)'
      BY <1>6
    <2>1. CASE Client!LockNonce(g)
      <3>1. cpc'[g] = "nonce"
        BY <1>1, <2>1 DEF Client!LockNonce, Client!Goto
      <3>2. Client!Section(g)' = Client!Section(g)
        BY <1>1, <2>1 DEF Client!LockNonce, Client!Section, Client!Operation
      <3> QED BY <2>1, <3>1, <3>2 DEF Client!LockNonce, InSection, Client!Locked
    <2>2. CASE Client!UpdateNonce(g)
      <3>1. cpc'[g] = "send" /\ nonceLock = g
        BY <1>1, <1>6, <2>2 DEF Client!UpdateNonce, Client!Goto
      <3>2. Client!Section(g)' = Client!Section(g)
        BY <1>1, <2>2 DEF Client!UpdateNonce, Client!Section, Client!Operation
      <3> QED BY <1>3, <1>6, <3>1, <3>2 DEF InSection, Client!Locked
    <2>3. CASE Client!UpdateNonceFails(g)
      BY <1>1, <1>6, <2>3 DEF Client!UpdateNonceFails
    <2>4. CASE Client!ReadNonce(g) \/ Client!WriteNonce(g)
      <3>1. nonceLock = g /\ cpc[g] \in {"begin", "add"}
        BY <1>6, <2>4 DEF Client!ReadNonce, Client!WriteNonce
      <3> QED BY <1>3, <1>6, <3>1 DEF InSection
    <2>5. CASE Client!Send(g)
      <3>1. cpc'[g] = "wait" /\ nonceLock = g
        BY <1>1, <1>6, <2>5 DEF Client!Send, Client!Goto
      <3>2. Client!Section(g)' = Client!Section(g)
        BY <1>1, <2>5 DEF Client!Send, Client!Section, Client!Operation
      <3> QED BY <1>3, <1>6, <3>1, <3>2 DEF InSection, Client!Locked
    <2>6. ~Client!ReturnError(g)
      <3> SUFFICES ASSUME Client!ReturnError(g)
                   PROVE  FALSE
        OBVIOUS
      <3>1. nonceLock = g
        BY <1>6 DEF Client!ReturnError
      <3>2. Client!Section(g) = Client!Locked
        BY <1>3, <1>6, <3>1 DEF InSection
      <3> QED BY <3>2 DEF Client!ReturnError
    <2>7. ASSUME NEW how
          PROVE  ~Client!Return(g, how)
      <3> SUFFICES ASSUME Client!Return(g, how)
                   PROVE  FALSE
        OBVIOUS
      <3>1. nonceLock = g => Client!Section(g) = Client!Locked
        BY <1>3, <1>6 DEF InSection
      <3> QED BY <1>1, <1>6, <3>1 DEF Client!Return
    <2>8. CASE Client!NotFound(g)
      <3>1. UNCHANGED <<cpc, call, section, nonceLock>>
        BY <2>7, <2>8 DEF Client!NotFound
      <3> QED BY <1>1, <1>3, <1>6, <3>1 DEF InSection, Client!Section, Client!Operation
    <2> QED BY <2>1, <2>2, <2>3, <2>4, <2>5, <2>6, <2>7, <2>8
            DEF Client!Step, Client!SendFails, Client!Receipt, Client!ReceiptFails
  <1> QED BY <1>5, <1>6

\* Whatever fails, only an operation that returned an error with the lock keeps
\* it from the others (LockNonceAndUpdate, UnlockNonce, WaitForTx).
THEOREM LockIsGivenBack == HelpersSpec => []LockHasReason
  <1>1. HelpersInit => LockHasReason
    BY ClientConstants, PartsBegin DEF LockHasReason, Client!Init
  <1>2. ASSUME PartsInv, LockHasReason, [HelpersNext]_allVars
        PROVE  LockHasReason'
    <2>1. ASSUME UNCHANGED Client!vars
          PROVE  LockHasReason'
      BY <1>2, <2>1 DEF Client!vars, Client!clientVars, Client!chainVars, LockHasReason,
         InSection, Client!Section, Client!Operation
    <2>2. ASSUME Client!Mine
          PROVE  LockHasReason'
      BY <1>2, <2>2 DEF Client!Mine, Client!clientVars, LockHasReason, InSection,
         Client!Section, Client!Operation
    <2>3. Client!Next \/ UNCHANGED Client!vars
      BY <1>2, PartsStep
    <2> QED BY <1>2, <2>1, <2>2, <2>3, LockReasonStep DEF Client!Next, PartsInv
  <1> QED BY <1>1, <1>2, Invariance, PTL DEF HelpersSpec
=============================================================================
