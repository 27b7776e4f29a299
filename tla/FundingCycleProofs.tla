------------------------- MODULE FundingCycleProofs -------------------------
(* Theorems about FundingCycle, for every value of its constants. *)
EXTENDS FundingCycle, FiniteSetTheorems, TLAPS

-----------------------------------------------------------------------------
(* Positions on the sorted list *)

\* How far behind the index the batch reaches r.
Ahead(r) == IF r >= index THEN r - index ELSE r - index + N

\* The arithmetic of the wrap-around.
LEMMA ModRange == \A x \in Nat : x % N \in Recipients
  BY NAssumption DEF Recipients

LEMMA ModSmall == \A x \in Recipients : x % N = x
  BY NAssumption DEF Recipients

LEMMA ModOnce == \A x \in Recipients : (x + N) % N = x
  BY NAssumption DEF Recipients

\* A batch is a function into the recipients.
LEMMA BatchTyped ==
    ASSUME NEW s \in Recipients
    PROVE  BatchFrom(s) \in [1..BatchSize -> Recipients]
<1> SUFFICES ASSUME NEW i \in 1..BatchSize
             PROVE  (s + i - 1) % N \in Recipients
  BY DEF BatchFrom
<1>1. s + i - 1 \in Nat
  BY NAssumption, BatchSizeAssumption DEF Recipients
<1> QED
  BY <1>1, ModRange

\* The next index is a position again.
LEMMA NextIndexTyped ==
    ASSUME NEW s \in Recipients
    PROVE  NextIndex(s) \in Recipients
<1>1. s + BatchSize \in Nat
  BY NAssumption, BatchSizeAssumption DEF Recipients
<1> QED
  BY <1>1, ModRange DEF NextIndex

-----------------------------------------------------------------------------
(* Type correctness *)

\* A step deviates at most once.
LEMMA FaultTyped ==
    ASSUME faults \in Nat, NEW kind, NoFault \/ Fault(kind)
    PROVE  faults' \in Nat
  BY DEF NoFault, Fault

\* The end of a cycle leaves well-typed locals.
LEMMA EndTyped ==
    ASSUME TypeOK, EndCycle
    PROVE  /\ pc' = "wait" /\ batch' = <<>> /\ fit' = 0 /\ bad' = {}
           /\ miner' = NoMiner /\ exhausted' = {}
           /\ attempts' = 0 /\ attempt' = 0
           /\ fit' \in 0..BatchSize /\ attempt' \in 0..MaxRetries
  BY BatchSizeAssumption, MaxRetriesAssumption DEF EndCycle

\* Failing over to another miner leaves well-typed locals.
LEMMA NextMinerTyped ==
    ASSUME TypeOK, pc \in {"lookup", "send", "record"}, NextMiner
    PROVE  /\ pc' = "pick" /\ miner' = NoMiner
           /\ exhausted' \subseteq miners
           /\ fit' \in 0..BatchSize /\ bad' \subseteq Recipients
           /\ attempt' \in 0..MaxRetries
  BY BatchSizeAssumption, MaxRetriesAssumption DEF NextMiner, TypeOK

\* So does trying the same miner again.
LEMMA RetryTyped ==
    ASSUME TypeOK, pc \in {"send", "record"}, RetryAttempt
    PROVE  /\ \/ pc' = "pick" /\ miner' = NoMiner
              \/ pc' = "send" /\ miner' = miner /\ exhausted' = exhausted
           /\ exhausted' \subseteq miners
           /\ fit' \in 0..BatchSize /\ bad' \subseteq Recipients
           /\ attempt' \in 0..MaxRetries
<1>1. CASE attempt < MaxRetries
  BY <1>1, MaxRetriesAssumption DEF RetryAttempt, TypeOK
<1>2. CASE ~(attempt < MaxRetries)
  BY <1>2, NextMinerTyped DEF RetryAttempt
<1> QED
  BY <1>1, <1>2

\* How often a recipient stands in the transaction is a number.
LEMMA SharesTyped ==
    ASSUME TypeOK, NEW r \in Recipients
    PROVE  Shares(r) \in Nat
<1>1. IsFiniteSet({i \in 1..fit : batch[i] = r})
  <2>1. IsFiniteSet(1..fit)
    BY FS_Interval, BatchSizeAssumption DEF TypeOK
  <2> QED
    BY <2>1, FS_Subset
<1> QED
  BY <1>1, FS_CardinalityType DEF Shares

LEMMA BroadcastTyped ==
    ASSUME TypeOK, Broadcast
    PROVE  got' \in [Recipients -> Nat]
<1>1. \A r \in Recipients : got[r] + Shares(r) \in Nat
  BY SharesTyped DEF TypeOK
<1> QED
  BY <1>1 DEF Broadcast

\* One lemma for the actions that leave the transaction alone or build it, ...
LEMMA TypeStart ==
    ASSUME TypeOK, StartCycle PROVE TypeOK'
<1>1. index' \in Recipients /\ batch' \in [1..BatchSize -> Recipients]
  BY NextIndexTyped, BatchTyped DEF StartCycle, TypeOK
<1>2. age' \in [Recipients -> Nat]
  BY DEF StartCycle, TypeOK
<1>3. got' \in [Recipients -> Nat] /\ logged' \in [Recipients -> Nat] /\ lost' \in Nat
  BY DEF StartCycle, Nothing
<1>4. miners' \subseteq Miners /\ faults' \in Nat
  BY FaultTyped DEF StartCycle, TypeOK
<1>5. pc' = "pick" /\ exhausted' = {} /\ miner' = NoMiner
  BY DEF StartCycle, TypeOK
<1>6. fit' \in 0..BatchSize /\ bad' \subseteq Recipients
      /\ attempts' \in Nat /\ attempt' \in 0..MaxRetries
  BY DEF StartCycle, TypeOK
<1> QED
  BY <1>1, <1>2, <1>3, <1>4, <1>5, <1>6 DEF TypeOK

LEMMA TypePick ==
    ASSUME TypeOK, PickMiner PROVE TypeOK'
<1> USE DEF TypeOK, PickMiner, chain
<1>1. faults' \in Nat
  BY FaultTyped
<1>2. attempts' \in Nat
  OBVIOUS
<1>3. PICK m \in miners \ exhausted, k \in 0..BatchSize :
         IF k = 0
         THEN exhausted' = exhausted \cup {m} /\ UNCHANGED <<pc, fit, miner, attempt>>
         ELSE fit' = k /\ miner' = m /\ attempt' = 1 /\ pc' = "lookup"
              /\ UNCHANGED exhausted
  OBVIOUS
<1>4. 1 \in 0..MaxRetries
  BY MaxRetriesAssumption
<1>5. CASE k = 0
  BY <1>1, <1>2, <1>3, <1>5
<1>6. CASE k # 0
  BY <1>1, <1>2, <1>3, <1>4, <1>6
<1> QED
  BY <1>5, <1>6

LEMMA TypeLookUp ==
    ASSUME TypeOK, LookUpAddresses PROVE TypeOK'
<1>1. faults' \in Nat
  BY FaultTyped DEF LookUpAddresses, TypeOK
<1>2. {batch[i] : i \in 1..fit} \subseteq Recipients
  BY BatchSizeAssumption DEF LookUpAddresses, TypeOK
<1>3. \/ NextMiner
      \/ /\ bad' \subseteq {batch[i] : i \in 1..fit}
         /\ pc' = "send"
         /\ UNCHANGED <<fit, miner, exhausted, attempt>>
  BY DEF LookUpAddresses
<1>4. CASE NextMiner
  BY <1>1, <1>4, NextMinerTyped DEF LookUpAddresses, TypeOK, chain
<1>5. CASE ~NextMiner
  BY <1>1, <1>2, <1>3, <1>5 DEF LookUpAddresses, TypeOK, chain
<1> QED
  BY <1>4, <1>5

\* ... and for those that send, record or end it.
LEMMA TypeRetry ==
    ASSUME TypeOK,
           TransferErrs \/ TransferAnswerLost \/ RecordRaises
    PROVE  TypeOK'
<1>1. RetryAttempt /\ pc \in {"send", "record"}
  BY DEF TransferErrs, TransferAnswerLost, RecordRaises
<1>2. faults' \in Nat
  BY FaultTyped DEF TransferErrs, TransferAnswerLost, RecordRaises, TypeOK
<1>3. got' \in [Recipients -> Nat] /\ lost' \in Nat
  BY BroadcastTyped DEF TransferErrs, TransferAnswerLost, RecordRaises, TypeOK, chain
<1>4. UNCHANGED <<index, batch, miners, attempts, logged, age>>
  BY DEF TransferErrs, TransferAnswerLost, RecordRaises, chain
<1> QED
  BY <1>1, <1>2, <1>3, <1>4, RetryTyped DEF TypeOK

LEMMA TypeRefused ==
    ASSUME TypeOK, TransferRefused PROVE TypeOK'
<1>1. faults' \in Nat
  BY FaultTyped DEF TransferRefused, TypeOK
<1> QED
  BY <1>1, NextMinerTyped DEF TransferRefused, TypeOK, chain

LEMMA TypeSucceeds ==
    ASSUME TypeOK, TransferSucceeds PROVE TypeOK'
<1>1. got' \in [Recipients -> Nat]
  BY BroadcastTyped DEF TransferSucceeds
<1> QED
  BY <1>1 DEF TransferSucceeds, TypeOK, locals

LEMMA TypeRecord ==
    ASSUME TypeOK, RecordTransaction PROVE TypeOK'
<1>1. logged' \in [Recipients -> Nat]
  BY DEF RecordTransaction, TypeOK
<1>2. EndCycle
  BY DEF RecordTransaction, AfterRecord
<1> QED
  BY <1>1, <1>2, EndTyped DEF RecordTransaction, TypeOK

LEMMA TypeGiveUp ==
    ASSUME TypeOK, GiveUpCycle PROVE TypeOK'
  BY EndTyped DEF GiveUpCycle, TypeOK, chain

LEMMA TypeCrash ==
    ASSUME TypeOK, CrashAndRestart PROVE TypeOK'
<1>1. index' \in Recipients /\ age' \in [Recipients -> Nat]
  BY NAssumption DEF CrashAndRestart, Recipients, Nothing
<1>2. faults' \in Nat /\ lost' \in Nat
  BY FaultTyped DEF CrashAndRestart, TypeOK
<1>3. EndCycle
  BY DEF CrashAndRestart
<1>4. miners' = {} /\ got' \in [Recipients -> Nat]
      /\ logged' \in [Recipients -> Nat]
  BY DEF CrashAndRestart, TypeOK
<1>5. /\ pc' = "wait" /\ batch' = <<>> /\ bad' = {}
      /\ miner' = NoMiner /\ exhausted' = {}
      /\ attempts' \in Nat
      /\ fit' \in 0..BatchSize /\ attempt' \in 0..MaxRetries
  BY <1>3, EndTyped
<1> QED
  BY <1>1, <1>2, <1>4, <1>5 DEF TypeOK

LEMMA TypeStep ==
    ASSUME TypeOK, [Next]_vars PROVE TypeOK'
<1>1. CASE NothingToCycle
  <2>1. faults' \in Nat
    BY <1>1, FaultTyped DEF NothingToCycle, TypeOK
  <2> QED
    BY <1>1, <2>1 DEF NothingToCycle, TypeOK, locals, chain
<1>2. CASE UNCHANGED vars
  BY <1>2 DEF TypeOK, vars, locals, chain
<1> QED
  BY <1>1, <1>2, TypeStart, TypePick, TypeLookUp, TypeRetry, TypeRefused,
     TypeSucceeds, TypeRecord, TypeGiveUp, TypeCrash DEF Next, Cycle

\* Type correctness of the funding cycle, for any number of recipients and
\* miners and any batch size (agent.py, _run_funding_cycle).
THEOREM CycleTypeCorrect == Spec => []TypeOK
<1>1. Init => TypeOK
  BY NAssumption, BatchSizeAssumption, MaxRetriesAssumption
  DEF Init, TypeOK, Recipients, Nothing
<1>2. TypeOK /\ [Next]_vars => TypeOK'
  BY TypeStep
<1> QED
  BY <1>1, <1>2, PTL DEF Spec

-----------------------------------------------------------------------------
(* Nobody is skipped *)

\* The age of a recipient, in whole batches, and its distance from the index
\* add up to less than one turn of the list.
AheadInv == \A r \in Recipients : age[r] * BatchSize + Ahead(r) < N

LEMMA AheadRange ==
    ASSUME index \in Recipients, NEW r \in Recipients
    PROVE  Ahead(r) \in Recipients /\ (index + Ahead(r)) % N = r
<1>1. CASE r >= index
  BY <1>1, NAssumption, ModSmall DEF Ahead, Recipients
<1>2. CASE r < index
  BY <1>2, NAssumption, ModOnce DEF Ahead, Recipients
<1> QED
  BY <1>1, <1>2, NAssumption DEF Recipients

\* Whoever is within BatchSize of the index is in the batch.
LEMMA NearIsInBatch ==
    ASSUME index \in Recipients, NEW r \in Recipients, Ahead(r) < BatchSize
    PROVE  \E i \in 1..BatchSize : BatchFrom(index)[i] = r
<1> DEFINE i == Ahead(r) + 1
<1>1. Ahead(r) \in Nat /\ (index + Ahead(r)) % N = r
  BY AheadRange DEF Recipients
<1>2. i \in 1..BatchSize
  BY <1>1, BatchSizeAssumption
<1>3. index + i - 1 = index + Ahead(r)
  BY <1>1 DEF Recipients
<1> HIDE DEF i
<1>4. BatchFrom(index)[i] = r
  BY <1>1, <1>2, <1>3 DEF BatchFrom
<1> QED
  BY <1>2, <1>4

\* Whoever is further behind comes closer by one batch.
LEMMA FarComesCloser ==
    ASSUME index \in Recipients, index' = NextIndex(index),
           NEW r \in Recipients, Ahead(r) >= BatchSize
    PROVE  Ahead(r)' = Ahead(r) - BatchSize
<1>1. Ahead(r) \in Recipients
  BY AheadRange
<1>2. BatchSize < N
  BY <1>1, NAssumption, BatchSizeAssumption DEF Recipients
<1>3. CASE index + BatchSize < N
  <2>1. index' = index + BatchSize
    BY <1>3, NAssumption, BatchSizeAssumption, ModSmall DEF NextIndex, Recipients
  <2> QED
    BY <2>1, <1>3, NAssumption, BatchSizeAssumption DEF Ahead, Recipients
<1>4. CASE index + BatchSize >= N
  <2>1. index + BatchSize - N \in Recipients
    BY <1>2, <1>4, NAssumption, BatchSizeAssumption DEF Recipients
  <2>2. index' = index + BatchSize - N
    BY <2>1, ModOnce, NAssumption, BatchSizeAssumption DEF NextIndex, Recipients
  <2> QED
    BY <2>2, <1>2, <1>4, NAssumption, BatchSizeAssumption DEF Ahead, Recipients
<1> QED
  BY <1>3, <1>4, NAssumption, BatchSizeAssumption DEF Recipients

LEMMA AheadStart ==
    ASSUME TypeOK, AheadInv, StartCycle PROVE AheadInv'
<1> SUFFICES ASSUME NEW r \in Recipients
             PROVE  age'[r] * BatchSize + Ahead(r)' < N
  BY DEF AheadInv
<1>1. index \in Recipients /\ index' \in Recipients /\ index' = NextIndex(index)
  BY NextIndexTyped DEF StartCycle, TypeOK
<1>2. age[r] \in Nat /\ Ahead(r) \in Nat
  <2>1. age[r] \in Nat
    BY DEF TypeOK
  <2>2. Ahead(r) \in Recipients
    BY <1>1, AheadRange
  <2> QED
    BY <2>1, <2>2 DEF Recipients
<1>3. Ahead(r)' \in Recipients
  BY <1>1, NAssumption DEF Ahead, Recipients
<1>4. CASE \E i \in 1..BatchSize : BatchFrom(index)[i] = r
  <2>1. age'[r] = 0
    BY <1>4 DEF StartCycle
  <2> QED
    BY <2>1, <1>3, NAssumption, BatchSizeAssumption DEF Recipients
<1>5. CASE ~\E i \in 1..BatchSize : BatchFrom(index)[i] = r
  <2>1. age'[r] = age[r] + 1
    BY <1>5 DEF StartCycle
  <2>2. Ahead(r) >= BatchSize
    BY <1>1, <1>2, <1>5, NearIsInBatch, BatchSizeAssumption
  <2>3. Ahead(r)' = Ahead(r) - BatchSize
    BY <1>1, <2>2, FarComesCloser
  <2>4. age[r] * BatchSize + Ahead(r) < N
    BY DEF AheadInv
  <2>5. (age[r] + 1) * BatchSize = age[r] * BatchSize + BatchSize
    BY <1>2, BatchSizeAssumption
  <2>6. age[r] * BatchSize \in Nat
    BY <1>2, BatchSizeAssumption
  <2> QED
    BY <2>1, <2>3, <2>4, <2>5, <2>6, <1>2, NAssumption, BatchSizeAssumption
<1> QED
  BY <1>4, <1>5

LEMMA AheadStep ==
    ASSUME TypeOK, AheadInv, [Next]_vars PROVE AheadInv'
<1>1. CASE StartCycle
  BY <1>1, AheadStart
<1>2. CASE CrashAndRestart
  <2>1. \A r \in Recipients : age'[r] = 0 /\ Ahead(r)' \in Recipients
    BY <1>2, NAssumption DEF CrashAndRestart, Nothing, Ahead, Recipients
  <2> QED
    BY <2>1, NAssumption, BatchSizeAssumption DEF AheadInv, Recipients
<1>3. CASE UNCHANGED <<index, age>>
  BY <1>3 DEF AheadInv, Ahead
<1> QED
  BY <1>1, <1>2, <1>3 DEF Next, Cycle, vars, NothingToCycle, PickMiner,
     GiveUpCycle, LookUpAddresses, TransferSucceeds, TransferRefused,
     TransferErrs, TransferAnswerLost, RecordTransaction, RecordRaises

\* The wrap-around of the batches skips nobody, whatever the number of
\* recipients and the batch size: within one turn of the index every
\* recipient is in a batch (agent.py, the batch and index of
\* _run_funding_cycle).
THEOREM NobodyIsSkipped == Spec => []NobodySkipped
<1>1. Init => AheadInv
  <2> SUFFICES ASSUME Init PROVE AheadInv
    OBVIOUS
  <2>1. \A r \in Recipients : age[r] = 0 /\ Ahead(r) = r
    BY NAssumption DEF Init, Nothing, Ahead, Recipients
  <2> QED
    BY <2>1, NAssumption, BatchSizeAssumption DEF AheadInv, Recipients
<1>2. TypeOK /\ AheadInv /\ [Next]_vars => AheadInv'
  BY AheadStep
<1>3. TypeOK /\ AheadInv => NobodySkipped
  <2> SUFFICES ASSUME TypeOK, AheadInv, NEW r \in Recipients
               PROVE  age[r] * BatchSize < N
    BY DEF NobodySkipped
  <2>1. age[r] * BatchSize + Ahead(r) < N
    BY DEF AheadInv
  <2>2. age[r] \in Nat /\ index \in Recipients
    BY DEF TypeOK
  <2>3. Ahead(r) \in Nat
    BY <2>2, AheadRange DEF Recipients
  <2> QED
    BY <2>1, <2>2, <2>3, NAssumption, BatchSizeAssumption
<1> QED
  BY <1>1, <1>2, <1>3, CycleTypeCorrect, PTL DEF Spec

-----------------------------------------------------------------------------
(* One share each *)

\* No recipient stands twice in the batch.
Distinct == \A i, j \in 1..BatchSize : batch[i] = batch[j] => i = j

\* What the chain has is in the log, or its trace was lost, or it is about to
\* be recorded; and a cycle records one transaction at most.
ShareInv ==
    /\ pc # "wait" => Distinct
    /\ \A r \in Recipients :
          /\ got[r] <= logged[r] + lost + IF pc = "record" /\ r \in Paid THEN 1 ELSE 0
          /\ logged[r] <= IF pc = "wait" THEN 1 ELSE 0

LEMMA BatchDistinct ==
    ASSUME BatchSize <= N, NEW s \in Recipients,
           NEW i \in 1..BatchSize, NEW j \in 1..BatchSize,
           BatchFrom(s)[i] = BatchFrom(s)[j]
    PROVE  i = j
<1>1. (s + i - 1) % N = (s + j - 1) % N
  BY DEF BatchFrom
<1>2. \A k \in 1..BatchSize :
         (s + k - 1) % N = IF s + k - 1 < N THEN s + k - 1 ELSE s + k - 1 - N
  <2> SUFFICES ASSUME NEW k \in 1..BatchSize
               PROVE  (s + k - 1) % N = IF s + k - 1 < N THEN s + k - 1
                                        ELSE s + k - 1 - N
    OBVIOUS
  <2>1. CASE s + k - 1 < N
    BY <2>1, ModSmall, NAssumption, BatchSizeAssumption DEF Recipients
  <2>2. CASE ~(s + k - 1 < N)
    <3>1. s + k - 1 - N \in Recipients
      BY <2>2, NAssumption, BatchSizeAssumption DEF Recipients
    <3>2. (s + k - 1 - N) + N = s + k - 1
      BY NAssumption, BatchSizeAssumption DEF Recipients
    <3> QED
      BY <3>1, <3>2, <2>2, ModOnce
  <2> QED
    BY <2>1, <2>2
<1>3. /\ (s + i - 1) % N = IF s + i - 1 < N THEN s + i - 1 ELSE s + i - 1 - N
      /\ (s + j - 1) % N = IF s + j - 1 < N THEN s + j - 1 ELSE s + j - 1 - N
  BY <1>2
<1> QED
  BY <1>1, <1>3, NAssumption, BatchSizeAssumption DEF Recipients

\* A recipient of a batch without repetition gets one share at most.
LEMMA SharesBound ==
    ASSUME TypeOK, Distinct, NEW r \in Recipients
    PROVE  Shares(r) <= IF r \in Paid THEN 1 ELSE 0
<1> DEFINE S == {i \in 1..fit : batch[i] = r}
<1>1. CASE r \in bad
  BY <1>1 DEF Shares, Paid
<1>2. CASE r \notin bad /\ S = {}
  <2>1. Cardinality(S) = 0
    BY <1>2, FS_EmptySet
  <2> QED
    BY <1>2, <2>1 DEF Shares
<1>3. CASE r \notin bad /\ S # {}
  <2>1. PICK i \in 1..fit : batch[i] = r
    BY <1>3
  <2>2. 1..fit \subseteq 1..BatchSize
    BY BatchSizeAssumption DEF TypeOK
  <2>3. S = {i}
    BY <2>1, <2>2 DEF Distinct
  <2>4. Cardinality(S) = 1
    BY <2>3, FS_Singleton
  <2>5. r \in Paid
    BY <1>3, <2>1 DEF Paid
  <2> QED
    BY <1>3, <2>4, <2>5 DEF Shares
<1> QED
  BY <1>1, <1>2, <1>3

LEMMA ShareBroadcast ==
    ASSUME TypeOK, ShareInv, Broadcast, pc = "send", NEW r \in Recipients
    PROVE  /\ got'[r] <= logged[r] + lost + IF r \in Paid THEN 1 ELSE 0
           /\ got'[r] <= logged[r] + (lost + 1)
<1>1. got'[r] = got[r] + Shares(r)
  BY DEF Broadcast
<1>2. Shares(r) \in Nat /\ Shares(r) <= IF r \in Paid THEN 1 ELSE 0
  BY SharesTyped, SharesBound DEF ShareInv
<1>3. got[r] <= logged[r] + lost
  <2>1. got[r] <= logged[r] + lost + 0
    BY DEF ShareInv
  <2> QED
    BY <2>1 DEF TypeOK
<1>4. got[r] \in Nat /\ logged[r] \in Nat /\ lost \in Nat
  BY DEF TypeOK
<1> QED
  BY <1>1, <1>2, <1>3, <1>4

LEMMA ShareStart ==
    ASSUME TypeOK, ShareInv, BatchSize <= N, StartCycle PROVE ShareInv'
<1>1. Distinct'
  <2>1. index \in Recipients /\ batch' = BatchFrom(index)
    BY DEF StartCycle, TypeOK
  <2> QED
    BY <2>1, BatchDistinct DEF Distinct
<1>2. \A r \in Recipients : got'[r] = 0 /\ logged'[r] = 0 /\ lost' = 0
  BY DEF StartCycle, Nothing
<1>3. pc' = "pick"
  BY DEF StartCycle
<1> QED
  BY <1>1, <1>2, <1>3 DEF ShareInv

\* Nothing was sent and nothing recorded.
LEMMA ShareQuiet ==
    ASSUME TypeOK, ShareInv, UNCHANGED <<got, logged, lost>>,
           \/ pc # "record" /\ pc' # "record" /\ pc' # "wait"
              /\ pc # "wait" /\ UNCHANGED batch
           \/ pc # "record" /\ pc' = "wait"
    PROVE  ShareInv'
<1>1. CASE pc' = "wait"
  <2> SUFFICES ASSUME NEW r \in Recipients
               PROVE  got[r] <= logged[r] + lost + 0 /\ logged[r] <= 1
    BY <1>1 DEF ShareInv
  <2>1. got[r] <= logged[r] + lost + 0 /\ logged[r] <= IF pc = "wait" THEN 1 ELSE 0
    BY DEF ShareInv
  <2>2. logged[r] \in Nat
    BY DEF TypeOK
  <2> QED
    BY <2>1, <2>2
<1>2. CASE pc' # "wait"
  BY <1>2 DEF ShareInv, Distinct
<1> QED
  BY <1>1, <1>2

\* A step that loses the trace of a transfer pays for one share more.
LEMMA ShareLost ==
    ASSUME TypeOK, ShareInv, TransferAnswerLost \/ RecordRaises
    PROVE  ShareInv'
<1>1. pc \in {"send", "record"} /\ RetryAttempt
  BY DEF TransferAnswerLost, RecordRaises
<1>2. pc' \in {"pick", "send"}
  BY <1>1, RetryTyped
<1>3. Distinct'
  BY <1>1 DEF ShareInv, Distinct, TransferAnswerLost, RecordRaises
<1>4. lost' = lost + 1 /\ logged' = logged
  BY DEF TransferAnswerLost, RecordRaises
<1>5. \A r \in Recipients : got'[r] <= logged[r] + (lost + 1)
  <2> SUFFICES ASSUME NEW r \in Recipients
               PROVE  got'[r] <= logged[r] + (lost + 1)
    OBVIOUS
  <2>1. CASE TransferAnswerLost
    BY <2>1, ShareBroadcast DEF TransferAnswerLost
  <2>2. CASE RecordRaises
    <3>1. got'[r] <= logged[r] + lost + IF pc = "record" /\ r \in Paid THEN 1 ELSE 0
      BY <2>2 DEF RecordRaises, ShareInv
    <3>2. logged[r] \in Nat /\ lost \in Nat /\ got'[r] \in Nat
      BY <2>2 DEF RecordRaises, TypeOK
    <3> QED
      BY <3>1, <3>2
  <2> QED
    BY <2>1, <2>2
<1>6. \A r \in Recipients : logged[r] <= 0
  BY <1>1 DEF ShareInv
<1>7. \A r \in Recipients : logged[r] + (lost + 1) + 0 = logged[r] + (lost + 1)
  BY DEF TypeOK
<1> QED
  BY <1>2, <1>3, <1>4, <1>5, <1>6, <1>7 DEF ShareInv

LEMMA ShareRecord ==
    ASSUME TypeOK, ShareInv, RecordTransaction PROVE ShareInv'
<1>1. pc = "record" /\ pc' = "wait" /\ UNCHANGED <<got, lost>>
  BY DEF RecordTransaction, AfterRecord, EndCycle
<1> SUFFICES ASSUME NEW r \in Recipients
             PROVE  got[r] <= logged'[r] + lost + 0 /\ logged'[r] <= 1
  BY <1>1 DEF ShareInv
<1>2. logged'[r] = IF r \in Paid THEN logged[r] + 1 ELSE logged[r]
  BY DEF RecordTransaction, RecordedIds
<1>3. /\ got[r] <= logged[r] + lost + IF r \in Paid THEN 1 ELSE 0
      /\ logged[r] <= 0
  BY <1>1 DEF ShareInv
<1>4. got[r] \in Nat /\ logged[r] \in Nat /\ lost \in Nat
  BY DEF TypeOK
<1> QED
  BY <1>2, <1>3, <1>4

LEMMA ShareCrash ==
    ASSUME TypeOK, ShareInv, CrashAndRestart PROVE ShareInv'
<1>1. pc' = "wait" /\ UNCHANGED <<got, logged>>
      /\ lost' = IF pc = "record" THEN lost + 1 ELSE lost
  BY DEF CrashAndRestart, EndCycle
<1> SUFFICES ASSUME NEW r \in Recipients
             PROVE  got[r] <= logged[r] + lost' + 0 /\ logged[r] <= 1
  BY <1>1 DEF ShareInv
<1>2. /\ got[r] <= logged[r] + lost + IF pc = "record" /\ r \in Paid THEN 1 ELSE 0
      /\ logged[r] <= IF pc = "wait" THEN 1 ELSE 0
  BY DEF ShareInv
<1>3. got[r] \in Nat /\ logged[r] \in Nat /\ lost \in Nat
  BY DEF TypeOK
<1> QED
  BY <1>1, <1>2, <1>3

LEMMA ShareStep ==
    ASSUME TypeOK, ShareInv, BatchSize <= N, [Next]_vars PROVE ShareInv'
<1>1. CASE StartCycle
  BY <1>1, ShareStart
<1>2. CASE PickMiner \/ LookUpAddresses
  <2>1. pc' \in {"pick", "lookup", "send"}
    BY <1>2 DEF PickMiner, LookUpAddresses, NextMiner
  <2> QED
    BY <1>2, <2>1, ShareQuiet DEF PickMiner, LookUpAddresses, chain
<1>3. CASE GiveUpCycle
  BY <1>3, ShareQuiet DEF GiveUpCycle, EndCycle, chain
<1>4. CASE TransferSucceeds
  <2>1. /\ pc = "send" /\ pc' = "record" /\ Broadcast
        /\ UNCHANGED <<logged, lost, batch, fit, bad>>
    BY <1>4 DEF TransferSucceeds, locals
  <2>2. Distinct' /\ Paid' = Paid
    BY <2>1 DEF ShareInv, Distinct, Paid
  <2>3. \A r \in Recipients :
           got'[r] <= logged[r] + lost + IF r \in Paid THEN 1 ELSE 0
    BY <2>1, ShareBroadcast
  <2>4. \A r \in Recipients : logged[r] <= 0
    BY <2>1 DEF ShareInv
  <2> QED
    BY <2>1, <2>2, <2>3, <2>4 DEF ShareInv
<1>5. CASE TransferRefused
  BY <1>5, ShareQuiet DEF TransferRefused, NextMiner, chain
<1>6. CASE TransferErrs
  <2>1. pc' \in {"pick", "send"}
    BY <1>6, RetryTyped DEF TransferErrs
  <2> QED
    BY <1>6, <2>1, ShareQuiet DEF TransferErrs, chain
<1>7. CASE TransferAnswerLost \/ RecordRaises
  BY <1>7, ShareLost
<1>8. CASE RecordTransaction
  BY <1>8, ShareRecord
<1>9. CASE CrashAndRestart
  BY <1>9, ShareCrash
<1>10. CASE UNCHANGED <<pc, locals, chain>>
  BY <1>10 DEF ShareInv, Distinct, Paid, locals, chain
<1> QED
  BY <1>1, <1>2, <1>3, <1>4, <1>5, <1>6, <1>7, <1>8, <1>9, <1>10
  DEF Next, Cycle, NothingToCycle, vars

LEMMA ShareInvariant ==
    ASSUME BatchSize <= N PROVE Spec => [](TypeOK /\ ShareInv)
<1>1. Init => ShareInv
  BY DEF Init, ShareInv, Nothing
<1>2. TypeOK /\ ShareInv /\ [Next]_vars => ShareInv'
  BY ShareStep
<1> QED
  BY <1>1, <1>2, CycleTypeCorrect, PTL DEF Spec

\* With at least as many funded recipients as the batch is long, a cycle gives
\* nobody a second share unless MD lost the trace of a transfer: the
\* assumption is the one the wrap-around of _run_funding_cycle needs.
THEOREM OneShare == ASSUME BatchSize <= N PROVE Spec => []OneShareEach
<1>1. TypeOK /\ ShareInv => OneShareEach
  <2> SUFFICES ASSUME TypeOK, ShareInv, NEW r \in Recipients
               PROVE  got[r] <= 1 + lost
    BY DEF OneShareEach
  <2>1. /\ got[r] <= logged[r] + lost + IF pc = "record" /\ r \in Paid THEN 1 ELSE 0
        /\ logged[r] <= IF pc = "wait" THEN 1 ELSE 0
    BY DEF ShareInv
  <2>2. got[r] \in Nat /\ logged[r] \in Nat /\ lost \in Nat
    BY DEF TypeOK
  <2> QED
    BY <2>1, <2>2
<1> QED
  BY <1>1, ShareInvariant, PTL

\* Under the same assumption transactions.json never says less of a recipient
\* than the chain has, up to the lost traces (_record_transaction).
THEOREM LogKeepsUp == ASSUME BatchSize <= N PROVE Spec => []LoggedAsSent
<1>1. TypeOK /\ ShareInv => LoggedAsSent
  <2> SUFFICES ASSUME TypeOK, ShareInv, NEW r \in Recipients
               PROVE  got[r] <= logged[r] + lost + IF pc = "record" THEN 1 ELSE 0
    BY DEF LoggedAsSent
  <2>1. got[r] <= logged[r] + lost + IF pc = "record" /\ r \in Paid THEN 1 ELSE 0
    BY DEF ShareInv
  <2>2. got[r] \in Nat /\ logged[r] \in Nat /\ lost \in Nat
    BY DEF TypeOK
  <2> QED
    BY <2>1, <2>2
<1> QED
  BY <1>1, ShareInvariant, PTL

-----------------------------------------------------------------------------
(* Fail-over *)

\* One attempt per exhausted miner, and one for the miner at work.
TriedInv ==
    attempts = IF pc = "wait" THEN 0
               ELSE IF pc = "pick" THEN Cardinality(exhausted)
               ELSE Cardinality(exhausted) + 1

\* The miners that were tried are finitely many.
LEMMA FiniteMiners ==
    ASSUME TypeOK
    PROVE  /\ IsFiniteSet(miners) /\ IsFiniteSet(exhausted)
           /\ Cardinality(exhausted) \in Nat
           /\ Cardinality(miners) \in Nat
           /\ \A m \in miners \ exhausted :
                 Cardinality(exhausted \cup {m}) = Cardinality(exhausted) + 1
<1>1. IsFiniteSet(miners)
  BY MinersAssumption, FS_Subset DEF TypeOK
<1>2. IsFiniteSet(exhausted)
  BY <1>1, FS_Subset DEF TypeOK
<1> QED
  BY <1>1, <1>2, FS_CardinalityType, FS_AddElement

LEMMA TriedNextMiner ==
    ASSUME TypeOK, TriedInv, NextMiner, UNCHANGED attempts,
           pc \in {"lookup", "send", "record"}
    PROVE  TriedInv'
<1>1. miner \in miners \ exhausted /\ exhausted' = exhausted \cup {miner}
  BY DEF TypeOK, NextMiner
<1>2. attempts' = Cardinality(exhausted')
  BY <1>1, FiniteMiners DEF TriedInv
<1> QED
  BY <1>2 DEF TriedInv, NextMiner

LEMMA TriedRetry ==
    ASSUME TypeOK, TriedInv, RetryAttempt, UNCHANGED attempts,
           pc \in {"send", "record"}
    PROVE  TriedInv'
<1>1. CASE NextMiner
  BY <1>1, TriedNextMiner
<1>2. CASE pc' = "send" /\ UNCHANGED exhausted
  BY <1>2 DEF TriedInv
<1> QED
  BY <1>1, <1>2 DEF RetryAttempt

LEMMA TriedPick ==
    ASSUME TypeOK, TriedInv, PickMiner PROVE TriedInv'
<1>1. PICK m \in miners \ exhausted, k \in 0..BatchSize :
         IF k = 0
         THEN exhausted' = exhausted \cup {m} /\ pc' = pc
         ELSE exhausted' = exhausted /\ pc' = "lookup"
  BY DEF PickMiner
<1>2. attempts' = Cardinality(exhausted) + 1 /\ pc = "pick"
  BY DEF PickMiner, TriedInv
<1>3. CASE k = 0
  BY <1>1, <1>2, <1>3, FiniteMiners DEF TriedInv
<1>4. CASE k # 0
  BY <1>1, <1>2, <1>4 DEF TriedInv
<1> QED
  BY <1>3, <1>4

LEMMA TriedStep ==
    ASSUME TypeOK, TriedInv, [Next]_vars PROVE TriedInv'
<1>1. CASE StartCycle
  <2>1. exhausted = {} /\ attempts = 0 /\ pc' = "pick"
        /\ UNCHANGED <<exhausted, attempts>>
    BY <1>1 DEF StartCycle, TypeOK, TriedInv
  <2> QED
    BY <2>1, FS_EmptySet DEF TriedInv
<1>2. CASE PickMiner
  BY <1>2, TriedPick
<1>3. CASE LookUpAddresses
  <2>1. CASE NextMiner
    BY <1>3, <2>1, TriedNextMiner DEF LookUpAddresses
  <2>2. CASE pc' = "send" /\ UNCHANGED exhausted
    BY <1>3, <2>2 DEF LookUpAddresses, TriedInv
  <2> QED
    BY <1>3, <2>1, <2>2 DEF LookUpAddresses
<1>4. CASE TransferSucceeds
  BY <1>4 DEF TransferSucceeds, TriedInv, locals
<1>5. CASE TransferRefused
  BY <1>5, TriedNextMiner DEF TransferRefused
<1>6. CASE TransferErrs \/ TransferAnswerLost \/ RecordRaises
  BY <1>6, TriedRetry DEF TransferErrs, TransferAnswerLost, RecordRaises
<1>7. CASE GiveUpCycle \/ RecordTransaction \/ CrashAndRestart
  BY <1>7 DEF GiveUpCycle, RecordTransaction, CrashAndRestart, AfterRecord,
     EndCycle, TriedInv
<1>8. CASE UNCHANGED <<pc, locals>>
  BY <1>8 DEF TriedInv, locals
<1> QED
  BY <1>1, <1>2, <1>3, <1>4, <1>5, <1>6, <1>7, <1>8
  DEF Next, Cycle, NothingToCycle, vars

LEMMA GiveUpTried ==
    ASSUME TypeOK, TriedInv, [Next]_vars,
           pc = "pick", pc' = "wait", faults' = faults
    PROVE  exhausted = miners
<1>1. ~CrashAndRestart
  BY DEF CrashAndRestart, Fault, TypeOK
<1>2. GiveUpCycle
  BY <1>1 DEF Next, Cycle, StartCycle, NothingToCycle, PickMiner,
     LookUpAddresses, TransferSucceeds, TransferRefused, TransferErrs,
     TransferAnswerLost, RecordTransaction, RecordRaises, vars
<1>3. CASE miners \subseteq exhausted
  BY <1>3 DEF TypeOK
<1>4. CASE miners = {}
  BY <1>4 DEF TypeOK
<1>5. CASE miners # {} /\ attempts >= MaxAttempts
  <2>1. Cardinality(exhausted) >= Cardinality(miners)
    BY <1>5 DEF TriedInv, MaxAttempts
  <2>2. exhausted \in SUBSET miners /\ IsFiniteSet(miners)
    BY FiniteMiners DEF TypeOK
  <2>3. Cardinality(exhausted) = Cardinality(miners)
    BY <2>1, <2>2, FS_Subset, FiniteMiners
  <2> QED
    BY <2>2, <2>3, FS_Subset
<1> QED
  BY <1>2, <1>3, <1>4, <1>5 DEF GiveUpCycle

\* A cycle that gives its batch up has tried every discovered miner: the
\* attempt counter of the fail-over loop and the exhausted set agree
\* (_run_funding_cycle).
THEOREM GivesUpLast == Spec => GivesUpAfterAll
<1>1. Init => TriedInv
  BY DEF Init, TriedInv
<1>2. TypeOK /\ TriedInv /\ [Next]_vars => TriedInv'
  BY TriedStep
<1>3. TypeOK /\ TriedInv /\ [Next]_vars =>
        [(pc = "pick" /\ pc' = "wait" /\ index' = index /\ faults' = faults)
            => exhausted = miners]_vars
  BY GiveUpTried
<1> QED
  BY <1>1, <1>2, <1>3, CycleTypeCorrect, PTL DEF Spec, GivesUpAfterAll

=============================================================================
