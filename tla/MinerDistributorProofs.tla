---------------------- MODULE MinerDistributorProofs ----------------------
(* Theorems about MinerDistributor, for every value of its constants. *)
EXTENDS MinerDistributor, FiniteSetTheorems, TLAPS

-----------------------------------------------------------------------------
(* Type correctness *)

\* The values the locals and the file start from are well typed.
LEMMA EmptyTyped ==
    /\ NoJob \in JobType
    /\ EmptyStatus \in StatusType
    /\ Zero \in [Recipients -> Nat]
<1> USE MaxRetriesAssumption
<1>1. 0 \in 0..MaxRetries
  OBVIOUS
<1>2. NoJob \in JobType
  BY <1>1 DEF NoJob, JobType
<1>3. EmptyStatus \in StatusType
  BY DEF EmptyStatus, StatusType
<1>4. Zero \in [Recipients -> Nat]
  BY DEF Zero
<1> QED
  BY <1>2, <1>3, <1>4

\* A record written by _write_funding_status is well typed.
LEMMA StatusOfTyped ==
    ASSUME NEW f \in SUBSET Recipients, NEW g \in SUBSET Recipients,
           NEW p \in SUBSET Recipients, NEW c \in BOOLEAN
    PROVE  /\ StatusOf(f, g, p, c) \in StatusType
           /\ StatusOf(f, g, p, c).funded = f
           /\ StatusOf(f, g, p, c).failed = g
           /\ StatusOf(f, g, p, c).perm = p
           /\ StatusOf(f, g, p, c).completed = c
  BY DEF StatusOf, StatusType

\* The fields of a well-typed job and file.
LEMMA FieldsTyped ==
    ASSUME TypeOK
    PROVE  /\ job.todo \subseteq Recipients
           /\ job.batch \subseteq Recipients
           /\ job.bad \subseteq Recipients
           /\ job.miner \in Miners \cup {NoMiner}
           /\ job.exhausted \subseteq Miners
           /\ job.failover \in BOOLEAN
           /\ job.attempt \in 0..MaxRetries
           /\ job.funded \subseteq Recipients
           /\ job.failed \subseteq Recipients
           /\ status.funded \subseteq Recipients
           /\ status.failed \subseteq Recipients
           /\ status.perm \subseteq Recipients
           /\ status.completed \in BOOLEAN
  BY DEF TypeOK, JobType, StatusType

\* A step deviates at most once.
LEMMA FaultTyped ==
    ASSUME TypeOK, NEW kind, NoFault \/ Fault(kind)
    PROVE  faults' \in Nat
<1>1. faults \in Nat
  BY DEF TypeOK
<1> QED
  BY <1>1 DEF Fault, NoFault

\* Bump keeps a counter function.
LEMMA BumpTyped ==
    ASSUME NEW f \in [Recipients -> Nat], NEW S
    PROVE  Bump(f, S) \in [Recipients -> Nat]
  BY DEF Bump

\* The initial state is well typed.
LEMMA InitTyped == Init => TypeOK
<1> SUFFICES ASSUME Init PROVE TypeOK
  OBVIOUS
<1>1. pc \in PcValues /\ pc \notin BatchPcs
  BY DEF Init, PcValues, BatchPcs
<1>2. job \in JobType /\ status \in StatusType
  BY EmptyTyped DEF Init
<1>3. /\ count \in [Recipients -> Nat]
      /\ paid \in [Recipients -> Nat]
      /\ recorded \in [Recipients -> Nat]
      /\ lost \in [Recipients -> Nat]
      /\ missed \in [Recipients -> Nat]
  BY EmptyTyped DEF Init
<1> QED
  BY <1>1, <1>2, <1>3 DEF Init, TypeOK

\* Every step of MD's loop, of the other agents and of a restart keeps the types.
LEMMA StepTyped == TypeOK /\ [Next]_vars => TypeOK'
<1> SUFFICES ASSUME TypeOK, [Next]_vars PROVE TypeOK'
  OBVIOUS
<1> USE EmptyTyped, FieldsTyped
<1>1. CASE ClearMaturityGate
  BY <1>1 DEF ClearMaturityGate, TypeOK, history
<1>2. CASE StartFunding
  BY <1>2 DEF StartFunding, Discovered, TypeOK, PcValues, BatchPcs, history
<1>3. CASE RunFundingCycle
  BY <1>3 DEF RunFundingCycle, TypeOK, vars, ram, history
<1>4. CASE LoadProgress
  <2>1. [NoJob EXCEPT !.funded = status.funded, !.failed = status.failed]
            \in JobType
    BY DEF NoJob, JobType
  <2> QED
    BY <1>4, <2>1 DEF LoadProgress, Rehydrated, NoFault, ReturnToLoop,
                      TypeOK, PcValues, BatchPcs, history
<1>5. CASE LoadUnreadable
  BY <1>5, BumpTyped
  DEF LoadUnreadable, Fault, ReturnToLoop, TypeOK, PcValues, BatchPcs, ram
<1>6. CASE DiscoverMiners
  <2>1. miners' \subseteq Miners /\ faults' \in Nat
    BY <1>6 DEF DiscoverMiners, Discovered, Fault, NoFault, TypeOK
  <2> QED
    BY <1>6, <2>1
    DEF DiscoverMiners, ReturnToLoop, TypeOK, PcValues, BatchPcs, history
<1>7. CASE CollectRecipients \/ CompleteEarly \/ RegistryUnreadable
  <2>1. [job EXCEPT !.todo = Unfunded] \in JobType
    BY DEF Unfunded, TypeOK, JobType
  <2>2. StatusOf(job.funded, job.failed, perm, TRUE) \in StatusType
    BY StatusOfTyped DEF TypeOK
  <2>3. CASE CollectRecipients
    BY <2>1, <2>3
    DEF CollectRecipients, TypeOK, PcValues, BatchPcs, ram, history
  <2>4. CASE CompleteEarly
    BY <2>2, <2>4
    DEF CompleteEarly, ReturnToLoop, TypeOK, PcValues, BatchPcs, history
  <2>5. CASE RegistryUnreadable
    BY <2>5, FaultTyped
    DEF RegistryUnreadable, ReturnToLoop, TypeOK, PcValues, BatchPcs, ram, history
  <2> QED
    BY <1>7, <2>3, <2>4, <2>5
<1>8. CASE SelectMiner
  <2>1. PICK m \in Usable(job.exhausted) :
           job' = [job EXCEPT !.batch = FirstBatch(job.todo),
                              !.bad = {},
                              !.miner = m,
                              !.exhausted = ResetIfSpent(job.exhausted),
                              !.failover = FALSE]
    BY <1>8 DEF SelectMiner
  <2>2. m \in Miners /\ ResetIfSpent(job.exhausted) \subseteq Miners
    BY DEF Usable, ResetIfSpent, TypeOK
  <2>3. FirstBatch(job.todo) \subseteq Recipients
    BY DEF FirstBatch
  <2>4. job' \in JobType /\ job'.miner \in Miners
    BY <2>1, <2>2, <2>3 DEF TypeOK, JobType
  <2>5. pc' \in PcValues
    BY <1>8 DEF SelectMiner, PcValues
  <2> QED
    BY <1>8, <2>4, <2>5 DEF SelectMiner, TypeOK, ram, history
<1>9. CASE LookUpAddresses
  <2>1. PICK bad \in SUBSET job.batch :
           /\ IF bad \subseteq Broken THEN NoFault ELSE Fault("lookup")
           /\ job' = [job EXCEPT !.bad = bad, !.attempt = 1]
           /\ missed' = [r \in Recipients |->
                           IF r \in bad /\ missed[r] < Threshold
                           THEN missed[r] + 1 ELSE missed[r]]
           /\ pc' = IF bad = job.batch THEN "failed" ELSE "transfer"
    BY <1>9 DEF LookUpAddresses
  <2>2. 1 \in 0..MaxRetries
    BY MaxRetriesAssumption
  <2>3. job' \in JobType
    BY <2>1, <2>2 DEF TypeOK, JobType
  <2>4. missed' \in [Recipients -> Nat] /\ faults' \in Nat
    BY <2>1 DEF TypeOK, Fault, NoFault
  <2> QED
    BY <1>9, <2>1, <2>3, <2>4 DEF LookUpAddresses, TypeOK, PcValues, BatchPcs, ram
<1>10. CASE TransferSucceeds
  BY <1>10, BumpTyped DEF TransferSucceeds, TypeOK, PcValues, BatchPcs, ram
<1>11. CASE TransferRefused
  BY <1>11 DEF TransferRefused, Fault, TypeOK, PcValues, BatchPcs, ram, history
<1>12. ASSUME RetryAttempt, pc \in BatchPcs
       PROVE  /\ job' \in JobType
              /\ pc' \in PcValues
              /\ job'.miner \in Miners
  <2>1. CASE job.attempt < MaxRetries
    <3>1. job.attempt + 1 \in 0..MaxRetries
      BY <2>1, MaxRetriesAssumption
    <3> QED
      BY <1>12, <2>1, <3>1
      DEF RetryAttempt, TypeOK, JobType, PcValues, BatchPcs
  <2>2. CASE ~(job.attempt < MaxRetries)
    BY <1>12, <2>2 DEF RetryAttempt, TypeOK, PcValues, BatchPcs
  <2> QED
    BY <2>1, <2>2
<1>13. CASE TransferErrs
  <2>1. pc \in BatchPcs /\ RetryAttempt /\ faults' \in Nat
    BY <1>13, FaultTyped DEF TransferErrs, BatchPcs
  <2> QED
    BY <1>12, <1>13, <2>1 DEF TransferErrs, TypeOK, ram, history
<1>14. CASE TransferAnswerLost
  <2>1. pc \in BatchPcs /\ RetryAttempt /\ faults' \in Nat
    BY <1>14, FaultTyped DEF TransferAnswerLost, BatchPcs
  <2> QED
    BY <1>12, <1>14, <2>1, BumpTyped DEF TransferAnswerLost, TypeOK, ram
<1>15. CASE RecordTransaction
  BY <1>15, BumpTyped DEF RecordTransaction, TypeOK, PcValues, BatchPcs, ram
<1>16. CASE RecordRaises
  <2>1. pc \in BatchPcs /\ RetryAttempt /\ faults' \in Nat
    BY <1>16, FaultTyped DEF RecordRaises, BatchPcs
  <2> QED
    BY <1>12, <1>16, <2>1, BumpTyped DEF RecordRaises, TypeOK, ram
<1>17. CASE SettleBatch \/ SettleUnsaved
  <2>1. /\ FundedNow \subseteq Recipients
        /\ FailedNow \subseteq Recipients
        /\ perm \cup GivenUp \subseteq Recipients
    BY DEF FundedNow, FailedNow, Paying, Counted, GivenUp, TypeOK
  <2>2. perm' = perm \cup GivenUp
    BY <1>17 DEF SettleBatch, SettleUnsaved, CountLookups
  <2>3. count' \in [Recipients -> Nat]
    <3>1. CountLookups
      BY <1>17 DEF SettleBatch, SettleUnsaved
    <3>2. count \in [Recipients -> Nat]
      BY DEF TypeOK
    <3> QED
      BY <3>1, <3>2 DEF CountLookups
  <2>4. StatusOf(FundedNow, FailedNow, perm', FALSE) \in StatusType
    BY <2>1, <2>2, StatusOfTyped
  <2>5. [job EXCEPT !.todo = job.todo \ job.batch, !.batch = {}, !.bad = {},
                    !.miner = NoMiner, !.attempt = 0,
                    !.funded = FundedNow, !.failed = FailedNow] \in JobType
    <3>1. 0 \in 0..MaxRetries
      BY MaxRetriesAssumption
    <3> QED
      BY <2>1, <3>1 DEF TypeOK, JobType
  <2>6. CASE SettleBatch
    <3>1. pc' \in PcValues \ BatchPcs
      BY <2>6 DEF SettleBatch, PcValues, BatchPcs
    <3> QED
      BY <2>1, <2>2, <2>3, <2>4, <2>5, <2>6, <3>1 DEF SettleBatch, TypeOK, history
  <2>7. CASE SettleUnsaved
    BY <2>1, <2>2, <2>3, <2>7, BumpTyped, FaultTyped
    DEF SettleUnsaved, ReturnToLoop, TypeOK, PcValues, BatchPcs
  <2> QED
    BY <1>17, <2>6, <2>7
<1>18. CASE FailOver
  <2> DEFINE exhausted == job.exhausted \cup {job.miner}
  <2>1. PICK m \in Usable(exhausted) :
           job' = [job EXCEPT !.miner = m, !.failover = TRUE, !.bad = {},
                              !.exhausted = ResetIfSpent(exhausted)]
    BY <1>18 DEF FailOver
  <2>2. m \in Miners
    BY DEF Usable, TypeOK
  <2>3. ResetIfSpent(exhausted) \subseteq Miners
    BY <1>18 DEF ResetIfSpent, FailOver, TypeOK, BatchPcs
  <2>4. job' \in JobType /\ job'.miner \in Miners
    <3> HIDE DEF exhausted
    <3> QED
      BY <2>1, <2>2, <2>3 DEF TypeOK, JobType
  <2>5. pc' \in PcValues
    BY <1>18 DEF FailOver, PcValues
  <2> QED
    BY <1>18, <2>4, <2>5 DEF FailOver, TypeOK, ram, history
<1>19. CASE PauseFunding
  <2>1. StatusOf(job.funded, job.failed \cup job.batch, perm, FALSE) \in StatusType
    BY StatusOfTyped DEF TypeOK
  <2> QED
    BY <1>19, <2>1 DEF PauseFunding, ReturnToLoop, TypeOK, PcValues, BatchPcs,
                       ram, history
<1>20. CASE FinalizeFunding
  <2>1. AllDone \in BOOLEAN
    BY DEF AllDone
  <2>2. StatusOf(job.funded, job.failed, perm, AllDone) \in StatusType
    BY <2>1, StatusOfTyped DEF TypeOK
  <2>3. done' \in BOOLEAN
    BY <1>20, <2>1 DEF FinalizeFunding
  <2> QED
    BY <1>20, <2>2, <2>3 DEF FinalizeFunding, ReturnToLoop, TypeOK, PcValues,
                             BatchPcs, history
<1>21. CASE \E m \in Miners : MinerRegisters(m)
  BY <1>21 DEF MinerRegisters, TypeOK, ram, history
<1>22. CASE CrashAndRestart
  <2>1. lost' \in [Recipients -> Nat] /\ faults' \in Nat
    BY <1>22, BumpTyped DEF CrashAndRestart, Fault, TypeOK
  <2> QED
    BY <1>22, <2>1 DEF CrashAndRestart, TypeOK, PcValues, BatchPcs
<1>23. CASE WriteRaises
  BY <1>23, FaultTyped
  DEF WriteRaises, ReturnToLoop, TypeOK, PcValues, BatchPcs, ram, history
<1>24. CASE UNCHANGED vars
  BY <1>24 DEF vars, TypeOK, ram, history
<1> QED
  BY <1>1, <1>2, <1>3, <1>4, <1>5, <1>6, <1>7, <1>8, <1>9, <1>10, <1>11,
     <1>13, <1>14, <1>15, <1>16, <1>17, <1>18, <1>19, <1>20, <1>21,
     <1>22, <1>23, <1>24 DEF Next, DistributorStep

\* Type correctness of MD's fields, locals and status file, whatever the
\* environment does (agents/miner_distributor/agent.py).
THEOREM TypeCorrect == Spec => []TypeOK
  BY InitTyped, StepTyped, PTL DEF Spec

-----------------------------------------------------------------------------
(* The batch at hand *)

\* The batch being sent is cut from recipients that are neither funded nor
\* given up, and what MD holds for funded is in the file.
BatchInv ==
    /\ pc \in BatchPcs \cup {"select"} =>
          job.todo \cap (job.funded \cup perm) = {}
    /\ pc \in BatchPcs => job.batch \subseteq job.todo
    /\ pc \in BatchPcs => job.bad \subseteq job.batch
    /\ pc \notin {"sleep", "load"} => job.funded \subseteq status.funded

LEMMA InitBatch == Init => BatchInv
  BY DEF Init, BatchInv, BatchPcs

\* Trying again changes no more than pc and the attempt number.
LEMMA RetryKeepsJob ==
    ASSUME TypeOK, RetryAttempt
    PROVE  /\ pc' \in {"transfer", "failed"}
           /\ job'.todo = job.todo
           /\ job'.batch = job.batch
           /\ job'.bad = job.bad
           /\ job'.funded = job.funded
           /\ job'.failed = job.failed
  BY DEF RetryAttempt, TypeOK, JobType

\* What the job holds after each step that moves it.
LEMMA SelectJob ==
    ASSUME TypeOK, SelectMiner
    PROVE  /\ pc = "select" /\ pc' = "lookup"
           /\ job'.todo = job.todo
           /\ job'.batch \subseteq job.todo
           /\ job'.bad = {}
           /\ job'.funded = job.funded
           /\ UNCHANGED <<status, perm, count, history>>
<1>1. FirstBatch(job.todo) \subseteq job.todo
  BY DEF FirstBatch
<1> QED
  BY <1>1 DEF SelectMiner, TypeOK, JobType, ram

LEMMA LookUpJob ==
    ASSUME TypeOK, LookUpAddresses
    PROVE  /\ pc = "lookup" /\ pc' \in {"failed", "transfer"}
           /\ job'.todo = job.todo
           /\ job'.batch = job.batch
           /\ job'.bad \subseteq job.batch
           /\ job'.funded = job.funded
           /\ UNCHANGED <<status, perm, count, paid, recorded, lost>>
           /\ \A r \in Recipients :
                 missed'[r] = IF r \in job'.bad /\ missed[r] < Threshold
                              THEN missed[r] + 1 ELSE missed[r]
  BY DEF LookUpAddresses, TypeOK, JobType, ram

LEMMA FailOverJob ==
    ASSUME TypeOK, FailOver
    PROVE  /\ pc = "failed" /\ pc' = "lookup"
           /\ job'.todo = job.todo
           /\ job'.batch = job.batch
           /\ job'.bad = {}
           /\ job'.funded = job.funded
           /\ UNCHANGED <<status, perm, count, history>>
  BY DEF FailOver, TypeOK, JobType, ram

LEMMA SettleJob ==
    ASSUME TypeOK, SettleBatch
    PROVE  /\ pc = "settle" /\ pc' \in {"finalize", "select"}
           /\ perm' = perm \cup GivenUp
           /\ job'.todo = job.todo \ job.batch
           /\ job'.batch = {}
           /\ job'.bad = {}
           /\ job'.funded = FundedNow
           /\ status'.funded = FundedNow
           /\ status'.perm = perm'
           /\ status'.completed = FALSE
           /\ UNCHANGED history
  BY DEF SettleBatch, CountLookups, StatusOf, TypeOK, JobType

\* Back in the run loop nothing is at hand.
LEMMA NoJobFields ==
    /\ NoJob.todo = {} /\ NoJob.batch = {} /\ NoJob.bad = {}
    /\ NoJob.funded = {} /\ NoJob.failed = {}
  BY DEF NoJob

\* Every step of Next keeps the shape of the batch.
LEMMA StepBatch == TypeOK /\ BatchInv /\ [Next]_vars => BatchInv'
<1> SUFFICES ASSUME TypeOK, BatchInv, [Next]_vars PROVE BatchInv'
  OBVIOUS
<1> USE NoJobFields DEF BatchInv, BatchPcs
<1>1. CASE ClearMaturityGate
  BY <1>1 DEF ClearMaturityGate
<1>2. CASE StartFunding
  BY <1>2 DEF StartFunding
<1>3. CASE RunFundingCycle \/ UNCHANGED vars
  BY <1>3 DEF RunFundingCycle, vars, ram
<1>4. CASE LoadProgress
  BY <1>4 DEF LoadProgress, ReturnToLoop, NoJob
<1>5. CASE LoadUnreadable
  BY <1>5 DEF LoadUnreadable, ReturnToLoop
<1>6. CASE DiscoverMiners
  BY <1>6 DEF DiscoverMiners, ReturnToLoop
<1>7. CASE CollectRecipients
  BY <1>7 DEF CollectRecipients, Unfunded, TypeOK, JobType, ram
<1>8. CASE CompleteEarly
  BY <1>8 DEF CompleteEarly, ReturnToLoop
<1>9. CASE RegistryUnreadable
  BY <1>9 DEF RegistryUnreadable, ReturnToLoop
<1>10. CASE SelectMiner
  BY <1>10, SelectJob
<1>11. CASE LookUpAddresses
  BY <1>11, LookUpJob
<1>12. CASE TransferSucceeds
  BY <1>12 DEF TransferSucceeds, ram
<1>13. CASE TransferRefused
  BY <1>13 DEF TransferRefused, ram
<1>14. CASE TransferErrs \/ TransferAnswerLost \/ RecordRaises
  BY <1>14, RetryKeepsJob DEF TransferErrs, TransferAnswerLost, RecordRaises, ram
<1>15. CASE RecordTransaction
  BY <1>15 DEF RecordTransaction, ram
<1>16. CASE SettleBatch
  BY <1>16, SettleJob DEF GivenUp, Counted, FundedNow, Paying
<1>17. CASE SettleUnsaved
  BY <1>17 DEF SettleUnsaved, ReturnToLoop
<1>18. CASE FailOver
  BY <1>18, FailOverJob
<1>19. CASE PauseFunding
  BY <1>19 DEF PauseFunding, ReturnToLoop
<1>20. CASE FinalizeFunding
  BY <1>20 DEF FinalizeFunding, ReturnToLoop
<1>21. CASE WriteRaises
  BY <1>21 DEF WriteRaises, ReturnToLoop
<1>22. CASE \E m \in Miners : MinerRegisters(m)
  BY <1>22 DEF MinerRegisters, ram
<1>23. CASE CrashAndRestart
  BY <1>23 DEF CrashAndRestart
<1> QED
  BY <1>1, <1>2, <1>3, <1>4, <1>5, <1>6, <1>7, <1>8, <1>9, <1>10, <1>11,
     <1>12, <1>13, <1>14, <1>15, <1>16, <1>17, <1>18, <1>19, <1>20, <1>21,
     <1>22, <1>23 DEF Next, DistributorStep

-----------------------------------------------------------------------------
(* How often a recipient is paid *)

\* The recipients whose last payment MD still knows of: in the job's funded
\* set (in the file's between two iterations) or in the batch under way.
Traced ==
    (IF pc \in {"sleep", "load"} THEN status.funded ELSE job.funded)
    \cup (IF pc \in {"record", "settle"} THEN Paying ELSE {})

PayInv == \A r \in Recipients :
    paid[r] <= lost[r] + (IF r \in Traced THEN 1 ELSE 0)

LEMMA InitPay == Init => PayInv
  BY DEF Init, PayInv, Zero

\* A step that keeps both histories and forgets no traced recipient.
LEMMA QuietPay ==
    ASSUME TypeOK, PayInv, UNCHANGED <<paid, lost>>, Traced \subseteq Traced'
    PROVE  PayInv'
  BY DEF PayInv, TypeOK

\* A step that writes off S may forget S.
LEMMA LosePay ==
    ASSUME TypeOK, PayInv, NEW S, UNCHANGED paid, lost' = Bump(lost, S),
           Traced \subseteq Traced' \cup S
    PROVE  PayInv'
  BY DEF PayInv, TypeOK, Bump

\* Every step of Next keeps the account of payments.
LEMMA StepPay == TypeOK /\ BatchInv /\ PayInv /\ [Next]_vars => PayInv'
<1> SUFFICES ASSUME TypeOK, BatchInv, PayInv, [Next]_vars PROVE PayInv'
  OBVIOUS
<1> USE NoJobFields
<1>1. CASE ClearMaturityGate
  BY <1>1, QuietPay DEF ClearMaturityGate, Traced, Paying, history
<1>2. CASE StartFunding
  BY <1>2, QuietPay DEF StartFunding, Traced, history
<1>3. CASE RunFundingCycle \/ UNCHANGED vars
  BY <1>3, QuietPay DEF RunFundingCycle, Traced, Paying, vars, ram, history
<1>4. CASE LoadProgress
  BY <1>4, QuietPay DEF LoadProgress, ReturnToLoop, NoJob, Traced, history
<1>5. CASE LoadUnreadable
  BY <1>5, LosePay DEF LoadUnreadable, ReturnToLoop, Traced
<1>6. CASE DiscoverMiners
  BY <1>6, QuietPay DEF DiscoverMiners, ReturnToLoop, Traced, BatchInv, history
<1>7. CASE CollectRecipients
  BY <1>7, QuietPay
  DEF CollectRecipients, Traced, TypeOK, JobType, ram, history
<1>8. CASE CompleteEarly
  BY <1>8, QuietPay DEF CompleteEarly, ReturnToLoop, StatusOf, Traced, history
<1>9. CASE RegistryUnreadable
  BY <1>9, QuietPay DEF RegistryUnreadable, ReturnToLoop, Traced, BatchInv, history
<1>10. CASE SelectMiner
  BY <1>10, SelectJob, QuietPay DEF Traced, history
<1>11. CASE LookUpAddresses
  BY <1>11, LookUpJob, QuietPay DEF Traced
<1>12. CASE TransferSucceeds
  BY <1>12 DEF TransferSucceeds, Traced, Paying, PayInv, BatchInv, BatchPcs,
               TypeOK, Bump
<1>13. CASE TransferRefused
  BY <1>13, QuietPay DEF TransferRefused, Traced, history
<1>14. CASE TransferErrs
  BY <1>14, RetryKeepsJob, QuietPay DEF TransferErrs, Traced, history
<1>15. CASE TransferAnswerLost
  <2>1. Traced' = Traced
    BY <1>15, RetryKeepsJob DEF TransferAnswerLost, Traced
  <2> QED
    BY <1>15, <2>1 DEF TransferAnswerLost, PayInv, TypeOK, Bump
<1>16. CASE RecordTransaction
  BY <1>16, QuietPay DEF RecordTransaction, Traced, Paying
<1>17. CASE RecordRaises
  BY <1>17, RetryKeepsJob, LosePay DEF RecordRaises, Traced
<1>18. CASE SettleBatch
  BY <1>18, SettleJob, QuietPay DEF FundedNow, Traced, history
<1>19. CASE SettleUnsaved
  BY <1>19, LosePay DEF SettleUnsaved, ReturnToLoop, Traced, BatchInv
<1>20. CASE FailOver
  BY <1>20, FailOverJob, QuietPay DEF Traced, history
<1>21. CASE PauseFunding
  BY <1>21, QuietPay DEF PauseFunding, ReturnToLoop, StatusOf, Traced, history
<1>22. CASE FinalizeFunding
  BY <1>22, QuietPay DEF FinalizeFunding, ReturnToLoop, StatusOf, Traced, history
<1>23. CASE WriteRaises
  BY <1>23, QuietPay DEF WriteRaises, ReturnToLoop, Traced, BatchInv, history
<1>24. CASE \E m \in Miners : MinerRegisters(m)
  BY <1>24, QuietPay DEF MinerRegisters, Traced, Paying, ram, history
<1>25. CASE CrashAndRestart
  <2>1. CASE pc \in {"record", "settle"}
    BY <1>25, <2>1, LosePay DEF CrashAndRestart, Traced, BatchInv
  <2>2. CASE pc \notin {"record", "settle"}
    BY <1>25, <2>2, QuietPay DEF CrashAndRestart, Traced, BatchInv
  <2> QED
    BY <2>1, <2>2
<1> QED
  BY <1>1, <1>2, <1>3, <1>4, <1>5, <1>6, <1>7, <1>8, <1>9, <1>10, <1>11,
     <1>12, <1>13, <1>14, <1>15, <1>16, <1>17, <1>18, <1>19, <1>20, <1>21,
     <1>22, <1>23, <1>24, <1>25 DEF Next, DistributorStep

\* No recipient is paid more often than once plus the number of times MD lost
\* the trace of a payment to it (_send_batch_transaction and its callers).
THEOREM PaymentsAccounted == Spec => []PaidOncePerLostTrace
<1>1. Init => TypeOK /\ BatchInv /\ PayInv
  BY InitTyped, InitBatch, InitPay
<1>2. TypeOK /\ BatchInv /\ PayInv /\ [Next]_vars
         => (TypeOK /\ BatchInv /\ PayInv)'
  BY StepTyped, StepBatch, StepPay
<1>3. TypeOK /\ PayInv => PaidOncePerLostTrace
  BY DEF TypeOK, PayInv, PaidOncePerLostTrace
<1> QED
  BY <1>1, <1>2, <1>3, PTL DEF Spec

-----------------------------------------------------------------------------
(* What the file and the log claim *)

BackedInv ==
    /\ \A r \in status.funded \cup job.funded : recorded[r] >= 1
    /\ pc = "settle" => \A r \in Paying : recorded[r] >= 1
    /\ \A r \in Recipients : recorded[r] <= paid[r]
    /\ pc = "record" => \A r \in Paying : recorded[r] + 1 <= paid[r]

LEMMA InitBacked == Init => BackedInv
  BY NoJobFields DEF Init, BackedInv, Zero, EmptyStatus

\* A step that leaves the two histories alone and adds no claim.
LEMMA QuietBacked ==
    ASSUME BackedInv, UNCHANGED <<paid, recorded>>,
           status'.funded \cup job'.funded \subseteq status.funded \cup job.funded,
           pc' \notin {"record", "settle"}
    PROVE  BackedInv'
  BY DEF BackedInv

\* A step outside the batch's own variables.
LEMMA FrameBacked ==
    ASSUME BackedInv, UNCHANGED <<paid, recorded, status, job, pc>>
    PROVE  BackedInv'
  BY DEF BackedInv, Paying

\* Every step of Next keeps the claims backed.
LEMMA StepBacked ==
    TypeOK /\ BatchInv /\ BackedInv /\ [Next]_vars => BackedInv'
<1> SUFFICES ASSUME TypeOK, BatchInv, BackedInv, [Next]_vars PROVE BackedInv'
  OBVIOUS
<1> USE NoJobFields
<1>1. CASE \/ ClearMaturityGate \/ RunFundingCycle \/ UNCHANGED vars
           \/ \E m \in Miners : MinerRegisters(m)
  BY <1>1, FrameBacked
  DEF ClearMaturityGate, RunFundingCycle, MinerRegisters, vars, ram, history
<1>2. CASE StartFunding
  BY <1>2, QuietBacked DEF StartFunding, history
<1>3. CASE LoadProgress
  BY <1>3, QuietBacked DEF LoadProgress, ReturnToLoop, NoJob, history
<1>4. CASE LoadUnreadable
  BY <1>4, QuietBacked DEF LoadUnreadable, ReturnToLoop
<1>5. CASE DiscoverMiners
  BY <1>5, QuietBacked DEF DiscoverMiners, ReturnToLoop, history
<1>6. CASE CollectRecipients
  BY <1>6, QuietBacked DEF CollectRecipients, TypeOK, JobType, history
<1>7. CASE CompleteEarly \/ PauseFunding \/ FinalizeFunding
  BY <1>7, QuietBacked
  DEF CompleteEarly, PauseFunding, FinalizeFunding, StatusOf, ReturnToLoop, history
<1>8. CASE RegistryUnreadable \/ WriteRaises
  BY <1>8, QuietBacked DEF RegistryUnreadable, WriteRaises, ReturnToLoop, history
<1>9. CASE SelectMiner
  BY <1>9, SelectJob, QuietBacked DEF history
<1>10. CASE LookUpAddresses
  BY <1>10, LookUpJob, QuietBacked
<1>11. CASE TransferSucceeds
  <2>1. Paying' = Paying /\ Paying \subseteq Recipients
    BY <1>11, FieldsTyped DEF TransferSucceeds, Paying
  <2>2. \A r \in Recipients :
           paid'[r] = IF r \in Paying THEN paid[r] + 1 ELSE paid[r]
    BY <1>11 DEF TransferSucceeds, Bump
  <2>3. \A r \in Recipients : recorded[r] \in Nat /\ paid[r] \in Nat
    BY DEF TypeOK
  <2> QED
    BY <1>11, <2>1, <2>2, <2>3 DEF TransferSucceeds, BackedInv
<1>12. CASE TransferRefused
  BY <1>12, QuietBacked DEF TransferRefused, history
<1>13. CASE TransferErrs
  BY <1>13, RetryKeepsJob, QuietBacked DEF TransferErrs, history
<1>14. CASE TransferAnswerLost
  BY <1>14, RetryKeepsJob DEF TransferAnswerLost, BackedInv, Bump, TypeOK
<1>15. CASE RecordTransaction
  <2>1. Paying \subseteq Recipients
    BY FieldsTyped DEF Paying
  <2>2. status.funded \cup job.funded \subseteq Recipients
    BY FieldsTyped
  <2>3. \A r \in Recipients :
           recorded'[r] = IF r \in Paying THEN recorded[r] + 1 ELSE recorded[r]
    BY <1>15 DEF RecordTransaction, Bump
  <2>4. Paying' = Paying
    BY <1>15 DEF RecordTransaction, Paying
  <2>5. \A r \in Recipients : recorded[r] \in Nat
    BY DEF TypeOK
  <2> QED
    BY <1>15, <2>1, <2>2, <2>3, <2>4, <2>5 DEF RecordTransaction, BackedInv
<1>16. CASE RecordRaises
  BY <1>16, RetryKeepsJob, QuietBacked DEF RecordRaises
<1>17. CASE SettleBatch
  BY <1>17, SettleJob DEF FundedNow, BackedInv, history
<1>18. CASE SettleUnsaved
  BY <1>18, QuietBacked DEF SettleUnsaved, ReturnToLoop
<1>19. CASE FailOver
  BY <1>19, FailOverJob, QuietBacked DEF history
<1>20. CASE CrashAndRestart
  BY <1>20, QuietBacked DEF CrashAndRestart
<1> QED
  BY <1>1, <1>2, <1>3, <1>4, <1>5, <1>6, <1>7, <1>8, <1>9, <1>10, <1>11,
     <1>12, <1>13, <1>14, <1>15, <1>16, <1>17, <1>18, <1>19, <1>20
  DEF Next, DistributorStep

\* Whoever the status file calls funded is in transactions.json, and the log
\* never claims more than the chain has (_record_transaction precedes the
\* book-keeping of _process_funding_batches).
THEOREM ClaimsBacked == Spec => []FundedIsBacked
<1>1. Init => TypeOK /\ BatchInv /\ BackedInv
  BY InitTyped, InitBatch, InitBacked
<1>2. TypeOK /\ BatchInv /\ BackedInv /\ [Next]_vars
         => (TypeOK /\ BatchInv /\ BackedInv)'
  BY StepTyped, StepBatch, StepBacked
<1>3. BackedInv => FundedIsBacked
  BY DEF BackedInv, FundedIsBacked
<1> QED
  BY <1>1, <1>2, <1>3, PTL DEF Spec

-----------------------------------------------------------------------------
(* Who is given up *)

GiveUpInv ==
    /\ \A r \in perm \cup status.perm : missed[r] >= Threshold
    /\ \A r \in Recipients : missed[r] >= Threshold \/ missed[r] >= count[r]
    /\ pc \in {"transfer", "record", "settle"} =>
          \A r \in job.bad : missed[r] >= Threshold \/ missed[r] >= count[r] + 1

LEMMA InitGiveUp == Init => GiveUpInv
  BY DEF Init, GiveUpInv, Zero, EmptyStatus

\* A step that counts no lookup and gives nobody up.
LEMMA QuietGiveUp ==
    ASSUME GiveUpInv, UNCHANGED <<missed, count>>,
           perm' \cup status'.perm \subseteq perm \cup status.perm,
           \/ pc' \notin {"transfer", "record", "settle"}
           \/ /\ pc \in {"transfer", "record", "settle"}
              /\ job'.bad = job.bad
    PROVE  GiveUpInv'
  BY DEF GiveUpInv

\* The step that counts the failed lookups of a settled batch.
LEMMA CountGiveUp ==
    ASSUME TypeOK, GiveUpInv, pc = "settle", CountLookups, UNCHANGED missed
    PROVE  /\ \A r \in perm' : missed'[r] >= Threshold
           /\ \A r \in Recipients : missed'[r] >= Threshold \/ missed'[r] >= count'[r]
<1>1. Counted \subseteq job.bad /\ job.bad \subseteq Recipients
  BY FieldsTyped DEF Counted
<1>2. \A r \in Counted : missed[r] >= Threshold \/ missed[r] >= count[r] + 1
  BY <1>1 DEF GiveUpInv
<1>3. \A r \in Recipients : missed[r] \in Nat /\ count[r] \in Nat
  BY DEF TypeOK
<1>4. \A r \in GivenUp : missed[r] >= Threshold
  BY <1>1, <1>2, <1>3, ThresholdAssumption DEF GivenUp
<1>5. \A r \in Recipients :
         count'[r] = IF r \in Paying THEN 0
                     ELSE IF r \in Counted THEN count[r] + 1 ELSE count[r]
  BY DEF CountLookups
<1> QED
  BY <1>2, <1>3, <1>4, <1>5 DEF CountLookups, GiveUpInv

\* Every step of Next keeps give-ups earned.
LEMMA StepGiveUp == TypeOK /\ GiveUpInv /\ [Next]_vars => GiveUpInv'
<1> SUFFICES ASSUME TypeOK, GiveUpInv, [Next]_vars PROVE GiveUpInv'
  OBVIOUS
<1>1. CASE \/ ClearMaturityGate \/ RunFundingCycle \/ UNCHANGED vars
           \/ \E m \in Miners : MinerRegisters(m)
  BY <1>1, QuietGiveUp
  DEF ClearMaturityGate, RunFundingCycle, MinerRegisters, vars, ram, history
<1>2. CASE StartFunding
  BY <1>2, QuietGiveUp DEF StartFunding, history
<1>3. CASE LoadProgress
  BY <1>3, QuietGiveUp DEF LoadProgress, Rehydrated, ReturnToLoop, history
<1>4. CASE LoadUnreadable
  BY <1>4, QuietGiveUp DEF LoadUnreadable, ReturnToLoop, ram
<1>5. CASE DiscoverMiners
  BY <1>5, QuietGiveUp DEF DiscoverMiners, ReturnToLoop, history
<1>6. CASE CollectRecipients
  BY <1>6, QuietGiveUp DEF CollectRecipients, ram, history
<1>7. CASE CompleteEarly \/ PauseFunding \/ FinalizeFunding
  BY <1>7, QuietGiveUp
  DEF CompleteEarly, PauseFunding, FinalizeFunding, StatusOf, ReturnToLoop,
      ram, history
<1>8. CASE RegistryUnreadable \/ WriteRaises
  BY <1>8, QuietGiveUp DEF RegistryUnreadable, WriteRaises, ReturnToLoop, ram, history
<1>9. CASE SelectMiner
  BY <1>9, SelectJob, QuietGiveUp DEF history
<1>10. CASE LookUpAddresses
  <2>1. \A r \in Recipients : missed[r] \in Nat /\ count[r] \in Nat
    BY DEF TypeOK
  <2>2. perm \cup status.perm \subseteq Recipients /\ job.batch \subseteq Recipients
    BY FieldsTyped DEF TypeOK
  <2> QED
    BY <1>10, <2>1, <2>2, LookUpJob, ThresholdAssumption DEF GiveUpInv
<1>11. CASE TransferSucceeds \/ TransferRefused \/ RecordTransaction
  BY <1>11, QuietGiveUp
  DEF TransferSucceeds, TransferRefused, RecordTransaction, ram, history
<1>12. CASE TransferErrs \/ TransferAnswerLost \/ RecordRaises
  BY <1>12, RetryKeepsJob, QuietGiveUp
  DEF TransferErrs, TransferAnswerLost, RecordRaises, ram, history
<1>13. CASE SettleBatch
  BY <1>13, SettleJob, CountGiveUp DEF SettleBatch, GiveUpInv, history
<1>14. CASE SettleUnsaved
  BY <1>14, CountGiveUp DEF SettleUnsaved, ReturnToLoop, GiveUpInv
<1>15. CASE FailOver
  BY <1>15, FailOverJob, QuietGiveUp DEF history
<1>16. CASE CrashAndRestart
  <2>1. \A r \in Recipients : missed[r] \in Nat /\ count'[r] = 0
    BY <1>16 DEF CrashAndRestart, Zero, TypeOK
  <2> QED
    BY <1>16, <2>1 DEF CrashAndRestart, GiveUpInv
<1> QED
  BY <1>1, <1>2, <1>3, <1>4, <1>5, <1>6, <1>7, <1>8, <1>9, <1>10, <1>11,
     <1>12, <1>13, <1>14, <1>15, <1>16 DEF Next, DistributorStep

\* A recipient is given up only after Threshold failed lookups of its own
\* address (_record_recipient_failure): nothing a miner does counts.
THEOREM GiveUpsEarned == Spec => []GiveUpIsEarned
<1>1. Init => TypeOK /\ GiveUpInv
  BY InitTyped, InitGiveUp
<1>2. TypeOK /\ GiveUpInv /\ [Next]_vars => (TypeOK /\ GiveUpInv)'
  BY StepTyped, StepGiveUp
<1>3. GiveUpInv => GiveUpIsEarned
  BY DEF GiveUpInv, GiveUpIsEarned
<1> QED
  BY <1>1, <1>2, <1>3, PTL DEF Spec

-----------------------------------------------------------------------------
(* The status file implements the abstract ledger *)

\* With a readable file the job's funded set is the file's, nobody is both
\* funded and given up, and a completed file covers everybody.
LedgerInv ==
    /\ status.funded \cap (perm \cup status.perm) = {}
    /\ pc \notin {"sleep", "load"} =>
          job.funded = status.funded /\ status.perm \subseteq perm
    /\ status.completed =>
          /\ pc \in {"sleep", "load"}
          /\ Recipients \subseteq status.funded \cup status.perm

LEMMA InitLedger == Init => LedgerInv
  BY DEF Init, LedgerInv, EmptyStatus

\* The sums compared by _finalize_funding_status decide coverage, because the
\* two sets are disjoint.
LEMMA SumsCover ==
    ASSUME NEW F \in SUBSET Recipients, NEW P \in SUBSET Recipients,
           F \cap P = {}, Cardinality(F) + Cardinality(P) >= N
    PROVE  Recipients \subseteq F \cup P
<1>1. IsFiniteSet(Recipients) /\ Cardinality(Recipients) = N
  BY NAssumption, FS_Interval DEF Recipients
<1>2. IsFiniteSet(F) /\ IsFiniteSet(P) /\ IsFiniteSet(F \cup P)
  BY <1>1, FS_Subset, F \cup P \in SUBSET Recipients
<1>3. Cardinality(F \cup P) = Cardinality(F) + Cardinality(P) - Cardinality({})
  BY <1>2, FS_Union
<1>4. Cardinality(F \cup P) = Cardinality(F) + Cardinality(P)
  <2>1. Cardinality({}) = 0
    BY FS_EmptySet
  <2>2. Cardinality(F) \in Nat /\ Cardinality(P) \in Nat
    BY <1>2, FS_CardinalityType
  <2> QED
    BY <1>3, <2>1, <2>2
<1>5. Cardinality(F \cup P) <= N /\ (Cardinality(F \cup P) = N => F \cup P = Recipients)
  BY <1>1, FS_Subset, F \cup P \in SUBSET Recipients
<1>6. Cardinality(F \cup P) \in Nat
  BY <1>2, FS_CardinalityType
<1> QED
  BY <1>4, <1>5, <1>6, NAssumption

\* A step that writes the file: what is decided stays decided, and a
\* completed file covers everybody.
FileWritten ==
    /\ ~status.completed
    /\ status.funded \subseteq status'.funded
    /\ status.perm \subseteq status'.perm
    /\ status'.funded \cap (perm' \cup status'.perm) = {}
    /\ status'.completed => /\ pc' = "sleep"
                            /\ Recipients \subseteq status'.funded \cup status'.perm

LEMMA StepLedger ==
    ASSUME "read" \notin Faults, TypeOK, BatchInv, LedgerInv, [Next]_vars
    PROVE  LedgerInv' /\ (status' = status \/ FileWritten)
<1> USE NoJobFields DEF LedgerInv
<1>1. CASE ClearMaturityGate
  BY <1>1 DEF ClearMaturityGate
<1>2. CASE StartFunding
  BY <1>2 DEF StartFunding
<1>3. CASE RunFundingCycle \/ UNCHANGED vars
  BY <1>3 DEF RunFundingCycle, vars, ram
<1>4. CASE LoadProgress
  BY <1>4 DEF LoadProgress, Rehydrated, ReturnToLoop, NoJob
<1>5. CASE LoadUnreadable \/ RegistryUnreadable
  BY <1>5 DEF LoadUnreadable, RegistryUnreadable, Fault
<1>6. CASE DiscoverMiners
  BY <1>6 DEF DiscoverMiners, ReturnToLoop
<1>7. CASE CollectRecipients
  BY <1>7 DEF CollectRecipients, TypeOK, JobType, ram
<1>8. CASE CompleteEarly
  <2>1. status' = StatusOf(job.funded, job.failed, perm, TRUE)
    BY <1>8 DEF CompleteEarly
  <2>2. /\ status'.funded = status.funded
        /\ status'.perm = perm
        /\ status.perm \subseteq perm
        /\ ~status.completed
    BY <1>8, <2>1 DEF CompleteEarly, StatusOf
  <2>3. Recipients \subseteq status'.funded \cup status'.perm
    BY <1>8, <2>2 DEF CompleteEarly, Unfunded
  <2> QED
    BY <1>8, <2>2, <2>3 DEF CompleteEarly, ReturnToLoop, FileWritten
<1>9. CASE SelectMiner
  BY <1>9, SelectJob
<1>10. CASE LookUpAddresses
  BY <1>10, LookUpJob
<1>11. CASE TransferSucceeds \/ TransferRefused \/ RecordTransaction
  BY <1>11 DEF TransferSucceeds, TransferRefused, RecordTransaction, ram
<1>12. CASE TransferErrs \/ TransferAnswerLost \/ RecordRaises
  BY <1>12, RetryKeepsJob DEF TransferErrs, TransferAnswerLost, RecordRaises, ram
<1>13. CASE SettleBatch
  <2>1. FundedNow \cap (perm \cup GivenUp) = {}
    BY <1>13 DEF SettleBatch, FundedNow, Paying, GivenUp, Counted, BatchInv, BatchPcs
  <2>2. status.funded \subseteq FundedNow /\ status.perm \subseteq perm
    BY <1>13 DEF SettleBatch, FundedNow
  <2>3. ~status.completed
    BY <1>13 DEF SettleBatch
  <2> QED
    BY <1>13, <2>1, <2>2, <2>3, SettleJob DEF FileWritten
<1>14. CASE SettleUnsaved
  <2>1. status.funded \cap (perm \cup GivenUp) = {}
    BY <1>14 DEF SettleUnsaved, FundedNow, GivenUp, Counted
  <2> QED
    BY <1>14, <2>1 DEF SettleUnsaved, CountLookups, ReturnToLoop
<1>15. CASE FailOver
  BY <1>15, FailOverJob
<1>16. CASE PauseFunding
  <2>1. status' = StatusOf(job.funded, job.failed \cup job.batch, perm, FALSE)
    BY <1>16 DEF PauseFunding
  <2>2. /\ status'.funded = status.funded
        /\ status'.perm = perm
        /\ status.perm \subseteq perm
        /\ status'.completed = FALSE
        /\ ~status.completed
    BY <1>16, <2>1 DEF PauseFunding, StatusOf
  <2> QED
    BY <1>16, <2>2 DEF PauseFunding, ReturnToLoop, FileWritten, ram
<1>17. CASE FinalizeFunding
  <2>1. status' = StatusOf(job.funded, job.failed, perm, AllDone)
    BY <1>17 DEF FinalizeFunding
  <2>2. /\ status'.funded = status.funded
        /\ status'.perm = perm
        /\ status.perm \subseteq perm
        /\ status'.completed = AllDone
        /\ ~status.completed
    BY <1>17, <2>1 DEF FinalizeFunding, StatusOf
  <2>3. AllDone => Recipients \subseteq status.funded \cup perm
    <3>1. job.funded = status.funded /\ job.funded \cap perm = {}
      BY <1>17 DEF FinalizeFunding
    <3>2. job.funded \in SUBSET Recipients /\ perm \in SUBSET Recipients
      BY FieldsTyped DEF TypeOK
    <3> QED
      BY <3>1, <3>2, SumsCover DEF AllDone
  <2> QED
    BY <1>17, <2>2, <2>3 DEF FinalizeFunding, ReturnToLoop, FileWritten
<1>18. CASE WriteRaises
  BY <1>18 DEF WriteRaises, ReturnToLoop, ram
<1>19. CASE \E m \in Miners : MinerRegisters(m)
  BY <1>19 DEF MinerRegisters, ram
<1>20. CASE CrashAndRestart
  BY <1>20 DEF CrashAndRestart
<1> QED
  BY <1>1, <1>2, <1>3, <1>4, <1>5, <1>6, <1>7, <1>8, <1>9, <1>10, <1>11,
     <1>12, <1>13, <1>14, <1>15, <1>16, <1>17, <1>18, <1>19, <1>20
  DEF Next, DistributorStep

\* The invariant that the theorems on a readable file share.
LEMMA LedgerInvariant ==
    ASSUME "read" \notin Faults
    PROVE  Spec => [](TypeOK /\ BatchInv /\ LedgerInv)
<1>1. Init => TypeOK /\ BatchInv /\ LedgerInv
  BY InitTyped, InitBatch, InitLedger
<1>2. TypeOK /\ BatchInv /\ LedgerInv /\ [Next]_vars
         => (TypeOK /\ BatchInv /\ LedgerInv)'
  BY StepTyped, StepBatch, StepLedger
<1> QED
  BY <1>1, <1>2, PTL DEF Spec

\* completed = True is never written while an eligible recipient is neither
\* funded nor given up (_finalize_funding_status, _collect_eligible_recipients).
THEOREM CompletionCovers ==
    ASSUME "read" \notin Faults
    PROVE  Spec => []CompletedCoversAll
<1>1. LedgerInv => CompletedCoversAll
  BY DEF LedgerInv, CompletedCoversAll
<1> QED
  BY <1>1, LedgerInvariant, PTL

\* Between two iterations the locals hold nobody.
IdleInv == pc \in {"sleep", "load"} => job.funded = {}

LEMMA StepIdle == IdleInv /\ [Next]_vars => IdleInv'
<1> SUFFICES ASSUME IdleInv, [Next]_vars PROVE IdleInv'
  OBVIOUS
<1> USE DEF IdleInv
<1>1. NoJob.funded = {}
  BY DEF NoJob
<1>2. CASE \/ ClearMaturityGate \/ StartFunding \/ RunFundingCycle \/ UNCHANGED vars
           \/ \E m \in Miners : MinerRegisters(m)
  BY <1>2 DEF ClearMaturityGate, StartFunding, RunFundingCycle, MinerRegisters, vars
<1>3. CASE \/ LoadProgress \/ LoadUnreadable \/ DiscoverMiners \/ CompleteEarly
           \/ RegistryUnreadable \/ SettleUnsaved \/ PauseFunding \/ FinalizeFunding
           \/ WriteRaises \/ CrashAndRestart
  BY <1>1, <1>3
  DEF LoadProgress, LoadUnreadable, DiscoverMiners, CompleteEarly, RegistryUnreadable,
      SettleUnsaved, PauseFunding, FinalizeFunding, WriteRaises, CrashAndRestart,
      ReturnToLoop
<1>4. CASE \/ CollectRecipients \/ SelectMiner \/ LookUpAddresses \/ TransferSucceeds
           \/ TransferRefused \/ TransferErrs \/ TransferAnswerLost
           \/ RecordTransaction \/ RecordRaises \/ SettleBatch \/ FailOver
  BY <1>4
  DEF CollectRecipients, SelectMiner, LookUpAddresses, TransferSucceeds, TransferRefused,
      TransferErrs, TransferAnswerLost, RecordTransaction, RecordRaises, SettleBatch,
      FailOver, RetryAttempt
<1> QED
  BY <1>2, <1>3, <1>4 DEF Next, DistributorStep

\* Nobody is both funded and given up, in memory or in the file.
THEOREM OneOutcomeEach ==
    ASSUME "read" \notin Faults
    PROVE  Spec => []FundedOrGivenUp
<1>1. Init => IdleInv
  BY DEF Init, IdleInv, NoJob
<1>2. LedgerInv /\ IdleInv => FundedOrGivenUp
  BY DEF LedgerInv, IdleInv, FundedOrGivenUp
<1> QED
  BY <1>1, <1>2, StepIdle, LedgerInvariant, PTL DEF Spec

\* initial_funding_status.json behaves like the abstract ledger: every step of
\* MD, of its environment and of a restart is a ledger write or changes nothing.
THEOREM LedgerImplemented ==
    ASSUME "read" \notin Faults
    PROVE  Spec => ImplementsLedger
<1>1. Init => Ledger!Init
  BY DEF Init, EmptyStatus, Ledger!Init
<1>2. TypeOK /\ BatchInv /\ LedgerInv /\ [Next]_vars => [Ledger!Next]_(Ledger!ledger)
  <2> SUFFICES ASSUME TypeOK, BatchInv, LedgerInv, [Next]_vars
               PROVE  [Ledger!Next]_(Ledger!ledger)
    OBVIOUS
  <2>1. CASE status' = status
    BY <2>1 DEF Ledger!ledger
  <2>2. CASE FileWritten
    <3>1. status'.completed \in BOOLEAN
      BY StepTyped DEF TypeOK, StatusType
    <3> QED
      BY <2>2, <3>1
      DEF FileWritten, Ledger!Next, Ledger!Write, Ledger!AllDecided, Ledger!Outcomes
  <2> QED
    BY <2>1, <2>2, StepLedger
<1> QED
  BY <1>1, <1>2, LedgerInvariant, PTL DEF Spec, Ledger!Spec, ImplementsLedger

\* Once completed is in the file no step pays anybody for initial funding,
\* restarts included.
THEOREM CompletionStops ==
    ASSUME "read" \notin Faults
    PROVE  Spec => CompletionStopsPayments
<1>1. LedgerInv /\ [Next]_vars => [status.completed => paid' = paid]_vars
  BY DEF LedgerInv, Next, DistributorStep, vars, ram, history,
         ClearMaturityGate, StartFunding, RunFundingCycle, LoadProgress,
         LoadUnreadable, DiscoverMiners, CollectRecipients, CompleteEarly,
         RegistryUnreadable, SelectMiner, LookUpAddresses, TransferSucceeds,
         TransferRefused, TransferErrs, TransferAnswerLost, RecordTransaction,
         RecordRaises, SettleBatch, SettleUnsaved, FailOver, PauseFunding,
         FinalizeFunding, WriteRaises, MinerRegisters, CrashAndRestart
<1> QED
  BY <1>1, LedgerInvariant, PTL DEF Spec, CompletionStopsPayments

=============================================================================
