-------------------------- MODULE UserWalletProofs --------------------------
(***************************************************************************)
(* Proofs about UserWallet, for any number of wallet-rpc phases, any       *)
(* stages in which they end, and any faults.                               *)
(***************************************************************************)
EXTENDS UserWallet, TLAPS

\* Only a phase that has a successor is stopped.
StoppedInv == proc = "down" => phase < LastPhase

IInv == TypeOK /\ StoppedInv /\ SyncedFirst

-----------------------------------------------------------------------------

\* What a call, answered or not, does to the wallet-rpc and the fault count,
\* whoever makes it.
LEMMA CallEffect ==
    ASSUME IInv,
           \/ Raises \/ Reads \/ NotLoaded \/ Refreshes \/ OpenSucceeds
           \/ OpenRaises \/ Reopen
           \/ Loaded /\ Fault("lost") /\ UNCHANGED wallet
           \/ UNCHANGED <<wallet, faults>>
           \/ NoFault /\ UNCHANGED wallet
    PROVE  /\ phase' = phase /\ proc' = proc
           /\ open' \in BOOLEAN /\ keys' \in BOOLEAN /\ fresh' \in BOOLEAN
           /\ fresh => fresh'
           /\ faults' \in Nat
<1>t. /\ open \in BOOLEAN /\ keys \in BOOLEAN /\ fresh \in BOOLEAN
      /\ faults \in Nat
  BY DEF IInv, TypeOK
<1>1. faults' \in Nat
  BY <1>t DEF Raises, Reads, NotLoaded, Refreshes, OpenSucceeds, OpenRaises,
              Reopen, Fault, NoFault
<1>2. phase' = phase /\ proc' = proc
  BY DEF Raises, Reads, NotLoaded, Refreshes, OpenSucceeds, OpenRaises,
         Reopen, Opened, wallet
<1>3. open' \in BOOLEAN /\ keys' \in BOOLEAN
  BY <1>t, Zenon
     DEF Raises, Reads, NotLoaded, Refreshes, OpenSucceeds, OpenRaises,
         Reopen, Opened, wallet
<1>4. fresh' \in BOOLEAN /\ (fresh => fresh')
  BY <1>t, Zenon
     DEF Raises, Reads, NotLoaded, Refreshes, OpenSucceeds, OpenRaises,
         Reopen, Opened, wallet
<1> QED
  BY <1>1, <1>2, <1>3, <1>4

\* A step of the agent that calls the wallet-rpc at most once and leaves
\* synced alone, or says "yes" of a wallet that has just caught up.
LEMMA AgentStep ==
    ASSUME IInv,
           phase' = phase, proc' = proc,
           open' \in BOOLEAN, keys' \in BOOLEAN, fresh' \in BOOLEAN,
           fresh => fresh',
           faults' \in Nat,
           role' = role,
           pc' \in Places, address' \in BOOLEAN, named' \in BOOLEAN,
           waiting' \in BOOLEAN, errors' \in 0..MaxErrors,
           \/ synced' = synced
           \/ synced' = "no" /\ pc' = "sync"
           \/ synced' = "yes" /\ fresh',
           pc' \in {"refresh", "balance", "transfer", "record"} =>
               \/ pc \in {"refresh", "balance", "transfer", "record"}
                     /\ synced' = synced
               \/ synced' # "no"
    PROVE  IInv'
<1>1. TypeOK'
  BY DEF IInv, TypeOK
<1>2. StoppedInv'
  BY DEF IInv, StoppedInv
<1>3. SyncedFirst'
  BY DEF IInv, SyncedFirst
<1> QED
  BY <1>1, <1>2, <1>3 DEF IInv

\* The places a set-up step leads to are places.
LEMMA SetupPreserves == ASSUME IInv, Setup PROVE IInv'
<1>t. /\ role \in AllRoles /\ address \in BOOLEAN /\ named \in BOOLEAN
      /\ waiting \in BOOLEAN /\ errors \in 0..MaxErrors /\ pc \in Places
  BY DEF IInv, TypeOK
<1>1. CASE Connect
  <2>1. /\ phase' = phase /\ proc' = proc
        /\ open' \in BOOLEAN /\ keys' \in BOOLEAN /\ fresh' \in BOOLEAN
        /\ fresh => fresh'
        /\ faults' \in Nat
    BY <1>1, CallEffect DEF Connect
  <2> QED
    BY <1>1, <1>t, <2>1, AgentStep DEF Connect, Places, SetupPlaces
<1>2. CASE OpenExisting
  <2>1. /\ phase' = phase /\ proc' = proc
        /\ open' \in BOOLEAN /\ keys' \in BOOLEAN /\ fresh' \in BOOLEAN
        /\ fresh => fresh'
        /\ faults' \in Nat
    BY <1>2, CallEffect DEF OpenExisting
  <2>2. named' \in BOOLEAN
    BY <1>2, <1>t DEF OpenExisting, OpenSucceeds, OpenRaises
  <2> QED
    BY <1>2, <1>t, <2>1, <2>2, AgentStep DEF OpenExisting, Places, SetupPlaces
<1>3. CASE CreateWallet
  <2>1. /\ phase' = phase /\ proc' = proc
        /\ open' \in BOOLEAN /\ keys' \in BOOLEAN /\ fresh' \in BOOLEAN
        /\ fresh => fresh'
        /\ faults' \in Nat
    BY <1>3, CallEffect DEF CreateWallet
  <2>2. named' \in BOOLEAN
    BY <1>3, <1>t DEF CreateWallet, OpenSucceeds, OpenRaises
  <2> QED
    BY <1>3, <1>t, <2>1, <2>2, AgentStep DEF CreateWallet, Places, SetupPlaces
<1>4. CASE GetAddress
  <2>1. /\ phase' = phase /\ proc' = proc
        /\ open' \in BOOLEAN /\ keys' \in BOOLEAN /\ fresh' \in BOOLEAN
        /\ fresh => fresh'
        /\ faults' \in Nat
    BY <1>4, CallEffect DEF GetAddress
  <2>2. /\ address' \in BOOLEAN /\ waiting' \in BOOLEAN
        /\ pc' \in {"address", "lastTry", "iterate"}
    BY <1>4, <1>t DEF GetAddress, HaveAddress, Reopen
  <2> QED
    BY <1>4, <1>t, <2>1, <2>2, AgentStep DEF GetAddress, Places, SetupPlaces
<1>5. CASE LastTry
  <2>1. /\ phase' = phase /\ proc' = proc
        /\ open' \in BOOLEAN /\ keys' \in BOOLEAN /\ fresh' \in BOOLEAN
        /\ fresh => fresh'
        /\ faults' \in Nat
    BY <1>5, CallEffect DEF LastTry
  <2>2. /\ address' \in BOOLEAN /\ waiting' \in BOOLEAN
        /\ pc' \in {"lastTry", "iterate"}
    BY <1>5, <1>t DEF LastTry, HaveAddress, Reopen
  <2> QED
    BY <1>5, <1>t, <2>1, <2>2, AgentStep DEF LastTry, Places, SetupPlaces
<1> QED
  BY <1>1, <1>2, <1>3, <1>4, <1>5 DEF Setup

\* Only a success of the first refresh sets synced, and only an iteration
\* that finds it set (or never unset) goes on to the balance.
LEMMA IterationPreserves == ASSUME IInv, Iteration PROVE IInv'
<1>t. /\ role \in AllRoles /\ address \in BOOLEAN /\ named \in BOOLEAN
      /\ waiting \in BOOLEAN /\ errors \in 0..MaxErrors /\ pc \in Places
      /\ pc \in {"refresh", "balance", "transfer", "record"} => synced # "no"
  BY DEF IInv, TypeOK, SyncedFirst
<1>e. /\ errors' = IF errors < MaxErrors THEN errors + 1 ELSE errors
      => errors' \in 0..MaxErrors
  BY <1>t DEF MaxErrors
<1>z. 0 \in 0..MaxErrors
  BY DEF MaxErrors
<1>1. CASE MinerIteration
  BY <1>1 DEF MinerIteration, vars, agent, wallet, IInv, TypeOK, StoppedInv,
              SyncedFirst
<1>c. ASSUME ~ MinerIteration
      PROVE  /\ phase' = phase /\ proc' = proc
             /\ open' \in BOOLEAN /\ keys' \in BOOLEAN /\ fresh' \in BOOLEAN
             /\ fresh => fresh'
             /\ faults' \in Nat
  BY <1>c, CallEffect
     DEF Iteration, StartActivity, BeginIteration, SyncWallet, SyncFails,
         RefreshWallet, SkipRefresh, FundsReady, NothingToSend, BalanceFails,
         Transfer, TransferRaises, RecordTransaction, RecoverOpen,
         RecoverRefresh
<1>2. CASE StartActivity
  BY <1>2, <1>t, <1>c, <1>1, AgentStep DEF StartActivity, Places
<1>3. CASE BeginIteration
  BY <1>3, <1>t, <1>c, <1>1, AgentStep DEF BeginIteration, Places
<1>4. CASE SyncWallet
  <2>1. CASE Refreshes /\ synced' = "yes" /\ pc' = "refresh"
    <3>1. fresh'
      BY <2>1 DEF Refreshes
    <3> QED
      BY <1>4, <2>1, <3>1, <1>t, <1>c, <1>1, AgentStep DEF SyncWallet, Places
  <2>2. CASE SyncFails
    BY <1>4, <2>2, <1>t, <1>c, <1>1, AgentStep DEF SyncWallet, SyncFails, Places
  <2> QED
    BY <1>4, <2>1, <2>2 DEF SyncWallet
<1>5. CASE RefreshWallet
  BY <1>5, <1>t, <1>c, <1>1, AgentStep DEF RefreshWallet, Places
<1>6. CASE SkipRefresh
  BY <1>6, <1>t, <1>c, <1>1, AgentStep DEF SkipRefresh, Places
<1>7. CASE FundsReady
  BY <1>7, <1>t, <1>c, <1>1, AgentStep DEF FundsReady, Places
<1>8. CASE NothingToSend
  BY <1>8, <1>t, <1>z, <1>c, <1>1, AgentStep DEF NothingToSend, Succeeds, Places
<1>9. CASE BalanceFails
  <2>1. pc' \in {"recover", "iterate"} /\ errors' \in 0..MaxErrors
    BY <1>9, <1>e DEF BalanceFails, OnError
  <2> QED
    BY <1>9, <2>1, <1>t, <1>c, <1>1, AgentStep DEF BalanceFails, Places
<1>10. CASE Transfer
  BY <1>10, <1>t, <1>c, <1>1, AgentStep DEF Transfer, Places
<1>11. CASE TransferRaises
  BY <1>11, <1>t, <1>z, <1>c, <1>1, AgentStep DEF TransferRaises, Succeeds, Places
<1>12. CASE RecordTransaction
  BY <1>12, <1>t, <1>z, <1>c, <1>1, AgentStep DEF RecordTransaction, Succeeds, Places
<1>13. CASE RecoverOpen
  <2>1. named' \in BOOLEAN /\ pc' \in {"reload", "iterate"}
    BY <1>13, <1>t DEF RecoverOpen, OpenSucceeds, OpenRaises
  <2> QED
    BY <1>13, <2>1, <1>t, <1>c, <1>1, AgentStep DEF RecoverOpen, Places
<1>14. CASE RecoverRefresh
  BY <1>14, <1>t, <1>c, <1>1, AgentStep DEF RecoverRefresh, Places
<1> QED
  BY <1>1, <1>2, <1>3, <1>4, <1>5, <1>6, <1>7, <1>8, <1>9, <1>10, <1>11,
     <1>12, <1>13, <1>14 DEF Iteration

\* A killed phase takes freshness with it, but it is no longer the first.
LEMMA PhasesPreserve == ASSUME IInv, Phases PROVE IInv'
<1>1. CASE Hang
  BY <1>1 DEF Hang, Fault, agent, IInv, TypeOK, StoppedInv, SyncedFirst
<1>2. CASE StopPhase
  BY <1>2 DEF StopPhase, MayStop, agent, IInv, TypeOK, StoppedInv, SyncedFirst
<1>3. CASE StartPhase
  BY <1>3, LastPhaseAssumption
     DEF StartPhase, agent, IInv, TypeOK, StoppedInv, SyncedFirst
<1> QED
  BY <1>1, <1>2, <1>3 DEF Phases

LEMMA InitInv == Init => IInv
<1> SUFFICES ASSUME Init PROVE IInv
  OBVIOUS
<1>1. role \in AllRoles /\ phase \in 1..LastPhase
  BY RolesAssumption, LastPhaseAssumption DEF Init
<1>2. /\ address \in BOOLEAN /\ named \in BOOLEAN /\ waiting \in BOOLEAN
      /\ open \in BOOLEAN /\ keys \in BOOLEAN /\ fresh \in BOOLEAN
  BY Zenon DEF Init
<1>3. errors \in 0..MaxErrors /\ faults \in Nat
  BY DEF Init, MaxErrors
<1>4. /\ pc \in Places /\ synced \in {"unset", "no", "yes"}
      /\ proc \in {"up", "hung", "down"}
  BY DEF Init, Places, SetupPlaces
<1>5. StoppedInv /\ SyncedFirst
  BY DEF Init, StoppedInv, SyncedFirst
<1> QED
  BY <1>1, <1>2, <1>3, <1>4, <1>5 DEF IInv, TypeOK

LEMMA NextInv == IInv /\ [Next]_vars => IInv'
<1> SUFFICES ASSUME IInv, [Next]_vars PROVE IInv'
  OBVIOUS
<1>1. CASE Next
  BY <1>1, SetupPreserves, IterationPreserves, PhasesPreserve DEF Next
<1>2. CASE UNCHANGED vars
  BY <1>2 DEF vars, agent, wallet, IInv, TypeOK, StoppedInv, SyncedFirst
<1> QED
  BY <1>1, <1>2

-----------------------------------------------------------------------------

\* Every variable has its type, in every behaviour; in particular no phase is
\* started after the last.
THEOREM WalletTypeCorrect == Spec => []TypeOK
<1>1. IInv => TypeOK
  BY DEF IInv
<1> QED
  BY <1>1, InitInv, NextInv, PTL DEF Spec

\* After the wait for the activity start no balance is looked at before the
\* wallet has caught up, and no recovery within the phase takes that back.
THEOREM SyncComesFirst == Spec => []SyncedFirst
<1>1. IInv => SyncedFirst
  BY DEF IInv
<1> QED
  BY <1>1, InitInv, NextInv, PTL DEF Spec

=============================================================================
