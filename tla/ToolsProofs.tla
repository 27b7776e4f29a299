---------------------------- MODULE ToolsProofs ----------------------------
(***************************************************************************)
(* What the tools around a run promise, for every value of the constants:  *)
(* that the verdict of a verification check and the report on a run are    *)
(* earned, that a configuration is saved beside its own scenario and is    *)
(* one the orchestrator starts, that its phases follow one another at the  *)
(* times its head tells, that upgrades roll in turn and that users begin   *)
(* one after the other, that the board of block rates counts every block   *)
(* once; and what its registries promise: that readers without a lock see  *)
(* whole ones, and that an address once registered stays.                  *)
(***************************************************************************)
EXTENDS RpcVerification, ConfigGeneration, UpgradeWizard, RunReport, ScenarioExpansion,
        BlockHistogram, Registries, FiniteSetTheorems, FunctionTheorems, NaturalsInduction,
        SequenceTheorems, TLAPS

-----------------------------------------------------------------------------
(* Verification checks *)

Calls ==
    [create |-> {"open_wallet", "create_wallet"}, open |-> {"open_wallet", "get_address"},
     blocks |-> {"get_info", "generateblocks", "last_info"},
     payment |-> {"get_balance", "transfer"}, sync |-> {"first", "second"},
     p2p |-> {"first", "second"}]

Accounts == [exists : BOOLEAN, open : BOOLEAN, funded : BOOLEAN, known : BOOLEAN]

Typed ==
    /\ task \in {"create", "open", "blocks", "payment", "sync", "p2p"}
    /\ method \in Calls[task] \cup {"returned"}
    /\ nth \in 1..Limit
    /\ account \in Accounts
    /\ paid \in Nat /\ bad \in Nat /\ unheard \in Nat
    /\ outcome \in BOOLEAN

\* A wallet that exists is opened unless a call fails; so where it exists at its
\* creation, one has.  With a known error a creation is only refused by
\* failures, since one that meets a wallet opens it.  An address is asked of an
\* open wallet; and before the check of a payment returns, every payment that was
\* made was unheard of.
Underway ==
    /\ task = "create" /\ method = "open_wallet" /\ account.exists => bad >= nth - 1
    /\ task = "create" /\ method = "create_wallet" =>
           /\ account.exists => bad >= 1
           /\ account.known => bad >= nth - 1
    /\ task = "open" /\ method = "get_address" => account.open
    /\ task = "payment" /\ method # "returned" => paid = unheard

VInv == Typed /\ Underway /\ VerdictIsEarned

LEMMA InitVInv == VerificationInit => VInv
<1> SUFFICES ASSUME VerificationInit PROVE VInv
  OBVIOUS
<1>1. task \in {"create", "open", "blocks", "payment", "sync", "p2p"}
  BY DEF VerificationInit, FirstCall
<1>2. /\ method \in Calls[task] /\ method # "returned"
      /\ method \notin {"create_wallet", "get_address"}
  BY <1>1 DEF VerificationInit, FirstCall, Calls
<1>3. account \in Accounts
  <2>1. (IF task = "create" THEN BOOLEAN ELSE {TRUE}) \subseteq BOOLEAN
    OBVIOUS
  <2> QED
    BY <2>1 DEF VerificationInit, Accounts
<1>4. nth \in 1..Limit /\ nth = 1 /\ paid = 0 /\ bad = 0 /\ unheard = 0 /\ outcome = FALSE
  BY VerificationAssumption DEF VerificationInit, Limit
<1>5. Typed
  BY <1>1, <1>2, <1>3, <1>4 DEF Typed
<1>6. nth - 1 = 0 /\ bad >= nth - 1
  BY <1>4
<1> QED
  BY <1>2, <1>4, <1>5, <1>6 DEF VInv, Underway, VerdictIsEarned

\* What others do between the calls does not touch the check.
LEMMA ChangeKeeps ==
    ASSUME VInv, NEW n, NEW what, Change(n, what)
    PROVE  VInv'
  BY DEF VInv, Typed, Underway, VerdictIsEarned, Change, Limit

-----------------------------------------------------------------------------
(* What a call does, and what follows it, told apart by the check. *)

LEMMA EffectTyped ==
    ASSUME VInv, Effect
    PROVE  /\ account' \in Accounts
           /\ account.open => account'.open
           /\ account'.known = account.known
           /\ method \notin {"open_wallet", "create_wallet"} => account'.exists = account.exists
           /\ method \in {"open_wallet", "create_wallet"} => account'.open
           /\ paid' = paid + IF method = "transfer" THEN 1 ELSE 0
           /\ method # "generateblocks" => net' = net
<1>1. account \in Accounts /\ paid \in Nat
  BY DEF VInv, Typed
<1>2. account' = IF method \in {"open_wallet", "create_wallet"}
                 THEN [account EXCEPT !.exists = TRUE, !.open = TRUE] ELSE account
  BY DEF Effect
<1>3. /\ account' \in Accounts
      /\ account.open => account'.open
      /\ account'.known = account.known
      /\ method \notin {"open_wallet", "create_wallet"} => account'.exists = account.exists
      /\ method \in {"open_wallet", "create_wallet"} => account'.open
  <2>1. CASE method \in {"open_wallet", "create_wallet"}
    <3>1. account' = [account EXCEPT !.exists = TRUE, !.open = TRUE]
      BY <1>2, <2>1
    <3>2. account' = [exists |-> TRUE, open |-> TRUE, funded |-> account.funded,
                      known |-> account.known]
      BY <1>1, <3>1 DEF Accounts
    <3>3. account.funded \in BOOLEAN /\ account.known \in BOOLEAN
      BY <1>1 DEF Accounts
    <3> QED
      BY <2>1, <3>2, <3>3 DEF Accounts
  <2>2. CASE method \notin {"open_wallet", "create_wallet"}
    BY <1>1, <1>2, <2>2
  <2> QED
    BY <2>1, <2>2
<1>4. /\ paid' = paid + IF method = "transfer" THEN 1 ELSE 0
      /\ method # "generateblocks" => net' = net
  BY <1>1 DEF Effect
<1> QED
  BY <1>3, <1>4

LEMMA AfterTold ==
    ASSUME NEW answered \in BOOLEAN, AfterCall(answered), VInv, method # "returned"
    PROVE  /\ nth' = 1
           /\ task = "create" => CreateAfter(answered)
           /\ task = "open" => OpenAfter(answered)
           /\ task = "blocks" => BlocksAfter(answered)
           /\ task = "payment" => PaymentAfter(answered)
           /\ task \in {"sync", "p2p"} => \E one, two : PairAfter(one, two)
           /\ method = "last_info" => heard' = heard
<1>1. task \in {"create", "open", "blocks", "payment", "sync", "p2p"}
  BY DEF VInv, Typed
<1>2. method = "last_info" => heard' = heard
  BY DEF AfterCall
<1>3. ASSUME task \in {"sync", "p2p"} PROVE \E one, two : PairAfter(one, two)
  BY <1>3 DEF AfterCall
<1>5. ASSUME task = "create" PROVE CreateAfter(answered)
  BY <1>5 DEF AfterCall
<1>6. ASSUME task = "open" PROVE OpenAfter(answered)
  BY <1>6 DEF AfterCall
<1>7. ASSUME task = "blocks" PROVE BlocksAfter(answered)
  BY <1>7 DEF AfterCall
<1>8. ASSUME task = "payment" PROVE PaymentAfter(answered)
  BY <1>8 DEF AfterCall
<1>9. nth' = 1
  BY DEF AfterCall
<1> QED
  BY <1>2, <1>3, <1>5, <1>6, <1>7, <1>8, <1>9

\* The call that follows belongs to the check, and a wallet is only asked for
\* its address, or a payment made, after an answer.
LEMMA AfterTyped ==
    ASSUME NEW answered \in BOOLEAN, AfterCall(answered), VInv, method # "returned",
           task' = task
    PROVE  /\ nth' = 1
           /\ method' \in Calls[task] \cup {"returned"}
           /\ outcome' \in BOOLEAN
<1>1. outcome \in BOOLEAN
  BY DEF VInv, Typed
<1>2. CASE task = "create"
  BY <1>1, <1>2, AfterTold DEF CreateAfter, Return, Proceed, Calls
<1>3. CASE task = "open"
  BY <1>1, <1>3, AfterTold DEF OpenAfter, Return, Proceed, Calls
<1>4. CASE task = "blocks"
  <2>1. BlocksAfter(answered) /\ nth' = 1
    BY <1>4, AfterTold
  <2>2. method \in {"get_info", "generateblocks", "last_info"}
    BY <1>4 DEF VInv, Typed, Calls
  <2>3. Grown \in BOOLEAN
    BY DEF Grown
  <2> QED
    BY <1>1, <1>4, <2>1, <2>2, <2>3 DEF BlocksAfter, Return, Proceed, Calls
<1>5. CASE task = "payment"
  BY <1>1, <1>5, AfterTold DEF PaymentAfter, Return, Proceed, Calls
<1>6. CASE task \in {"sync", "p2p"}
  <2>1. PICK one, two : PairAfter(one, two)
    BY <1>6, AfterTold
  <2>2. /\ method' \in {"first", "second", "returned"}
        /\ outcome' \in {outcome, TRUE, FALSE}
    BY <2>1 DEF PairAfter, Compare, Return, Proceed
  <2>3. Calls[task] = {"first", "second"}
    BY <1>6 DEF Calls
  <2>4. outcome' \in BOOLEAN
    BY <1>1, <2>2, Zenon
  <2> QED
    BY <2>2, <2>3, <2>4, AfterTold
<1> QED
  BY <1>2, <1>3, <1>4, <1>5, <1>6 DEF VInv, Typed

-----------------------------------------------------------------------------
(* Every step of a call keeps the invariant. *)

\* What a call does, answered or not: a wallet that is open stays open, one that
\* is not opened or created is none or has cost a failure, and payments and
\* lost answers agree.
Effects(answered) ==
    /\ task' = task
    /\ account' \in Accounts /\ (account.open => account'.open)
    /\ bad' \in Nat /\ bad' >= bad /\ paid' \in Nat /\ unheard' \in Nat
    /\ method = "last_info" => net' = net
    /\ answered /\ method \in {"open_wallet", "create_wallet"} => account'.open
    /\ account'.known = account.known
    /\ ~answered /\ method = "open_wallet" /\ account'.exists =>
           account.exists /\ bad' = bad + 1
    /\ ~answered /\ method = "create_wallet" =>
           \/ bad' = bad + 1
           \/ ~account.known /\ account.exists /\ account' = account
    /\ task = "payment" /\ answered /\ method = "transfer" => paid' = unheard' + 1
    /\ task = "payment" /\ (~answered \/ method # "transfer") => paid' = unheard'

LEMMA AfterKeeps ==
    ASSUME VInv, method # "returned", NEW answered \in BOOLEAN, Effects(answered),
           AfterCall(answered), ~answered => nth = Limit
    PROVE  VInv'
<1>1. Typed'
  <2>1. Limit' = Limit /\ 1 \in 1..Limit
    BY VerificationAssumption DEF Effects, Limit
  <2> QED
    BY <2>1, AfterTyped DEF Effects, VInv, Typed
<1>2. CASE task = "create"
  <2>1. CreateAfter(answered)
    BY <1>2, AfterTold
  <2>2. method \in {"open_wallet", "create_wallet"} /\ nth' = 1
    BY <1>2, AfterTold DEF VInv, Typed, Calls
  <2>3. /\ CallAttempts \in Nat \ {0} /\ bad \in Nat /\ bad' \in Nat /\ bad' >= bad
        /\ ~answered => nth = CallAttempts
        /\ account'.known = account.known /\ task' = "create"
    BY <1>2, VerificationAssumption DEF VInv, Typed, Effects, Limit
  <2>4. CASE method = "create_wallet"
    <3>1. method' = "returned" /\ outcome' = answered /\ (answered => account'.open)
      BY <2>1, <2>4 DEF CreateAfter, Return, Effects
    <3>2. ASSUME ~answered
          PROVE  bad' >= IF account.known THEN CallAttempts ELSE 1
      <4>1. /\ account.exists => bad >= 1
            /\ account.known => bad >= nth - 1
        BY <1>2, <2>4 DEF VInv, Underway
      <4>2. \/ bad' = bad + 1
            \/ ~account.known /\ account.exists
        BY <2>4, <3>2 DEF Effects
      <4> QED
        BY <2>3, <3>2, <4>1, <4>2
    <3> QED
      BY <1>1, <2>3, <3>1, <3>2 DEF VInv, Underway, VerdictIsEarned
  <2>5. CASE method = "open_wallet" /\ answered
    <3>1. method' = "returned" /\ outcome' = TRUE /\ account'.open
      BY <2>1, <2>5 DEF CreateAfter, Return, Effects
    <3> QED
      BY <1>1, <2>3, <3>1 DEF VInv, Underway, VerdictIsEarned
  <2>6. CASE method = "open_wallet" /\ ~answered
    <3>1. method' = "create_wallet"
      BY <2>1, <2>6 DEF CreateAfter, Proceed
    <3>2. ASSUME account'.exists PROVE bad' >= 1
      BY <1>2, <2>3, <2>6, <3>2 DEF VInv, Underway, Effects
    <3> QED
      BY <1>1, <2>2, <2>3, <3>1, <3>2 DEF VInv, Underway, VerdictIsEarned
  <2> QED
    BY <2>2, <2>4, <2>5, <2>6
<1>3. CASE task = "open"
  <2>1. OpenAfter(answered)
    BY <1>3, AfterTold
  <2>2. method \in {"open_wallet", "get_address"}
    BY <1>3 DEF VInv, Typed, Calls
  <2> QED
    BY <1>1, <1>3, <2>1, <2>2
    DEF VInv, Underway, VerdictIsEarned, OpenAfter, Return, Proceed, Effects
<1>4. CASE task = "blocks"
  <2>1. BlocksAfter(answered) /\ (method = "last_info" => heard' = heard)
    BY <1>4, AfterTold
  <2>2. method \in {"get_info", "generateblocks", "last_info"}
    BY <1>4 DEF VInv, Typed, Calls
  <2>3. method = "last_info" => Grown' = Grown
    BY <2>1 DEF Effects, Grown
  <2>4. method' = "returned" /\ outcome' => Grown'
    <3>1. CASE ~answered
      BY <2>1, <3>1 DEF BlocksAfter, Return
    <3>2. CASE answered /\ method = "last_info"
      <4>1. outcome' = Grown
        BY <2>1, <3>2 DEF BlocksAfter, Return
      <4> QED
        BY <2>3, <3>2, <4>1
    <3>3. CASE answered /\ method \in {"get_info", "generateblocks"}
      BY <2>1, <3>3 DEF BlocksAfter, Proceed
    <3> QED
      BY <2>2, <3>1, <3>2, <3>3
  <2> QED
    BY <1>1, <1>4, <2>4 DEF VInv, Underway, VerdictIsEarned, Effects
<1>5. CASE task = "payment"
  <2>1. PaymentAfter(answered)
    BY <1>5, AfterTold
  <2>2. method \in {"get_balance", "transfer"}
    BY <1>5 DEF VInv, Typed, Calls
  <2>3. /\ answered /\ method = "transfer" => paid' = unheard' + 1
        /\ ~answered \/ method # "transfer" => paid' = unheard'
    BY <1>5 DEF Effects
  <2>4. /\ method' # "returned" => ~(answered /\ method = "transfer")
        /\ method' = "returned" => (outcome' <=> answered /\ method = "transfer")
    BY <2>1, <2>2 DEF PaymentAfter, Return, Proceed
  <2> QED
    <3>1. /\ paid' \in Nat /\ unheard' \in Nat /\ task' = "payment"
          /\ method' = "returned" /\ outcome' => paid' = 1 + unheard'
          /\ method' # "returned" \/ ~outcome' => paid' = unheard'
      <4>1. paid' \in Nat /\ unheard' \in Nat /\ task' = "payment"
        BY <1>5 DEF Effects
      <4>2. /\ method' = "returned" /\ outcome' => paid' = unheard' + 1
            /\ method' # "returned" \/ ~outcome' => paid' = unheard'
        BY <2>3, <2>4, Zenon
      <4>3. unheard' + 1 = 1 + unheard'
        BY <4>1
      <4> QED
        BY <4>1, <4>2, <4>3, Zenon
    <3>2. Underway'
      BY <2>4, <3>1 DEF Underway
    <3>3. VerdictIsEarned'
      BY <2>4, <3>1 DEF VerdictIsEarned
    <3> QED
      BY <1>1, <3>2, <3>3 DEF VInv
<1>6. CASE task \in {"sync", "p2p"}
  BY <1>1, <1>6 DEF VInv, Underway, VerdictIsEarned, Effects
<1> QED
  BY <1>2, <1>3, <1>4, <1>5, <1>6 DEF VInv, Typed

LEMMA RetryKeeps ==
    ASSUME VInv, method # "returned", Effects(FALSE), nth < Limit, nth' = nth + 1,
           UNCHANGED <<method, outcome, round, heard>>
    PROVE  VInv'
<1>1. Limit' = Limit /\ Limit \in Nat
  BY VerificationAssumption DEF Effects, Limit
<1>2. Typed'
  BY <1>1 DEF VInv, Typed, Effects
<1>3. Underway'
  <2>1. nth \in Nat /\ bad \in Nat /\ method' = method
    BY <1>1 DEF VInv, Typed
  <2>2. ASSUME task = "create", method = "create_wallet"
        PROVE  /\ account'.exists => bad' >= 1
               /\ account'.known => bad' >= nth' - 1
    BY <2>1, <2>2 DEF VInv, Underway, Effects
  <2>4. ASSUME task = "create", method = "open_wallet", account'.exists
        PROVE  bad' >= nth' - 1
    BY <2>1, <2>4 DEF VInv, Underway, Effects
  <2>3. task = "payment" => paid' = unheard'
    BY DEF Effects
  <2> QED
    BY <2>1, <2>2, <2>3, <2>4 DEF VInv, Underway, Effects
<1>4. VerdictIsEarned'
  BY DEF VerdictIsEarned
<1> QED
  BY <1>2, <1>3, <1>4 DEF VInv

\* Unanswered is one or the other.
LEMMA UnansweredKeeps ==
    ASSUME VInv, method # "returned", Effects(FALSE), Unanswered
    PROVE  VInv'
<1>1. CASE nth < Limit /\ nth' = nth + 1 /\ UNCHANGED <<method, outcome, round, heard>>
  BY <1>1, RetryKeeps
<1>2. CASE nth = Limit /\ AfterCall(FALSE)
  BY <1>2, AfterKeeps
<1> QED
  BY <1>1, <1>2 DEF Unanswered

LEMMA SucceedKeeps == VInv /\ Succeed => VInv'
<1> SUFFICES ASSUME VInv, Succeed PROVE VInv'
  OBVIOUS
<1>1. paid \in Nat /\ unheard \in Nat /\ bad \in Nat
  BY DEF VInv, Typed
<1>2. task = "payment" /\ method # "returned" => paid = unheard
  BY DEF VInv, Underway
<1>3. Effects(TRUE)
  BY <1>1, <1>2, EffectTyped DEF Succeed, Effects
<1> QED
  BY <1>3, AfterKeeps DEF Succeed

\* The check of a payment that ends without a hash has made one more.
LEMMA HashlessKeeps == VInv /\ Hashless => VInv'
<1> SUFFICES ASSUME VInv, Hashless PROVE VInv'
  OBVIOUS
<1>1. method' = "returned" /\ ~outcome' /\ outcome' \in BOOLEAN /\ nth' = 1 /\ task' = task
  BY DEF Hashless, Return
<1>2. paid' = paid + 1 /\ unheard' = unheard + 1 /\ account' = account /\ bad' = bad
  BY DEF Hashless, Effect
<1>3. task = "payment" /\ method = "transfer"
  BY DEF VInv, Typed, Calls, Hashless
<1>4. Typed'
  <2>1. Limit' = Limit /\ 1 \in 1..Limit
    BY <1>1, VerificationAssumption DEF Limit
  <2> QED
    BY <1>1, <1>2, <2>1 DEF VInv, Typed
<1>5. paid' = unheard'
  BY <1>2, <1>3 DEF VInv, Underway
<1> QED
  BY <1>1, <1>3, <1>4, <1>5 DEF VInv, Underway, VerdictIsEarned

\* A creation is only refused by a wallet that exists, with an unknown error.
LEMMA RefuseKeeps == VInv /\ Refuse => VInv'
<1> SUFFICES ASSUME VInv, Refuse PROVE VInv'
  OBVIOUS
<1>1. /\ method = "create_wallet" => account.exists /\ ~account.known
      /\ method = "open_wallet" => ~account.exists
  BY DEF Refuse, CanDo, Recovers
<1>2. Effects(FALSE)
  BY <1>1 DEF Refuse, Effects, VInv, Typed, Underway
<1> QED
  BY <1>2, UnansweredKeeps DEF Refuse

LEMMA MissKeeps == VInv /\ Miss => VInv'
<1> SUFFICES ASSUME VInv, Miss PROVE VInv'
  OBVIOUS
<1>1. Effects(FALSE)
  BY DEF Miss, Effects, VInv, Typed, Underway
<1> QED
  BY <1>1, UnansweredKeeps DEF Miss

LEMMA LoseKeeps == VInv /\ Lose => VInv'
<1> SUFFICES ASSUME VInv, Lose PROVE VInv'
  OBVIOUS
<1>1. /\ paid \in Nat /\ unheard \in Nat /\ bad \in Nat
      /\ task = "payment" /\ method # "returned" => paid = unheard
      /\ task = "payment" => method \in {"get_balance", "transfer", "returned"}
  BY DEF VInv, Typed, Underway, Calls
<1>2. method = "open_wallet" => account.exists
  BY DEF Lose, CanDo
<1>3. Effects(FALSE)
  BY <1>1, <1>2, EffectTyped DEF Lose, Effects
<1> QED
  BY <1>3, UnansweredKeeps DEF Lose

LEMMA StepKeeps == VInv /\ [VerificationNext]_verifying => VInv'
<1> SUFFICES ASSUME VInv, [VerificationNext]_verifying PROVE VInv'
  OBVIOUS
<1>1. ASSUME NEW n \in Nodes, Grow(n) \/ Reorganises(n) \/ Meet(n)
      PROVE  VInv'
  <2>1. PICK what : Change(n, what)
    BY <1>1 DEF Grow, Reorganises, Meet
  <2> QED
    BY <2>1, ChangeKeeps
<1>2. CASE UNCHANGED verifying
  BY <1>2 DEF verifying, VInv, Typed, Underway, VerdictIsEarned, Limit, Grown
<1> QED
  BY <1>1, <1>2, SucceedKeeps, HashlessKeeps, RefuseKeeps, MissKeeps, LoseKeeps DEF VerificationNext

\* A verification check returns what it has earned, for any number of attempts,
\* failures and lost answers (VerificationHandler over _call_rpc_with_retry).
THEOREM VerdictsAreEarned == VerificationSpec => []VerdictIsEarned
<1>1. VInv => VerdictIsEarned
  BY DEF VInv
<1> QED
  BY <1>1, InitVInv, StepKeeps, PTL DEF VerificationSpec

-----------------------------------------------------------------------------
(* The generator *)

Results(n) == [scenario : 0..n, yaml : 0..n, report : 0..n, success : BOOLEAN]

GenerationTyped ==
    /\ mode \in {"direct", "interactive"}
    /\ desk \in {"ask", "review", "final", "save", "saveScenario", "done"}
    /\ texts \in Seq(Configs)
    /\ result \in Results(Len(texts))
    /\ exit \in {0, 1}

\* What is about to be saved belongs together: a scenario that was accepted, or
\* that the user was shown expanded.
Together ==
    /\ result.scenario # 0
    /\ result.yaml = result.scenario /\ result.report = result.scenario

DeskInv ==
    /\ desk = "final" \/ result.success => Together
    /\ desk = "review" => result.scenario # 0
    /\ result.success => desk \in {"save", "saveScenario", "done"}
    /\ mode = "interactive" /\ desk \in {"save", "saveScenario"} => result.success
    /\ mode = "direct" /\ result.success => Accepted(texts[result.scenario])

\* What a configuration on disk says of itself.
Header ==
    /\ pair.config.of \in 1..Len(texts)
    /\ pair.config.of = result.yaml
    /\ pair.config.about \in {0, result.report}
    /\ pair.config.success = result.success
    /\ pair.config # Old

DiskInv ==
    /\ pair = [config |-> pair.config, scenario |-> pair.scenario]
    /\ desk \in {"ask", "review", "final", "save"} => pair.config = Old
    /\ pair.config # Old => Header
    /\ desk = "saveScenario" /\ result.yaml # 0 => pair.config # Old
    /\ exit = 0 =>
           /\ desk = "done" /\ pair.scenario = result.scenario
           /\ mode = "direct" => pair.config # Old
           /\ pair.config # Old => result.success

GenInv == GenerationTyped /\ DeskInv /\ DiskInv

LEMMA GenInvSaves == GenInv => SavedPairBelongs
<1> SUFFICES ASSUME GenInv PROVE SavedPairBelongs
  OBVIOUS
<1> QED
  BY DEF GenInv, GenerationTyped, DeskInv, DiskInv, Header, Together, SavedPairBelongs, Results

LEMMA GenInvInit == GenerationInit => GenInv
<1> SUFFICES ASSUME GenerationInit PROVE GenInv
  OBVIOUS
<1>1. Len(texts) = 0 /\ texts \in Seq(Configs)
  BY DEF GenerationInit
<1>2. GenerationTyped
  BY <1>1 DEF GenerationInit, GenerationTyped, Results
<1> QED
  BY <1>2 DEF GenerationInit, GenInv, DeskInv, DiskInv, Together, Header

\* A scenario that comes up is the newest, and no other one changes.
LEMMA Coming ==
    ASSUME GenInv, NEW c \in Configs, Comes(c)
    PROVE  /\ texts' \in Seq(Configs) /\ Len(texts') = Len(texts) + 1
           /\ Newest = Len(texts) + 1 /\ texts'[Newest] = c
           /\ \A n \in 1..Len(texts) : texts'[n] = texts[n]
           /\ Len(texts) \in Nat
  BY DEF GenInv, GenerationTyped, Comes, Newest

\* What the model, or the user, has come up with is what is judged, or looked at.
LEMMA AttemptKeeps == GenInv /\ Attempt => GenInv'
<1> SUFFICES ASSUME GenInv, Attempt PROVE GenInv'
  OBVIOUS
<1>1. /\ mode = "direct" /\ desk = "ask" /\ mode' = mode /\ pair' = pair /\ exit' = exit
      /\ ~result.success /\ exit = 1 /\ pair.config = Old
      /\ desk' \in {"ask", "save"} /\ (result'.success => desk' = "save")
  BY DEF GenInv, GenerationTyped, DeskInv, DiskInv, Attempt
<1>2. CASE texts' = texts /\ result' = result
  BY <1>1, <1>2 DEF GenInv, GenerationTyped, DeskInv, DiskInv, Header, Together
<1>3. ASSUME NEW c \in Configs, Comes(c), result' = Judged(c, Newest)
      PROVE  GenInv'
  <2>1. /\ texts' \in Seq(Configs) /\ Len(texts') = Len(texts) + 1
        /\ Newest = Len(texts) + 1 /\ texts'[Newest] = c /\ Len(texts) \in Nat
    BY <1>3, Coming
  <2>2. /\ result'.scenario = Newest
        /\ result'.yaml \in {Newest, result.yaml} /\ result'.report \in {Newest, result.report}
        /\ result'.success \in BOOLEAN
        /\ result'.success => Accepted(c) /\ result'.yaml = Newest /\ result'.report = Newest
        /\ result' = [scenario |-> result'.scenario, yaml |-> result'.yaml,
                      report |-> result'.report, success |-> result'.success]
    BY <1>3 DEF Judged
  <2>3. result' \in Results(Len(texts'))
    BY <2>1, <2>2 DEF GenInv, GenerationTyped, Results
  <2>4. GenerationTyped'
    BY <1>1, <2>1, <2>3 DEF GenInv, GenerationTyped
  <2>5. DeskInv'
    BY <1>1, <2>1, <2>2 DEF DeskInv, Together
  <2>6. DiskInv'
    BY <1>1 DEF GenInv, DiskInv
  <2> QED
    BY <2>4, <2>5, <2>6 DEF GenInv
<1> QED
  BY <1>2, <1>3 DEF Attempt

LEMMA SaveConfigKeeps == GenInv /\ SaveConfig => GenInv'
<1> SUFFICES ASSUME GenInv, SaveConfig PROVE GenInv'
  OBVIOUS
<1>1. /\ desk = "save" /\ desk' = "saveScenario" /\ pair.config = Old /\ exit = 1
      /\ mode' = mode /\ texts' = texts /\ result' = result /\ exit' = exit
      /\ pair = [config |-> pair.config, scenario |-> pair.scenario]
  BY DEF GenInv, GenerationTyped, DiskInv, SaveConfig
<1>2. GenerationTyped' /\ DeskInv'
  BY <1>1 DEF GenInv, GenerationTyped, DeskInv, Together
<1>3. CASE result.yaml = 0
  <2>1. pair' = pair
    BY <1>3 DEF SaveConfig
  <2> QED
    BY <1>1, <1>2, <1>3, <2>1 DEF GenInv, DiskInv, Header
<1>4. CASE result.yaml # 0
  <2>1. PICK about \in {result.report, 0} :
            pair' = [pair EXCEPT !.config =
                        [of |-> result.yaml, about |-> IF mode = "direct" THEN about ELSE 0,
                         success |-> result.success]]
    BY <1>4 DEF SaveConfig
  <2> DEFINE new == [of |-> result.yaml, about |-> IF mode = "direct" THEN about ELSE 0,
                     success |-> result.success]
  <2>2. new \in Headers /\ new.about \in {0, result.report}
    BY DEF GenInv, GenerationTyped, Results, Headers
  <2>3. new # Old
    BY <2>2, GenerationAssumption
  <2>4. pair' = [config |-> new, scenario |-> pair.scenario]
    BY <1>1, <2>1
  <2>5. result.yaml \in 1..Len(texts)
    BY <1>4 DEF GenInv, GenerationTyped, Results
  <2>6. Header'
    BY <1>1, <2>2, <2>3, <2>4, <2>5 DEF Header
  <2> QED
    BY <1>1, <1>2, <2>4, <2>6 DEF GenInv, DiskInv, Header
<1> QED
  BY <1>3, <1>4

LEMMA SaveScenarioKeeps == GenInv /\ SaveScenario => GenInv'
<1> SUFFICES ASSUME GenInv, SaveScenario PROVE GenInv'
  OBVIOUS
<1>1. /\ desk = "saveScenario" /\ desk' = "done"
      /\ mode' = mode /\ texts' = texts /\ result' = result
      /\ pair'.config = pair.config
      /\ pair' = [config |-> pair'.config, scenario |-> pair'.scenario]
  BY DEF GenInv, GenerationTyped, DiskInv, SaveScenario
<1>2. GenerationTyped' /\ DeskInv'
  BY <1>1 DEF GenInv, GenerationTyped, DeskInv, Together, SaveScenario
<1>3. pair'.config # Old => Header'
  BY <1>1 DEF GenInv, DiskInv, Header
<1>4. ASSUME exit' = 0
      PROVE  result.success /\ pair'.scenario = result.scenario /\ pair'.config # Old
  <2>1. result.success
    BY <1>4 DEF SaveScenario
  <2>2. result.scenario # 0 /\ result.yaml # 0
    BY <2>1 DEF GenInv, DeskInv, Together
  <2>3. pair' = [pair EXCEPT !.scenario = result.scenario]
    BY <2>2 DEF SaveScenario
  <2> QED
    BY <1>1, <2>1, <2>2, <2>3 DEF GenInv, DiskInv
<1> QED
  BY <1>1, <1>2, <1>3, <1>4 DEF GenInv, DiskInv

LEMMA DiesKeeps == GenInv /\ Dies => GenInv'
<1> SUFFICES ASSUME GenInv, Dies PROVE GenInv'
  OBVIOUS
<1>1. /\ desk # "done" /\ desk' = "done" /\ exit = 1
      /\ mode' = mode /\ texts' = texts /\ result' = result /\ exit' = exit
  BY DEF GenInv, GenerationTyped, DiskInv, Dies
<1>2. /\ pair' = [config |-> pair'.config, scenario |-> pair'.scenario]
      /\ pair'.config \in {pair.config, Old}
  BY DEF GenInv, DiskInv, Dies
<1>3. GenerationTyped' /\ DeskInv'
  BY <1>1 DEF GenInv, GenerationTyped, DeskInv, Together
<1>4. pair'.config # Old => Header'
  BY <1>1, <1>2 DEF GenInv, DiskInv, Header
<1> QED
  BY <1>1, <1>2, <1>3, <1>4 DEF GenInv, DiskInv

\* A scenario that has come up in a conversation is reviewed first.
LEMMA BecomesKeeps ==
    ASSUME GenInv, mode = "interactive", desk \in {"ask", "review", "final"}, desk' = "review",
           NEW c \in Configs, Becomes(c), UNCHANGED <<mode, pair, exit>>
    PROVE  GenInv'
<1>1. /\ texts' \in Seq(Configs) /\ Len(texts') = Len(texts) + 1
      /\ Newest = Len(texts) + 1 /\ Len(texts) \in Nat
  BY Coming DEF Becomes
<1>2. ~result.success /\ pair.config = Old /\ exit = 1
  BY DEF GenInv, GenerationTyped, DeskInv, DiskInv
<1>3. /\ result' \in Results(Len(texts'))
      /\ ~result'.success /\ result'.scenario = Newest
  <2>1. result' = [scenario |-> Newest, yaml |-> result.yaml, report |-> result.report,
                   success |-> result.success]
    BY DEF GenInv, GenerationTyped, Results, Becomes
  <2> QED
    BY <1>1, <1>2, <2>1 DEF GenInv, GenerationTyped, Results
<1> QED
  BY <1>1, <1>2, <1>3 DEF GenInv, GenerationTyped, DeskInv, DiskInv

LEMMA ApproveKeeps == GenInv /\ Approve => GenInv'
<1> SUFFICES ASSUME GenInv, Approve PROVE GenInv'
  OBVIOUS
<1>1. /\ mode = "interactive" /\ desk = "review" /\ desk' \in {"final", "review"}
      /\ mode' = mode /\ texts' = texts /\ pair' = pair /\ exit' = exit
      /\ ~result.success /\ pair.config = Old /\ exit = 1
  BY DEF GenInv, GenerationTyped, DeskInv, DiskInv, Approve, Facing
<1>2. /\ result'.scenario = result.scenario /\ ~result'.success
      /\ result' \in Results(Len(texts))
      /\ desk' = "final" => result'.yaml = result.scenario /\ result'.report = result.scenario
  BY <1>1 DEF GenInv, GenerationTyped, Results, Approve
<1>3. result.scenario # 0
  BY <1>1 DEF GenInv, DeskInv
<1> QED
  BY <1>1, <1>2, <1>3 DEF GenInv, GenerationTyped, DeskInv, DiskInv, Together

LEMMA GenStepKeeps == GenInv /\ [GenerationNext]_generation => GenInv'
<1> SUFFICES ASSUME GenInv, [GenerationNext]_generation PROVE GenInv'
  OBVIOUS
<1>1. CASE Propose
  BY <1>1, BecomesKeeps DEF Propose, Facing
<1>2. CASE Rework
  BY <1>2, BecomesKeeps DEF Rework, Facing
<1>3. CASE Modify
  BY <1>3, BecomesKeeps DEF Modify, Facing, AfterChange
<1>4. CASE AskAgain
  BY <1>4 DEF AskAgain, Facing, GenInv, GenerationTyped, DeskInv, DiskInv, Header
<1>5. CASE Back
  BY <1>5 DEF Back, Facing, GenInv, GenerationTyped, DeskInv, DiskInv, Header, Together
<1>6. CASE Save
  <2>1. result' = [scenario |-> result.scenario, yaml |-> result.yaml,
                   report |-> result.report, success |-> TRUE]
    BY <1>6 DEF Save, GenInv, GenerationTyped, Results
  <2> QED
    BY <1>6, <2>1
       DEF Save, Facing, GenInv, GenerationTyped, DeskInv, DiskInv, Header, Together, Results
<1>7. CASE SaveOnly
  <2>1. pair' = [config |-> Old, scenario |-> result.scenario]
    BY <1>7 DEF SaveOnly, Facing, GenInv, DiskInv
  <2> QED
    BY <1>7, <2>1 DEF SaveOnly, Facing, GenInv, GenerationTyped, DeskInv, DiskInv, Header
<1>8. CASE UNCHANGED generation
  BY <1>8 DEF generation, GenInv, GenerationTyped, DeskInv, DiskInv, Header, Together
<1> QED
  BY <1>1, <1>2, <1>3, <1>4, <1>5, <1>6, <1>7, <1>8, AttemptKeeps, SaveConfigKeeps,
     SaveScenarioKeeps, DiesKeeps, ApproveKeeps DEF GenerationNext

-----------------------------------------------------------------------------
(* The two sets of checks *)

\* What the validator finds no fault with passes the preflight checks, as long as
\* no agent names the option in its raw arguments, an empty schedule does not
\* stand for itself, and no seed is injected that the validator does not list.
LEMMA ChecksAgree ==
    ASSUME NEW c, HardForkErrors(c) = {},
           \A a \in Declared(c) : ~c.agents[a].raw,
           KnobUsed(c) => Scheduled(c), c.seeds \subseteq ListedSeeds
    PROVE  Preflight(c)
<1> DEFINE all == Effective(c)
<1>1. /\ DOMAIN all = Declared(c) \cup c.seeds
      /\ \A a \in Declared(c) : all[a] = c.agents[a]
      /\ \A a \in DOMAIN all \ Declared(c) : all[a].schedule = "none" /\ ~all[a].raw
  BY DEF Effective
<1>2. \A a \in DOMAIN all : ~all[a].raw
  BY <1>1
<1>3. CASE ~Scheduled(c) /\ ~UsesPatched(c)
  <2>1. ~KnobUsed(c) /\ c.schedule = "none"
    BY <1>3 DEF KnobUsed, Schedules
  <2>2. \A a \in DOMAIN all : all[a].schedule = "none"
    BY <1>1, <2>1 DEF KnobUsed, Schedules
  <2> QED
    BY <1>2, <2>1, <2>2 DEF Preflight, Starts
<1>4. CASE Scheduled(c) \/ UsesPatched(c)
  <2>1. /\ ~c.implementations /\ ListedSeeds \subseteq Declared(c)
        /\ \A a \in Declared(c) : c.agents[a].daemon \notin {"stock", "phases"}
    BY <1>4 DEF HardForkErrors, MissingSeeds
  <2>2. \A a \in DOMAIN all : Starts(c, all[a])
    BY <1>1, <1>2, <2>1 DEF Starts
  <2> QED
    BY <2>1, <2>2 DEF Preflight
<1> QED
  BY <1>3, <1>4

LEMMA GenInvStarts == GenInv => SavedConfigStarts
<1> SUFFICES ASSUME GenInv, pair.config # Old, pair.config.success, mode = "direct",
                    NEW c, c = texts[pair.config.of],
                    \A a \in Declared(c) : ~c.agents[a].raw,
                    KnobUsed(c) => Scheduled(c), c.seeds \subseteq ListedSeeds
             PROVE  Preflight(c)
  BY DEF SavedConfigStarts
<1>1. HardForkErrors(c) = {}
  BY DEF GenInv, DeskInv, DiskInv, Header, Together, Accepted
<1> QED
  BY <1>1, ChecksAgree

\* A generator that reports success leaves a configuration and a scenario that
\* belong together (generate, run_interactive).
THEOREM PairBelongs == GenerationSpec => []SavedPairBelongs
<1> QED
  BY GenInvInit, GenStepKeeps, GenInvSaves, PTL DEF GenerationSpec

\* What the direct generator delivers as a success passes the preflight checks of
\* the orchestrator (ConfigValidator.validate, process_user_agents), where the two
\* have the same notion of a schedule and of the seeds there are.
THEOREM ConfigStarts == GenerationSpec => []SavedConfigStarts
<1> QED
  BY GenInvInit, GenStepKeeps, GenInvStarts, PTL DEF GenerationSpec

-----------------------------------------------------------------------------
(* Waves of users *)

\* Induction, for a set of naturals.
LEMMA NaturalsIn ==
    ASSUME NEW S, 0 \in S, \A k \in Nat : k \in S => k + 1 \in S
    PROVE  Nat \subseteq S
<1> DEFINE R == OpToRel(<, Nat)
           outside == Nat \ S
<1>1. \A ss \in Nat \X Nat : ss[1] < ss[2] => ss \in R
  BY Zenon DEF OpToRel
<1>2. IsWellFoundedOn(R, Nat)
  BY NatLessThanWellFounded, Zenon
<1> HIDE DEF R
<1> SUFFICES ASSUME outside # {} PROVE FALSE
  OBVIOUS
<1>3. PICK m \in outside : \A l \in outside : ~(<<l, m>> \in R)
  BY <1>2, WFMin
<1>4. m - 1 \in Nat
  OBVIOUS
<1>5. m - 1 \notin outside
  <2> SUFFICES ASSUME m - 1 \in outside PROVE FALSE
    OBVIOUS
  <2>1. <<m - 1, m>> \in Nat \X Nat /\ <<m - 1, m>>[1] < <<m - 1, m>>[2]
    BY <1>4
  <2> QED
    BY <1>1, <1>3, <2>1
<1> QED
  BY <1>4, <1>5

\* A sequence of values, each a function of the one before, exists.
Iterates(f, n, a, g) == f[0] = a /\ \A k \in 1..n : f[k] = g[k][f[k - 1]]

LEMMA IterationExists ==
    ASSUME NEW n \in Nat, NEW V, NEW a \in V, NEW g \in [Nat -> [V -> V]]
    PROVE  \E f \in [0..n -> V] : Iterates(f, n, a, g)
<1> DEFINE Has(m) == \E f \in [0..m -> V] : f[0] = a /\ \A k \in 1..m : f[k] = g[k][f[k - 1]]
           S == {m \in Nat : Has(m)}
<1>1. Has(0)
  <2> DEFINE f == [k \in 0..0 |-> a]
  <2>1. f \in [0..0 -> V] /\ f[0] = a /\ \A k \in 1..0 : f[k] = g[k][f[k - 1]]
    OBVIOUS
  <2> QED
    BY <2>1
<1>2. ASSUME NEW m \in Nat, Has(m) PROVE Has(m + 1)
  <2>1. PICK f \in [0..m -> V] : f[0] = a /\ \A k \in 1..m : f[k] = g[k][f[k - 1]]
    BY <1>2
  <2> DEFINE e == [k \in 0..(m + 1) |-> IF k = m + 1 THEN g[m + 1][f[m]] ELSE f[k]]
  <2>2. \A i \in 0..m : e[i] = f[i]
    OBVIOUS
  <2>3. e[m + 1] = g[m + 1][f[m]]
    OBVIOUS
  <2>4. e \in [0..(m + 1) -> V]
    OBVIOUS
  <2> HIDE DEF e
  <2>5. ASSUME NEW k \in 1..(m + 1) PROVE e[k] = g[k][e[k - 1]]
    <3>1. CASE k = m + 1
      BY <2>2, <2>3, <3>1
    <3>2. CASE k # m + 1
      <4>1. k \in 1..m /\ k \in 0..m /\ k - 1 \in 0..m
        BY <3>2
      <4> QED
        BY <2>1, <2>2, <4>1
    <3> QED
      BY <3>1, <3>2
  <2>6. e[0] = a
    BY <2>1, <2>2
  <2> QED
    BY <2>4, <2>5, <2>6
<1> HIDE DEF Has
<1>3. 0 \in S /\ \A k \in Nat : k \in S => k + 1 \in S
  BY <1>1, <1>2
<1>4. Nat \subseteq S
  BY <1>3, NaturalsIn
<1>5. Has(n)
  BY <1>4
<1> QED
  BY <1>5 DEF Has, Iterates

\* A wave is of at least one and at most the limit.
LEMMA SizesBounded ==
    ASSUME NEW n \in Nat, NEW first \in Nat \ {0}, NEW limit \in Nat \ {0}
    PROVE  Sizes(n, first, limit) \in [0..n -> 1..limit]
<1> DEFINE V == 1..limit
           a == Least(first, limit)
           g == [k \in Nat |-> [x \in V |-> Least(Greatest(2 * x, 1), limit)]]
           step(d, k) == Least(IF k = 0 THEN first ELSE Greatest(2 * d[k - 1], 1), limit)
           size == Sizes(n, first, limit)
<1>1. a \in V
  BY DEF Least
<1>2. \A x \in V : Least(Greatest(2 * x, 1), limit) \in V
  BY DEF Least, Greatest
<1>3. g \in [Nat -> [V -> V]]
  BY <1>2
<1>4. PICK f \in [0..n -> V] : f[0] = a /\ \A k \in 1..n : f[k] = g[k][f[k - 1]]
  <2> HIDE DEF V, a, g
  <2>1. \E f \in [0..n -> V] : Iterates(f, n, a, g)
    BY <1>1, <1>3, IterationExists
  <2> QED
    BY <2>1 DEF Iterates
<1>5. ASSUME NEW k \in 0..n PROVE f[k] = step(f, k)
  <2>1. CASE k = 0
    BY <1>4, <2>1
  <2>2. CASE k # 0
    <3>1. k \in 1..n /\ k - 1 \in 0..n
      BY <2>2
    <3>2. f[k - 1] \in V
      BY <1>4, <3>1
    <3>3. f[k] = g[k][f[k - 1]]
      BY <1>4, <3>1
    <3>4. g[k][f[k - 1]] = Least(Greatest(2 * f[k - 1], 1), limit)
      BY <3>2
    <3> QED
      BY <2>2, <3>3, <3>4
  <2> QED
    BY <2>1, <2>2
<1>6. f = [k \in 0..n |-> step(f, k)]
  BY <1>4, <1>5
<1>7. size = CHOOSE d : d = [k \in 0..n |-> step(d, k)]
  BY DEF Sizes
<1>8. size = [k \in 0..n |-> step(size, k)]
  BY <1>6, <1>7, Zenon
<1> HIDE DEF size
<1> DEFINE S == {k \in Nat : k \in 0..n => size[k] \in V}
<1>9. 0 \in S
  BY <1>1, <1>8
<1>10. ASSUME NEW k \in Nat, k \in S PROVE k + 1 \in S
  <2> SUFFICES ASSUME k + 1 \in 0..n PROVE size[k + 1] \in V
    OBVIOUS
  <2>1. size[k] \in V
    BY <1>10
  <2>2. size[k + 1] = Least(Greatest(2 * size[k], 1), limit)
    <3>1. k + 1 # 0 /\ (k + 1) - 1 = k
      OBVIOUS
    <3>2. size[k + 1] = step(size, k + 1)
      BY <1>8
    <3> QED
      BY <3>1, <3>2
  <2> QED
    BY <1>2, <2>1, <2>2
<1>11. Nat \subseteq S
  <2> HIDE DEF S
  <2> QED
    BY <1>9, <1>10, NaturalsIn
<1>12. \A k \in 0..n : size[k] \in V
  BY <1>11
<1>13. size \in [0..n -> V]
  <2> HIDE DEF V
  <2> QED
    BY <1>8, <1>12
<1> QED
  BY <1>13 DEF size

\* The waves take everybody, and never more than the limit at a time.
Takes(taken, n, limit) ==
    /\ taken \in [0..n -> 0..n]
    /\ taken[0] = 0
    /\ \A k \in 1..n : /\ taken[k - 1] <= taken[k]
                       /\ taken[k] <= taken[k - 1] + limit
                       /\ taken[k - 1] < taken[k] \/ taken[k] = n

LEMMA StartedTakes ==
    ASSUME NEW n \in Nat, NEW first \in Nat \ {0}, NEW limit \in Nat \ {0}
    PROVE  Takes(Started(n, first, limit), n, limit)
<1> DEFINE V == 0..n
           d == Sizes(n, first, limit)
           g == [k \in Nat |-> [x \in V |-> Least(n, x + d[k - 1])]]
           a == 0
           step(f, k) == IF k = 0 THEN 0 ELSE Least(n, f[k - 1] + d[k - 1])
           taken == Started(n, first, limit)
<1>1. d \in [0..n -> 1..limit]
  BY SizesBounded
<1>2. taken = CHOOSE f : f = [k \in 0..n |-> step(f, k)]
  BY Zenon DEF Started
<1> HIDE DEF d, taken
<1>3. \A k \in 1..n : \A x \in V : Least(n, x + d[k - 1]) \in V
  BY <1>1 DEF Least
<1> DEFINE h == [k \in Nat |-> IF k \in 1..n THEN g[k] ELSE [x \in V |-> x]]
<1>4. h \in [Nat -> [V -> V]] /\ a \in V
  BY <1>3
<1>5. PICK f \in [0..n -> V] : f[0] = 0 /\ \A k \in 1..n : f[k] = h[k][f[k - 1]]
  <2> HIDE DEF V, a, h
  <2>1. \E f \in [0..n -> V] : Iterates(f, n, a, h)
    BY <1>4, IterationExists
  <2> QED
    BY <2>1 DEF Iterates, a
<1>6. ASSUME NEW k \in 0..n PROVE f[k] = step(f, k)
  <2>1. CASE k = 0
    BY <1>5, <2>1
  <2>2. CASE k # 0
    <3>1. k \in 1..n /\ k - 1 \in 0..n /\ k \in Nat
      BY <2>2
    <3>2. f[k] = h[k][f[k - 1]] /\ f[k - 1] \in V
      BY <1>5, <3>1
    <3>3. h[k] = g[k] /\ g[k][f[k - 1]] = Least(n, f[k - 1] + d[k - 1])
      BY <3>1, <3>2
    <3> QED
      BY <2>2, <3>2, <3>3
  <2> QED
    BY <2>1, <2>2
<1>7. f = [k \in 0..n |-> step(f, k)]
  BY <1>5, <1>6
<1>8. taken = [k \in 0..n |-> step(taken, k)]
  BY <1>2, <1>7, Zenon
<1>9. taken[0] = 0 /\ \A k \in 1..n : taken[k] = Least(n, taken[k - 1] + d[k - 1])
  <2>1. taken[0] = step(taken, 0)
    BY <1>8
  <2>2. ASSUME NEW k \in 1..n PROVE taken[k] = Least(n, taken[k - 1] + d[k - 1])
    <3>1. k \in 0..n /\ k # 0
      OBVIOUS
    <3>2. taken[k] = step(taken, k)
      BY <1>8, <3>1
    <3> QED
      BY <3>1, <3>2
  <2> QED
    BY <2>1, <2>2
<1> DEFINE S == {k \in Nat : k \in 0..n => taken[k] \in V}
<1>10. 0 \in S
  BY <1>9
<1>11. ASSUME NEW k \in Nat, k \in S PROVE k + 1 \in S
  <2> SUFFICES ASSUME k + 1 \in 0..n PROVE taken[k + 1] \in V
    OBVIOUS
  <2>1. taken[k] \in V /\ k + 1 \in 1..n /\ (k + 1) - 1 = k
    BY <1>11
  <2>2. taken[k + 1] = Least(n, taken[k] + d[k])
    BY <1>9, <2>1
  <2>3. Least(n, taken[k] + d[(k + 1) - 1]) \in V
    BY <1>3, <2>1
  <2> QED
    BY <2>1, <2>2, <2>3
<1>12. Nat \subseteq S
  <2> HIDE DEF S
  <2> QED
    BY <1>10, <1>11, NaturalsIn
<1>13. \A k \in 0..n : taken[k] \in V
  BY <1>12
<1>14. taken \in [0..n -> V]
  <2> HIDE DEF V
  <2> QED
    BY <1>8, <1>13
<1>15. ASSUME NEW k \in 1..n
       PROVE  /\ taken[k - 1] <= taken[k]
              /\ taken[k] <= taken[k - 1] + limit
              /\ taken[k - 1] < taken[k] \/ taken[k] = n
  <2>1. k - 1 \in 0..n
    OBVIOUS
  <2>2. taken[k - 1] \in V /\ d[k - 1] \in 1..limit
    BY <1>1, <1>13, <2>1
  <2>3. taken[k] = Least(n, taken[k - 1] + d[k - 1])
    BY <1>9
  <2> DEFINE x == taken[k - 1]
             y == d[k - 1]
             z == taken[k]
  <2>4. x \in 0..n /\ y \in 1..limit /\ z = IF n < x + y THEN n ELSE x + y
    BY <2>2, <2>3 DEF Least
  <2> HIDE DEF x, y, z
  <2>5. x <= z /\ z <= x + limit /\ (x < z \/ z = n)
    BY <2>4
  <2> QED
    BY <2>5 DEF x, y, z
<1> QED
  BY <1>9, <1>14, <1>15 DEF Takes, taken

\* Later waves have taken more, and the last one has taken all.
LEMMA TakesGrows ==
    ASSUME NEW n \in Nat, NEW limit \in Nat, NEW taken, Takes(taken, n, limit)
    PROVE  /\ \A k, l \in 0..n : k <= l => taken[k] <= taken[l]
           /\ taken[n] = n
<1>1. \A k \in 0..n : taken[k] \in 0..n
  BY DEF Takes
<1>2. \A k \in 1..n : taken[k - 1] <= taken[k] /\ (taken[k - 1] < taken[k] \/ taken[k] = n)
  BY DEF Takes
<1> DEFINE S == {l \in Nat : l \in 0..n => /\ \A k \in 0..l : taken[k] <= taken[l]
                                           /\ taken[l] >= l \/ taken[l] = n}
<1>3. 0 \in S
  BY <1>1
<1>4. ASSUME NEW l \in Nat, l \in S PROVE l + 1 \in S
  <2> SUFFICES ASSUME l + 1 \in 0..n
               PROVE  /\ \A k \in 0..(l + 1) : taken[k] <= taken[l + 1]
                      /\ taken[l + 1] >= l + 1 \/ taken[l + 1] = n
    OBVIOUS
  <2>1. /\ \A k \in 0..l : taken[k] <= taken[l]
        /\ taken[l] >= l \/ taken[l] = n
    BY <1>4
  <2>2. l + 1 \in 1..n /\ (l + 1) - 1 = l /\ l \in 0..n
    OBVIOUS
  <2>3. taken[l] <= taken[l + 1] /\ (taken[l] < taken[l + 1] \/ taken[l + 1] = n)
    BY <1>2, <2>2
  <2>4. taken[l] \in 0..n /\ taken[l + 1] \in 0..n
    BY <1>1, <2>2
  <2>5. ASSUME NEW k \in 0..(l + 1) PROVE taken[k] <= taken[l + 1]
    <3>1. CASE k = l + 1
      BY <2>4, <3>1
    <3>2. CASE k # l + 1
      <4>1. k \in 0..l /\ k \in 0..n
        BY <3>2
      <4>2. taken[k] <= taken[l] /\ taken[k] \in 0..n
        BY <1>1, <2>1, <4>1
      <4> QED
        BY <2>3, <2>4, <4>2
    <3> QED
      BY <3>1, <3>2
  <2> QED
    BY <2>1, <2>3, <2>4, <2>5
<1>5. Nat \subseteq S
  <2> HIDE DEF S
  <2> QED
    BY <1>3, <1>4, NaturalsIn
<1>6. \A l \in 0..n : /\ \A k \in 0..l : taken[k] <= taken[l]
                      /\ taken[l] >= l \/ taken[l] = n
  BY <1>5
<1>7. taken[n] = n
  <2>1. n \in 0..n /\ taken[n] \in 0..n
    BY <1>1
  <2> QED
    BY <1>6, <2>1
<1> QED
  BY <1>6, <1>7

\* Everybody is in one wave, and in the order of the waves.
LEMMA WaveFound ==
    ASSUME NEW n \in Nat, NEW limit \in Nat, NEW taken, Takes(taken, n, limit),
           NEW i \in 0..(n - 1)
    PROVE  \E k \in 1..n : taken[k - 1] <= i /\ i < taken[k]
<1> DEFINE S == {k \in Nat : k \in 0..n => taken[k] <= i}
<1>1. \A k \in 0..n : taken[k] \in 0..n
  BY DEF Takes
<1> SUFFICES ASSUME \A k \in 1..n : ~(taken[k - 1] <= i /\ i < taken[k]) PROVE FALSE
  OBVIOUS
<1>2. 0 \in S
  BY DEF Takes
<1>3. ASSUME NEW k \in Nat, k \in S PROVE k + 1 \in S
  <2> SUFFICES ASSUME k + 1 \in 0..n PROVE taken[k + 1] <= i
    OBVIOUS
  <2>1. k + 1 \in 1..n /\ (k + 1) - 1 = k /\ taken[k] <= i
    BY <1>3
  <2>2. ~(i < taken[k + 1])
    BY <2>1
  <2>3. taken[k + 1] \in 0..n
    BY <1>1
  <2> QED
    BY <2>2, <2>3
<1>4. Nat \subseteq S
  <2> HIDE DEF S
  <2> QED
    BY <1>2, <1>3, NaturalsIn
<1>5. taken[n] <= i
  <2>1. n \in 0..n
    OBVIOUS
  <2> QED
    BY <1>4, <2>1
<1>6. taken[n] = n
  BY TakesGrows
<1> QED
  BY <1>5, <1>6

LEMMA ProductGrows ==
    ASSUME NEW a \in Nat, NEW b \in Nat, NEW c \in Nat, a <= b
    PROVE  a * c <= b * c /\ a * c \in Nat
<1>1. b * c = a * c + (b - a) * c
  BY SMT
<1>2. (b - a) * c >= 0 /\ a * c >= 0 /\ a * c \in Int /\ b * c \in Int
  <2>1. \A x, y \in Nat : x * y >= 0 /\ x * y \in Int
    BY SMT
  <2>2. b - a \in Nat
    OBVIOUS
  <2> QED
    BY <2>1, <2>2
<1> QED
  BY <1>1, <1>2

LEMMA LaterWave ==
    ASSUME NEW k \in Nat, NEW l \in Nat, k < l, NEW r \in Nat, NEW s \in Nat,
           NEW limit \in Nat, r <= limit,
           NEW interval \in Nat, NEW within \in Nat, limit * within <= interval
    PROVE  k * interval + r * within <= l * interval + s * within
<1>1. (k + 1) * interval <= l * interval
  BY ProductGrows
<1>2. (k + 1) * interval = k * interval + interval
  BY SMT
<1>3. r * within <= limit * within
  BY ProductGrows
<1>4. /\ k * interval \in Nat /\ l * interval \in Nat /\ r * within \in Nat
      /\ s * within \in Nat /\ limit * within \in Nat
  BY ProductGrows
<1> QED
  BY <1>1, <1>2, <1>3, <1>4

\* Nobody starts before one that comes before in the list, if a full wave
\* has started before the next begins.
LEMMA WavesInTurn ==
    ASSUME NEW n \in Nat, NEW first \in Nat \ {0}, NEW limit \in Nat \ {0},
           NEW delay \in Nat, NEW interval \in Nat, NEW within \in Nat,
           limit * within <= interval,
           NEW times, times = WaveTimes(n, first, limit, delay, interval, within)
    PROVE  /\ times \in [0..(n - 1) -> Nat]
           /\ \A i, j \in 0..(n - 1) : i <= j => times[i] <= times[j]
<1> DEFINE taken == Started(n, first, limit)
           wave(i) == CHOOSE k \in 1..n : taken[k - 1] <= i /\ i < taken[k]
           seat(i) == i - taken[wave(i) - 1]
<1>1. Takes(taken, n, limit)
  BY StartedTakes
<1>2. times = [i \in 0..(n - 1) |-> delay + (wave(i) - 1) * interval + seat(i) * within]
  BY Zenon DEF WaveTimes
<1> HIDE DEF taken
<1>3. ASSUME NEW i \in 0..(n - 1)
      PROVE  /\ wave(i) \in 1..n
             /\ taken[wave(i) - 1] <= i /\ i < taken[wave(i)]
  <2>1. \E k \in 1..n : taken[k - 1] <= i /\ i < taken[k]
    BY <1>1, WaveFound
  <2> QED
    BY <2>1
<1> HIDE DEF wave
<1>4. \A k \in 0..n : taken[k] \in 0..n
  BY <1>1 DEF Takes
<1>5. ASSUME NEW i \in 0..(n - 1)
      PROVE  wave(i) - 1 \in Nat /\ seat(i) \in Nat /\ seat(i) <= limit
  <2>1. wave(i) \in 1..n /\ taken[wave(i) - 1] <= i /\ i < taken[wave(i)]
    BY <1>3
  <2>2. taken[wave(i)] <= taken[wave(i) - 1] + limit
    BY <1>1, <2>1 DEF Takes
  <2>3. taken[wave(i)] \in 0..n /\ taken[wave(i) - 1] \in 0..n
    BY <1>4, <2>1
  <2> QED
    BY <2>1, <2>2, <2>3
<1>6. ASSUME NEW i \in 0..(n - 1), NEW j \in 0..(n - 1), i <= j
      PROVE  \/ wave(i) < wave(j)
             \/ wave(i) = wave(j) /\ seat(i) <= seat(j)
  <2>1. /\ wave(i) \in 1..n /\ taken[wave(i) - 1] <= i /\ i < taken[wave(i)]
        /\ wave(j) \in 1..n /\ taken[wave(j) - 1] <= j /\ j < taken[wave(j)]
    BY <1>3
  <2>2. /\ taken[wave(i)] \in 0..n /\ taken[wave(i) - 1] \in 0..n
        /\ taken[wave(j)] \in 0..n /\ taken[wave(j) - 1] \in 0..n
    BY <1>4, <2>1
  <2>3. ASSUME wave(j) < wave(i) PROVE FALSE
    <3>1. taken[wave(j)] <= taken[wave(i) - 1]
      <4>1. wave(j) \in 0..n /\ wave(i) - 1 \in 0..n /\ wave(j) <= wave(i) - 1
        BY <2>1, <2>3
      <4>2. \A k, l \in 0..n : k <= l => taken[k] <= taken[l]
        BY <1>1, TakesGrows
      <4> QED
        BY <4>1, <4>2
    <3> QED
      BY <1>6, <2>1, <2>2, <3>1
  <2>4. CASE wave(i) = wave(j)
    <3>1. taken[wave(i) - 1] = taken[wave(j) - 1]
      BY <2>4
    <3> QED
      BY <1>6, <2>2, <2>4, <3>1
  <2> QED
    BY <2>1, <2>3, <2>4
<1> HIDE DEF seat
<1>7. ASSUME NEW i \in 0..(n - 1)
      PROVE  (wave(i) - 1) * interval \in Nat /\ seat(i) * within \in Nat
  BY <1>5, ProductGrows
<1>8. times \in [0..(n - 1) -> Nat]
  BY <1>2, <1>7
<1>9. ASSUME NEW i \in 0..(n - 1), NEW j \in 0..(n - 1), i <= j PROVE times[i] <= times[j]
  <2> DEFINE k == wave(i) - 1
             l == wave(j) - 1
             r == seat(i)
             s == seat(j)
  <2>1. k \in Nat /\ l \in Nat /\ r \in Nat /\ s \in Nat /\ r <= limit
    BY <1>5
  <2>2. k < l \/ (k = l /\ r <= s)
    BY <1>3, <1>6, <1>9
  <2>3. k * interval + r * within <= l * interval + s * within
    <3> HIDE DEF k, l, r, s
    <3>1. CASE k < l
      BY <2>1, <3>1, LaterWave
    <3>2. CASE k = l /\ r <= s
      <4>1. r * within <= s * within /\ r * within \in Nat
        BY <2>1, <3>2, ProductGrows
      <4>2. s * within \in Nat /\ l * interval \in Nat
        BY <2>1, ProductGrows
      <4> QED
        BY <3>2, <4>1, <4>2
    <3> QED
      BY <2>2, <3>1, <3>2
  <2>4. /\ k * interval \in Nat /\ r * within \in Nat
        /\ l * interval \in Nat /\ s * within \in Nat
    BY <1>7
  <2>5. times[i] = delay + k * interval + r * within /\ times[j] = delay + l * interval + s * within
    BY <1>2
  <2> HIDE DEF k, l, r, s
  <2> QED
    BY <2>3, <2>4, <2>5
<1> QED
  BY <1>8, <1>9

-----------------------------------------------------------------------------
(* The timeline of a configuration *)

\* What the generator is given, as OptionsAssumption says.
OptionsTyped(o) ==
    /\ {o.users, o.duration, o.stagger, o.batchInterval, o.relays, o.relayStart,
        o.relayStagger, o.upgradeStagger, o.steady, o.post} \subseteq Nat
    /\ {o.firstBatch, o.maxBatch} \subseteq Nat \ {0}
    /\ {o.spawnStart, o.txInterval} \subseteq Nat \cup {None}
    /\ {o.upgrade, o.fast} \subseteq BOOLEAN

\* The largest wave has started before the next begins, and the last relay
\* before the network has been funded.
Orderly(o) ==
    /\ o.maxBatch * IntraBatch <= o.batchInterval
    /\ o.relayStart + o.relays * o.relayStagger < MinBootstrapEnd + FundingPeriod

LEMMA MinersTyped == NMiners \in Nat /\ NMiners >= 1 /\ NMiners <= MinBootstrapEnd
  BY MinersAssumption DEF MinBootstrapEnd

\* Nobody starts after LastSpawn, and the last user just then.
LEMMA UsersStart ==
    ASSUME NEW o, OptionsTyped(o), Orderly(o), Derived(o)
    PROVE  /\ LastSpawn(o) \in Nat
           /\ \A u \in 0..(o.users - 1) :
                 UserSchedule(o)[u] \in Nat /\ UserSchedule(o)[u] <= LastSpawn(o)
           /\ o.users > 0 => UserSchedule(o)[o.users - 1] = LastSpawn(o)
<1> DEFINE n == o.users
<1>1. n \in Nat /\ o.stagger \in Nat
  BY DEF OptionsTyped
<1>2. SpawnStart(o) \in Nat
  BY DEF SpawnStart, Given, OptionsTyped, BatchDelay, UserStart
<1>3. CASE Batched(o)
  <2> DEFINE times == BatchSchedule(o)
             delay == SpawnStart(o)
             first == o.firstBatch
             limit == o.maxBatch
             interval == o.batchInterval
  <2>1. times = WaveTimes(n, first, limit, delay, interval, IntraBatch)
    BY DEF BatchSchedule
  <2>2. /\ first \in Nat \ {0} /\ limit \in Nat \ {0} /\ interval \in Nat
        /\ IntraBatch \in Nat /\ limit * IntraBatch <= interval
    BY DEF OptionsTyped, Orderly, IntraBatch
  <2>3. /\ times \in [0..(n - 1) -> Nat]
        /\ \A i, j \in 0..(n - 1) : i <= j => times[i] <= times[j]
    <3> HIDE DEF n, first, limit, delay, interval, times
    <3> QED
      BY <1>1, <1>2, <2>1, <2>2, WavesInTurn DEF delay
  <2>4. UserSchedule(o) = times
    BY <1>3 DEF UserSchedule
  <2>5. n # 0 => LastSpawn(o) = times[n - 1] /\ n - 1 \in 0..(n - 1)
    BY <1>1, <1>3 DEF LastSpawn
  <2>6. n = 0 => LastSpawn(o) = SpawnStart(o)
    BY DEF LastSpawn
  <2> HIDE DEF times, n
  <2>7. n # 0 => LastSpawn(o) \in Nat
    BY <2>3, <2>5
  <2>8. ASSUME NEW u \in 0..(n - 1) PROVE times[u] \in Nat /\ times[u] <= LastSpawn(o)
    BY <1>1, <2>3, <2>5
  <2>9. \A u \in 0..(n - 1) :
           UserSchedule(o)[u] \in Nat /\ UserSchedule(o)[u] <= LastSpawn(o)
    BY <2>4, <2>8
  <2>10. n > 0 => UserSchedule(o)[n - 1] = LastSpawn(o)
    BY <1>1, <2>4, <2>5
  <2>11. LastSpawn(o) \in Nat
    BY <1>2, <2>6, <2>7
  <2> QED
    BY <2>9, <2>10, <2>11 DEF n
<1>4. CASE ~Batched(o)
  <2>1. SpawnStart(o) = UserStart /\ UserStart \in Nat
    BY <1>4 DEF SpawnStart, Given, Derived, UserStart
  <2> DEFINE s == o.stagger
  <2>2. UserSchedule(o) = [u \in 0..(n - 1) |-> UserStart + u * s]
    BY <1>4 DEF UserSchedule
  <2>3. LastSpawn(o) = IF n = 0 THEN UserStart ELSE UserStart + (n - 1) * s
    BY <1>4, <2>1 DEF LastSpawn
  <2> HIDE DEF n, s
  <2>4. s \in Nat /\ n \in Nat
    BY <1>1 DEF s, n
  <2>5. ASSUME NEW u \in 0..(n - 1) PROVE u * s <= (n - 1) * s /\ u * s \in Nat
    BY <2>4, ProductGrows
  <2>6. n # 0 => (n - 1) * s \in Nat
    BY <2>4, ProductGrows
  <2>7. LastSpawn(o) \in Nat
    BY <2>1, <2>3, <2>6
  <2>8. ASSUME NEW u \in 0..(n - 1)
        PROVE  UserSchedule(o)[u] \in Nat /\ UserSchedule(o)[u] <= LastSpawn(o)
    <3>1. n # 0
      BY <2>4
    <3>2. UserSchedule(o)[u] = UserStart + u * s
      BY <2>2
    <3> QED
      BY <2>1, <2>3, <2>5, <2>6, <3>1, <3>2
  <2>9. n > 0 => UserSchedule(o)[n - 1] = LastSpawn(o)
    BY <2>2, <2>3, <2>4
  <2> QED
    BY <2>7, <2>8, <2>9 DEF n
<1> QED
  BY <1>3, <1>4

\* When the phases begin.
LEMMA PhasesBegin ==
    ASSUME NEW o, OptionsTyped(o), Orderly(o), Derived(o)
    PROVE  /\ BootstrapEnd(o) \in Nat /\ BootstrapEnd(o) >= MinBootstrapEnd
           /\ LastSpawn(o) < BootstrapEnd(o)
           /\ IF 6 * LastSpawn(o) > 5 * MinBootstrapEnd THEN BootstrapEnd(o) > MinBootstrapEnd
                                                        ELSE BootstrapEnd(o) = MinBootstrapEnd
           /\ DistributorStart(o) = BootstrapEnd(o)
           /\ ActivityStart(o) = BootstrapEnd(o) + FundingPeriod
           /\ UpgradeStart(o) = ActivityStart(o) + o.steady
<1>1. LastSpawn(o) \in Nat
  BY UsersStart
<1>2. BootstrapEnd(o) = Greatest(MinBootstrapEnd, (LastSpawn(o) * 6) \div 5)
  BY DEF BootstrapEnd, Given, Derived
<1> DEFINE l == LastSpawn(o)
           b == BootstrapEnd(o)
<1>3. l \in Nat /\ b = IF 14400 > (l * 6) \div 5 THEN 14400 ELSE (l * 6) \div 5
  BY <1>1, <1>2 DEF Greatest, MinBootstrapEnd
<1> HIDE DEF l, b
<1>4. /\ b \in Nat /\ b >= 14400 /\ l < b
      /\ IF 6 * l > 5 * 14400 THEN b > 14400 ELSE b = 14400
  BY <1>3
<1>5. /\ DistributorStart(o) = BootstrapEnd(o)
      /\ ActivityStart(o) = BootstrapEnd(o) + FundingPeriod
      /\ UpgradeStart(o) = ActivityStart(o) + o.steady
  BY DEF DistributorStart, ActivityStart, UpgradeStart, Given, Derived
<1> QED
  BY <1>4, <1>5 DEF l, b, MinBootstrapEnd

LEMMA Remainders ==
    ASSUME NEW n \in Nat \ {0}
    PROVE  /\ \A x \in Nat : x % n \in 0..(n - 1)
           /\ 0 % n = 0 /\ n % n = 0
BY SMT

LEMMA Quotients ==
    ASSUME NEW x \in Nat, NEW n \in Nat \ {0}
    PROVE  x \div n \in Nat
BY SMT

LEMMA IntervalTyped ==
    ASSUME NEW users \in Nat, NEW nodes \in Nat, NEW interval \in Nat, NEW measured
    PROVE  /\ SafeInterval(users, nodes, measured, interval) \in Nat
           /\ StaggerBetween(users, nodes, measured, interval) \in Nat
<1>1. VerifyUs \in Nat /\ Cores \in Nat \ {0}
  BY MachineAssumption
<1>2. users * VerifyUs \in Nat /\ users * nodes \in Nat
  BY <1>1, ProductGrows
<1>3. /\ (users * VerifyUs * 3) \div 1000000 \in Nat
      /\ (users * nodes * 3) \div Cores \in Nat
  BY <1>1, <1>2, Quotients
<1>4. SafeInterval(users, nodes, measured, interval) \in Nat
  BY <1>3 DEF SafeInterval, SafeMinimum, Greatest
<1>5. users # 0 => SafeInterval(users, nodes, measured, interval) \div users \in Nat
  BY <1>4, Quotients
<1>6. StaggerBetween(users, nodes, measured, interval) \in Nat
  BY <1>5 DEF StaggerBetween, Greatest
<1> QED
  BY <1>4, <1>6

\* The hosts are numbered by their turns.
LEMMA HostsInTurn ==
    ASSUME NEW o, OptionsTyped(o)
    PROVE  /\ NodeCount(o) = NMiners + o.users + o.relays
           /\ \A h \in Hosts(o) : InTurn(o, h) \in 0..(NodeCount(o) - 1)
           /\ \A x \in 0..(NodeCount(o) - 1) : \E h \in Hosts(o) : InTurn(o, h) = x
<1> DEFINE users == o.users
           relays == o.relays
           n == NMiners + users + relays
           turn == [h \in Hosts(o) |-> InTurn(o, h)]
<1>1. users \in Nat /\ relays \in Nat /\ n \in Nat
  BY MinersTyped DEF OptionsTyped
<1>2. /\ \A x : x \in 1..NMiners => <<"miner", x>> \in Hosts(o) /\ InTurn(o, <<"miner", x>>) = x - 1
      /\ \A x : x \in 1..users =>
            <<"user", x>> \in Hosts(o) /\ InTurn(o, <<"user", x>>) = NMiners + x - 1
      /\ \A x : x \in 1..relays =>
            <<"relay", x>> \in Hosts(o) /\ InTurn(o, <<"relay", x>>) = NMiners + users + x - 1
  BY DEF Hosts, InTurn
<1>3. ASSUME NEW h \in Hosts(o)
      PROVE  \/ \E x \in 1..NMiners : h = <<"miner", x>>
             \/ \E x \in 1..users : h = <<"user", x>>
             \/ \E x \in 1..relays : h = <<"relay", x>>
  BY DEF Hosts
<1> HIDE DEF users, relays
<1>4. ASSUME NEW h \in Hosts(o) PROVE InTurn(o, h) \in 0..(n - 1)
  <2>1. CASE \E x \in 1..NMiners : h = <<"miner", x>>
    BY <1>1, <1>2, <2>1, MinersTyped
  <2>2. CASE \E x \in 1..users : h = <<"user", x>>
    BY <1>1, <1>2, <2>2, MinersTyped
  <2>3. CASE \E x \in 1..relays : h = <<"relay", x>>
    BY <1>1, <1>2, <2>3, MinersTyped
  <2> QED
    BY <1>3, <2>1, <2>2, <2>3
<1>5. ASSUME NEW x \in 0..(n - 1) PROVE \E h \in Hosts(o) : InTurn(o, h) = x
  <2>1. CASE x < NMiners
    <3>1. x + 1 \in 1..NMiners
      BY <2>1, MinersTyped
    <3>2. <<"miner", x + 1>> \in Hosts(o) /\ InTurn(o, <<"miner", x + 1>>) = (x + 1) - 1
      BY <1>2, <3>1
    <3> QED
      BY <3>2
  <2>2. CASE x >= NMiners /\ x < NMiners + users
    <3>1. (x - NMiners) + 1 \in 1..users
      BY <1>1, <2>2, MinersTyped
    <3> DEFINE y == (x - NMiners) + 1
    <3>2. <<"user", y>> \in Hosts(o) /\ InTurn(o, <<"user", y>>) = NMiners + y - 1
      BY <1>2, <3>1
    <3>3. NMiners + y - 1 = x
      BY MinersTyped
    <3> QED
      BY <3>2, <3>3
  <2>3. CASE x >= NMiners + users
    <3>1. (x - NMiners - users) + 1 \in 1..relays
      BY <1>1, <2>3, MinersTyped
    <3> DEFINE y == (x - NMiners - users) + 1
    <3>2. <<"relay", y>> \in Hosts(o) /\ InTurn(o, <<"relay", y>>) = NMiners + users + y - 1
      BY <1>2, <3>1
    <3>3. NMiners + users + y - 1 = x
      BY <1>1, MinersTyped
    <3> QED
      BY <3>2, <3>3
  <2> QED
    BY <1>1, <2>1, <2>2, <2>3, MinersTyped
<1>6. ASSUME NEW h \in Hosts(o), NEW g \in Hosts(o), InTurn(o, h) = InTurn(o, g) PROVE h = g
  <2>1. /\ \A x \in 1..NMiners : h = <<"miner", x>> => InTurn(o, h) = x - 1
        /\ \A x \in 1..users : h = <<"user", x>> => InTurn(o, h) = NMiners + x - 1
        /\ \A x \in 1..relays : h = <<"relay", x>> => InTurn(o, h) = NMiners + users + x - 1
        /\ \A x \in 1..NMiners : g = <<"miner", x>> => InTurn(o, g) = x - 1
        /\ \A x \in 1..users : g = <<"user", x>> => InTurn(o, g) = NMiners + x - 1
        /\ \A x \in 1..relays : g = <<"relay", x>> => InTurn(o, g) = NMiners + users + x - 1
    BY <1>2
  <2>2. CASE \E x \in 1..NMiners : h = <<"miner", x>>
    BY <1>1, <1>3, <1>6, <2>1, <2>2, MinersTyped
  <2>3. CASE \E x \in 1..users : h = <<"user", x>>
    BY <1>1, <1>3, <1>6, <2>1, <2>3, MinersTyped
  <2>4. CASE \E x \in 1..relays : h = <<"relay", x>>
    BY <1>1, <1>3, <1>6, <2>1, <2>4, MinersTyped
  <2> QED
    BY <1>3, <2>2, <2>3, <2>4
<1>7. NodeCount(o) = n
  <2>1. turn \in Bijection(Hosts(o), 0..(n - 1))
    <3>1. turn \in [Hosts(o) -> 0..(n - 1)]
      BY <1>4
    <3>2. \A h, g \in Hosts(o) : turn[h] = turn[g] => h = g
      BY <1>6
    <3>3. \A x \in 0..(n - 1) : \E h \in Hosts(o) : turn[h] = x
      BY <1>5
    <3> HIDE DEF turn
    <3> QED
      BY <3>1, <3>2, <3>3 DEF Bijection, Injection, Surjection, IsInjective
  <2>2. ExistsBijection(Hosts(o), 0..(n - 1))
    BY <2>1 DEF ExistsBijection
  <2>3. ExistsBijection(0..(n - 1), Hosts(o))
    BY <2>2, Fun_ExistsBijSymmetric
  <2>4. IsFiniteSet(0..(n - 1)) /\ Cardinality(0..(n - 1)) = n
    <3>1. n \in Nat
      BY <1>1
    <3> HIDE DEF n
    <3> QED
      BY <3>1, FS_Interval
  <2>5. Cardinality(Hosts(o)) = n
    BY <2>3, <2>4, FS_Bijection
  <2> QED
    BY <2>5 DEF NodeCount
<1> QED
  BY <1>4, <1>5, <1>7 DEF users, relays

\* Daemons stop from the start of the upgrade on, each in its turn.
LEMMA StopsBetween ==
    ASSUME NEW o, OptionsTyped(o), UpgradeStart(o) \in Nat, NEW turn \in 0..(NodeCount(o) - 1)
    PROVE  LET stops == Stops(o, turn)
               last == UpgradeStart(o) + (NodeCount(o) - 1) * o.upgradeStagger
           IN  /\ last \in Nat
               /\ \A h \in Hosts(o) : /\ stops[h] \in Nat
                                      /\ UpgradeStart(o) <= stops[h] /\ stops[h] <= last
               /\ \E h \in Hosts(o) : stops[h] = UpgradeStart(o)
<1> DEFINE n == NodeCount(o)
           s == o.upgradeStagger
           u == UpgradeStart(o)
           stops == Stops(o, turn)
           last == u + (n - 1) * s
<1>1. s \in Nat /\ n \in Nat \ {0} /\ u \in Nat
  BY HostsInTurn, MinersTyped DEF OptionsTyped
<1>2. stops = [h \in Hosts(o) |-> u + ((InTurn(o, h) + turn) % n) * s]
  BY DEF Stops
<1>3. /\ \A h \in Hosts(o) : InTurn(o, h) \in 0..(n - 1)
      /\ \A x \in 0..(n - 1) : \E h \in Hosts(o) : InTurn(o, h) = x
  BY HostsInTurn
<1>4. turn \in 0..(n - 1)
  OBVIOUS
<1> HIDE DEF n, s, u, stops
<1>5. (n - 1) * s \in Nat
  BY <1>1, ProductGrows
<1>6. last \in Nat
  BY <1>1, <1>5
<1>7. ASSUME NEW h \in Hosts(o)
      PROVE  stops[h] \in Nat /\ u <= stops[h] /\ stops[h] <= last
  <2> DEFINE x == (InTurn(o, h) + turn) % n
  <2>1. x \in 0..(n - 1)
    <3>1. InTurn(o, h) + turn \in Nat
      BY <1>3, <1>4
    <3> QED
      BY <1>1, <3>1, Remainders
  <2>2. stops[h] = u + x * s
    BY <1>2
  <2> HIDE DEF x
  <2>3. x * s <= (n - 1) * s /\ x * s \in Nat
    BY <1>1, <2>1, ProductGrows
  <2> QED
    BY <1>1, <1>5, <2>2, <2>3
<1>8. \E h \in Hosts(o) : stops[h] = u
  <2> DEFINE x == IF turn = 0 THEN 0 ELSE n - turn
  <2>1. x \in 0..(n - 1) /\ (x + turn = 0 \/ x + turn = n)
    BY <1>1, <1>4
  <2>2. PICK h \in Hosts(o) : InTurn(o, h) = x
    BY <1>3, <2>1
  <2>3. (InTurn(o, h) + turn) % n = 0
    <3>1. InTurn(o, h) + turn = 0 \/ InTurn(o, h) + turn = n
      BY <2>1, <2>2
    <3> QED
      BY <1>1, <3>1, Remainders
  <2>4. stops[h] = u + 0 * s
    BY <1>2, <2>3
  <2> QED
    BY <1>1, <2>4
<1> QED
  BY <1>6, <1>7, <1>8 DEF n, s, u, stops

-----------------------------------------------------------------------------
(* The generator and the wizard *)

\* The timeline once it is planned, and the hosts once they are written.
Planned(o, p) ==
    \E turn \in Orders(o), interval \in Nat :
        p = [bootstrapEnd |-> BootstrapEnd(o), mdStart |-> DistributorStart(o),
             activity |-> ActivityStart(o),
             stops |-> IF o.upgrade THEN Stops(o, turn) ELSE <<>>,
             duration |-> Duration(o), interval |-> interval]

HostsWritten(o, p, hosts) ==
    \E measured \in BOOLEAN :
        hosts = [h \in Hosts(o) |->
                    [start |-> HostStart(o, h),
                     activity |-> IF h[1] = "user"
                                  THEN p.activity
                                       + (h[2] - 1) * StaggerBetween(o.users, NodeCount(o),
                                                                     measured, p.interval)
                                  ELSE 0,
                     stop |-> IF o.upgrade THEN p.stops[h] ELSE None,
                     restart |-> IF o.upgrade THEN p.stops[h] + RestartGap ELSE None]]

OptionsInv == stage # "asking" => OptionsTyped(options) /\ Orderly(options)

PlanInv == stage \in {"planned", "paced", "written"} => Planned(options, plan)

WrittenInv == stage = "written" => HostsWritten(options, plan, emitted)

TimelineInv == OptionsInv /\ PlanInv /\ WrittenInv

\* What the user was told is about the options that came of it.
AnsweredInv ==
    told # None =>
        \E a \in UserAnswers :
            a.agents \in (NMiners + 1)..1000 /\ told = Shown(a) /\ options = OptionsOf(a)

LEMMA PlanTimesKeeps == TimelineInv /\ PlanTimes => TimelineInv'
<1> SUFFICES ASSUME TimelineInv, PlanTimes PROVE TimelineInv'
  OBVIOUS
<1>1. /\ stage = "ready" /\ stage' = "planned" /\ options' = options
      /\ OptionsTyped(options) /\ Orderly(options)
  BY DEF PlanTimes, TimelineInv, OptionsInv
<1>2. Planned(options, plan')
  <2> DEFINE interval == Given(options.txInterval, IF options.fast THEN 120 ELSE 60)
  <2>1. interval \in Nat
    BY <1>1 DEF OptionsTyped, Given
  <2> HIDE DEF interval
  <2>2. \E turn \in Orders(options) :
           plan' = [bootstrapEnd |-> BootstrapEnd(options), mdStart |-> DistributorStart(options),
                    activity |-> ActivityStart(options),
                    stops |-> IF options.upgrade THEN Stops(options, turn) ELSE <<>>,
                    duration |-> Duration(options), interval |-> interval]
    BY DEF PlanTimes, interval
  <2> QED
    BY <2>1, <2>2, Zenon DEF Planned
<1> QED
  BY <1>1, <1>2 DEF TimelineInv, OptionsInv, PlanInv, WrittenInv

LEMMA ResolveIntervalKeeps == TimelineInv /\ ResolveInterval => TimelineInv'
<1> SUFFICES ASSUME TimelineInv, ResolveInterval PROVE TimelineInv'
  OBVIOUS
<1>1. /\ stage = "planned" /\ stage' = "paced" /\ options' = options
      /\ OptionsTyped(options) /\ Orderly(options) /\ Planned(options, plan)
  BY DEF ResolveInterval, TimelineInv, OptionsInv, PlanInv
<1>2. PICK turn \in Orders(options), interval \in Nat :
        plan = [bootstrapEnd |-> BootstrapEnd(options), mdStart |-> DistributorStart(options),
                activity |-> ActivityStart(options),
                stops |-> IF options.upgrade THEN Stops(options, turn) ELSE <<>>,
                duration |-> Duration(options), interval |-> interval]
  BY <1>1, Zenon DEF Planned
<1> DEFINE n == NodeCount(options)
           safe == SafeInterval(options.users, n, Measured, interval)
<1>3. safe \in Nat
  <2>1. options.users \in Nat /\ n \in Nat
    BY <1>1, HostsInTurn, MinersTyped DEF OptionsTyped
  <2> QED
    BY <2>1, IntervalTyped
<1>4. plan' = [plan EXCEPT !.interval = safe]
  BY <1>2 DEF ResolveInterval
<1> HIDE DEF safe
<1>5. plan' = [bootstrapEnd |-> BootstrapEnd(options), mdStart |-> DistributorStart(options),
               activity |-> ActivityStart(options),
               stops |-> IF options.upgrade THEN Stops(options, turn) ELSE <<>>,
               duration |-> Duration(options), interval |-> safe]
  BY <1>2, <1>4
<1>6. Planned(options, plan')
  BY <1>3, <1>5, Zenon DEF Planned
<1> QED
  BY <1>1, <1>6 DEF TimelineInv, OptionsInv, PlanInv, WrittenInv

LEMMA WriteConfigKeeps == TimelineInv /\ WriteConfig => TimelineInv'
<1> SUFFICES ASSUME TimelineInv, WriteConfig PROVE TimelineInv'
  OBVIOUS
<1>1. /\ stage = "paced" /\ stage' = "written" /\ options' = options /\ plan' = plan
      /\ OptionsTyped(options) /\ Orderly(options) /\ Planned(options, plan)
      /\ emitted' = [h \in Hosts(options) |-> Agent(options, h)]
  BY DEF WriteConfig, TimelineInv, OptionsInv, PlanInv
<1>2. Measured \in BOOLEAN
  BY DEF Measured
<1>3. HostsWritten(options, plan, emitted')
  BY <1>1, <1>2, Zenon DEF HostsWritten, Agent
<1> QED
  BY <1>1, <1>3 DEF TimelineInv, OptionsInv, PlanInv, WrittenInv

LEMMA TimelineStepKeeps == TimelineInv /\ TimelineNext => TimelineInv'
<1> SUFFICES ASSUME TimelineInv, TimelineNext PROVE TimelineInv'
  OBVIOUS
<1>1. CASE PlanTimes
  BY <1>1, PlanTimesKeeps
<1>2. CASE ResolveInterval
  BY <1>2, ResolveIntervalKeeps
<1>3. CASE WriteConfig
  BY <1>3, WriteConfigKeeps
<1>4. CASE Calibrate \/ OtherCalibrates \/ LoadFails
  <2>1. /\ stage \in {"planned", "paced"} /\ stage' \in {stage, "failed"}
        /\ options' = options /\ plan' = plan
    BY <1>4 DEF Calibrate, RunCalibration, OtherCalibrates, LoadFails
  <2> QED
    BY <2>1 DEF TimelineInv, OptionsInv, PlanInv, WrittenInv
<1> QED
  BY <1>1, <1>2, <1>3, <1>4 DEF TimelineNext

\* Every phase of a derived timeline ends before the next begins.
LEMMA PhasesApart ==
    ASSUME NEW o, OptionsTyped(o), Orderly(o), Derived(o), NEW p, Planned(o, p),
           NEW hosts, HostsWritten(o, p, hosts), NEW h \in Hosts(o)
    PROVE  /\ h[1] = "user" => hosts[h].start < p.bootstrapEnd
           /\ h[1] = "user" => p.mdStart + FundingPeriod <= hosts[h].activity
           /\ o.upgrade =>
                  /\ hosts[h].start < hosts[h].stop
                  /\ p.activity + o.steady <= hosts[h].stop
                  /\ hosts[h].restart + o.post <= p.duration
<1> DEFINE boot == BootstrapEnd(o)
           begin == UpgradeStart(o)
           n == NodeCount(o)
<1>1. /\ boot \in Nat /\ boot >= MinBootstrapEnd /\ LastSpawn(o) < boot
      /\ DistributorStart(o) = boot
      /\ ActivityStart(o) = boot + FundingPeriod
      /\ begin = boot + FundingPeriod + o.steady
  BY PhasesBegin
<1>2. PICK turn \in Orders(o), interval \in Nat :
         p = [bootstrapEnd |-> boot, mdStart |-> DistributorStart(o),
              activity |-> ActivityStart(o),
              stops |-> IF o.upgrade THEN Stops(o, turn) ELSE <<>>,
              duration |-> Duration(o), interval |-> interval]
  BY Zenon DEF Planned
<1>3. PICK measured \in BOOLEAN :
         hosts = [g \in Hosts(o) |->
                    [start |-> HostStart(o, g),
                     activity |-> IF g[1] = "user"
                                  THEN p.activity + (g[2] - 1)
                                           * StaggerBetween(o.users, n, measured, p.interval)
                                  ELSE 0,
                     stop |-> IF o.upgrade THEN p.stops[g] ELSE None,
                     restart |-> IF o.upgrade THEN p.stops[g] + RestartGap ELSE None]]
  BY Zenon DEF HostsWritten
<1>4. /\ p.bootstrapEnd = boot /\ p.mdStart = boot /\ p.activity = boot + FundingPeriod
      /\ p.duration = Duration(o) /\ p.interval \in Nat
      /\ o.upgrade => p.stops = Stops(o, turn)
  BY <1>1, <1>2
<1>5. /\ hosts[h].start = HostStart(o, h)
      /\ h[1] = "user" => hosts[h].activity = p.activity + (h[2] - 1)
                               * StaggerBetween(o.users, n, measured, p.interval)
      /\ o.upgrade => hosts[h].stop = p.stops[h] /\ hosts[h].restart = p.stops[h] + RestartGap
  BY <1>3
<1>6. /\ o.users \in Nat /\ o.relays \in Nat /\ o.relayStart \in Nat
      /\ o.relayStagger \in Nat /\ o.steady \in Nat /\ o.post \in Nat
      /\ o.duration \in Nat /\ o.upgradeStagger \in Nat
      /\ n = NMiners + o.users + o.relays
  BY HostsInTurn DEF OptionsTyped
<1>7. \/ h[1] = "miner" /\ h[2] \in 1..NMiners
      \/ h[1] = "user" /\ h[2] \in 1..o.users
      \/ h[1] = "relay" /\ h[2] \in 1..o.relays
  BY DEF Hosts
<1>8. h[1] = "user" => hosts[h].start \in Nat /\ hosts[h].start < boot
  <2> SUFFICES ASSUME h[1] = "user" PROVE hosts[h].start \in Nat /\ hosts[h].start < boot
    OBVIOUS
  <2>1. h[2] - 1 \in 0..(o.users - 1)
    BY <1>6, <1>7
  <2>2. hosts[h].start = UserSchedule(o)[h[2] - 1]
    BY <1>5 DEF HostStart
  <2>3. LastSpawn(o) \in Nat /\ UserSchedule(o)[h[2] - 1] \in Nat
        /\ UserSchedule(o)[h[2] - 1] <= LastSpawn(o)
    BY <2>1, UsersStart
  <2> QED
    BY <1>1, <2>2, <2>3
<1>9. hosts[h].start \in Nat /\ hosts[h].start < boot + FundingPeriod
  <2>1. CASE h[1] = "miner"
    <3>1. hosts[h].start = h[2] - 1
      BY <1>5, <2>1 DEF HostStart
    <3>2. h[2] \in 1..NMiners
      BY <1>7, <2>1
    <3> HIDE DEF boot
    <3> QED
      BY <1>1, <3>1, <3>2, MinersTyped DEF FundingPeriod, MinBootstrapEnd
  <2>2. CASE h[1] = "user"
    BY <1>1, <1>8, <2>2 DEF FundingPeriod
  <2>3. CASE h[1] = "relay"
    <3> DEFINE r == o.relayStart
               s == o.relayStagger
               c == o.relays
               k == h[2]
    <3>1. hosts[h].start = r + (k - 1) * s
      BY <1>5, <2>3 DEF HostStart
    <3>2. k \in 1..c /\ r \in Nat /\ s \in Nat /\ c \in Nat
      BY <1>6, <1>7, <2>3
    <3>3. r + c * s < MinBootstrapEnd + FundingPeriod
      BY DEF Orderly
    <3> HIDE DEF r, s, c, k
    <3>4. (k - 1) * s <= c * s /\ (k - 1) * s \in Nat
      BY <3>2, ProductGrows
    <3>5. c * s \in Nat
      BY <3>2, ProductGrows
    <3> QED
      BY <1>1, <3>1, <3>2, <3>3, <3>4, <3>5 DEF MinBootstrapEnd, FundingPeriod
  <2> QED
    BY <1>7, <2>1, <2>2, <2>3
<1>10. h[1] = "user" => p.mdStart + FundingPeriod <= hosts[h].activity
  <2> SUFFICES ASSUME h[1] = "user" PROVE p.mdStart + FundingPeriod <= hosts[h].activity
    OBVIOUS
  <2> DEFINE g == StaggerBetween(o.users, n, measured, p.interval)
             k == h[2] - 1
  <2>1. g \in Nat
    BY <1>4, <1>6, IntervalTyped, MinersTyped
  <2>2. k \in Nat
    BY <1>6, <1>7
  <2>3. hosts[h].activity = boot + FundingPeriod + k * g
    BY <1>4, <1>5
  <2> HIDE DEF g, k
  <2>4. k * g \in Nat
    BY <2>1, <2>2, ProductGrows
  <2> QED
    BY <1>1, <1>4, <2>3, <2>4 DEF FundingPeriod
<1>11. ASSUME o.upgrade
       PROVE  /\ hosts[h].start < hosts[h].stop
              /\ p.activity + o.steady <= hosts[h].stop
              /\ hosts[h].restart + o.post <= p.duration
  <2> DEFINE last == begin + (n - 1) * o.upgradeStagger
  <2>1. begin \in Nat
    BY <1>1, <1>6 DEF FundingPeriod
  <2>2. turn \in 0..(n - 1)
    BY <1>6, MinersTyped DEF Orders
  <2>3. last \in Nat /\ p.stops[h] \in Nat /\ begin <= p.stops[h] /\ p.stops[h] <= last
    BY <1>4, <1>11, <2>1, <2>2, StopsBetween
  <2>4. p.duration = Greatest(o.duration, last + RestartGap + o.post)
    BY <1>4, <1>11 DEF Duration, LastUpgrade
  <2> DEFINE d == o.duration
             w == o.post
             y == o.steady
             x == p.stops[h]
             z == hosts[h].start
  <2>5. /\ hosts[h].stop = x /\ hosts[h].restart = x + 300 /\ p.activity = boot + FundingPeriod
        /\ begin = boot + FundingPeriod + y
        /\ d \in Nat /\ w \in Nat /\ y \in Nat /\ z \in Nat /\ z < boot + FundingPeriod
        /\ p.duration = IF d > last + 300 + w THEN d ELSE last + 300 + w
    BY <1>1, <1>4, <1>5, <1>6, <1>9, <1>11, <2>4 DEF RestartGap, Greatest
  <2> HIDE DEF last, d, w, y, x, z, begin, boot
  <2>6. z < x /\ boot + FundingPeriod + y <= x /\ x + 300 + w <= p.duration
    BY <1>1, <2>1, <2>3, <2>5 DEF FundingPeriod, x
  <2> QED
    BY <2>5, <2>6 DEF z, y, w
<1> QED
  BY <1>4, <1>8, <1>10, <1>11

\* The options that come of the answers are as orderly as the defaults.
LEMMA AnswersTyped ==
    ASSUME NEW a \in UserAnswers, a.agents \in (NMiners + 1)..1000
    PROVE  /\ OptionsTyped(OptionsOf(a)) /\ Orderly(OptionsOf(a)) /\ Derived(OptionsOf(a))
           /\ Shown(a).total \in Nat
           /\ OptionsOf(a).users = a.agents - NMiners /\ OptionsOf(a).users \in Nat \ {0}
<1> DEFINE o == OptionsOf(a)
<1>1. /\ a.agents \in Nat /\ a.steady \in Nat /\ a.stagger \in Nat /\ a.post \in Nat
      /\ a.fast \in BOOLEAN
  BY AnswersAssumption
<1>2. Shown(a).total \in Nat
  <2>1. a.agents * a.stagger \in Nat
    BY <1>1, ProductGrows
  <2>2. Shown(a).total = MinBootstrapEnd + 3600 + a.steady + a.agents * a.stagger + RestartGap
                         + a.post
    BY DEF Shown
  <2> QED
    BY <1>1, <2>1, <2>2 DEF MinBootstrapEnd, RestartGap
<1>3. a.agents - NMiners \in Nat \ {0}
  BY <1>1, MinersTyped
<1> DEFINE u == a.agents - NMiners
           t == Shown(a).total
<1>4. o = Arguments(a, u)
  BY DEF OptionsOf
<1> HIDE DEF u
<1>5. /\ o.users = u /\ o.duration = t /\ o.stagger = 5 /\ o.upgrade = TRUE
      /\ o.upgradeStagger = a.stagger /\ o.steady = a.steady /\ o.post = a.post
      /\ o.fast = a.fast /\ o.firstBatch = 5 /\ o.maxBatch = 200 /\ o.batchInterval = 1200
      /\ o.spawnStart = None /\ o.bootstrapEnd = None /\ o.mdStart = None
      /\ o.activityStart = None /\ o.upgradeStart = None /\ o.txInterval = None
      /\ o.relays = 0 /\ o.relayStart = 5 /\ o.relayStagger = 20
  BY <1>4 DEF Arguments
<1> HIDE DEF o
<1>6. OptionsTyped(o)
  <2>1. /\ o.users \in Nat /\ o.duration \in Nat /\ o.stagger \in Nat
        /\ o.batchInterval \in Nat /\ o.relays \in Nat /\ o.relayStart \in Nat
        /\ o.relayStagger \in Nat /\ o.upgradeStagger \in Nat
        /\ o.steady \in Nat /\ o.post \in Nat
    BY <1>1, <1>2, <1>3, <1>5 DEF u
  <2>2. o.firstBatch \in Nat \ {0} /\ o.maxBatch \in Nat \ {0}
    BY <1>5
  <2>3. {o.spawnStart, o.txInterval} \subseteq Nat \cup {None}
    BY <1>5
  <2>4. {o.upgrade, o.fast} \subseteq BOOLEAN
    <3>1. o.upgrade = TRUE /\ o.fast = a.fast
      BY <1>5
    <3>2. o.fast \in BOOLEAN
      BY <1>1, <3>1, Zenon
    <3>3. o.upgrade \in BOOLEAN
      BY <3>1
    <3> QED
      BY <3>2, <3>3, Zenon
  <2> QED
    BY <2>1, <2>2, <2>3, <2>4 DEF OptionsTyped
<1>7. Orderly(o)
  BY <1>5 DEF Orderly, IntraBatch, MinBootstrapEnd, FundingPeriod
<1>8. Derived(o)
  BY <1>5 DEF Derived
<1> QED
  BY <1>2, <1>3, <1>5, <1>6, <1>7, <1>8 DEF o, u

\* What was shown is off by the length of the bootstrap that the head leaves out.
LEMMA HeaderTold ==
    ASSUME NEW a \in UserAnswers, a.agents \in (NMiners + 1)..1000,
           NEW o, o = OptionsOf(a), NEW t, t = Shown(a),
           NEW p, Planned(o, p), NEW hosts, HostsWritten(o, p, hosts)
    PROVE  LET late == p.bootstrapEnd - t.bootstrapEnd
               crowded == \E h \in Hosts(o) :
                             h[1] = "user" /\ 6 * hosts[h].start > 5 * t.bootstrapEnd
           IN  /\ IF crowded THEN late > 0 ELSE late = 0 /\ p.duration = t.total
               /\ p.activity = t.activity + late
               /\ \E h \in Hosts(o) : hosts[h].stop = t.upgrade + late
               /\ \A h \in Hosts(o) :
                     /\ t.upgrade + late <= hosts[h].stop
                     /\ hosts[h].restart <= t.complete + late
<1> DEFINE boot == BootstrapEnd(o)
           begin == UpgradeStart(o)
           n == NodeCount(o)
           size == a.agents
           s == a.stagger
           y == a.steady
           w == a.post
           late == p.bootstrapEnd - t.bootstrapEnd
           crowded == \E h \in Hosts(o) :
                         h[1] = "user" /\ 6 * hosts[h].start > 5 * t.bootstrapEnd
<1>1. /\ OptionsTyped(o) /\ Orderly(o) /\ Derived(o)
      /\ o.users = size - NMiners /\ o.users \in Nat \ {0}
  BY AnswersTyped
<1>2. /\ size \in Nat /\ y \in Nat /\ s \in Nat /\ w \in Nat
  BY AnswersAssumption
<1>3. /\ o.duration = t.total /\ o.upgrade = TRUE /\ o.upgradeStagger = s
      /\ o.steady = y /\ o.post = w /\ o.relays = 0
  BY DEF OptionsOf, Arguments
<1>4. /\ t.bootstrapEnd = MinBootstrapEnd
      /\ t.activity = MinBootstrapEnd + 3600
      /\ t.upgrade = MinBootstrapEnd + 3600 + y
      /\ t.complete = MinBootstrapEnd + 3600 + y + size * s + RestartGap
      /\ t.total = MinBootstrapEnd + 3600 + y + size * s + RestartGap + w
  BY DEF Shown
<1>5. /\ boot \in Nat /\ boot >= MinBootstrapEnd
      /\ IF 6 * LastSpawn(o) > 5 * MinBootstrapEnd THEN boot > MinBootstrapEnd
                                                   ELSE boot = MinBootstrapEnd
      /\ DistributorStart(o) = boot
      /\ ActivityStart(o) = boot + FundingPeriod
      /\ begin = boot + FundingPeriod + y
  BY <1>1, <1>3, PhasesBegin
<1>6. n = size
  BY <1>1, <1>2, <1>3, HostsInTurn, MinersTyped
<1>7. PICK turn \in Orders(o), interval \in Nat :
         p = [bootstrapEnd |-> boot, mdStart |-> DistributorStart(o),
              activity |-> ActivityStart(o),
              stops |-> IF o.upgrade THEN Stops(o, turn) ELSE <<>>,
              duration |-> Duration(o), interval |-> interval]
  BY Zenon DEF Planned
<1>8. PICK measured \in BOOLEAN :
         hosts = [g \in Hosts(o) |->
                    [start |-> HostStart(o, g),
                     activity |-> IF g[1] = "user"
                                  THEN p.activity + (g[2] - 1)
                                           * StaggerBetween(o.users, n, measured, p.interval)
                                  ELSE 0,
                     stop |-> IF o.upgrade THEN p.stops[g] ELSE None,
                     restart |-> IF o.upgrade THEN p.stops[g] + RestartGap ELSE None]]
  BY Zenon DEF HostsWritten
<1>9. /\ p.bootstrapEnd = boot /\ p.activity = boot + FundingPeriod
      /\ p.duration = Duration(o) /\ p.stops = Stops(o, turn)
  BY <1>3, <1>5, <1>7
<1>10. \A h \in Hosts(o) : /\ hosts[h].start = HostStart(o, h)
                           /\ hosts[h].stop = p.stops[h]
                           /\ hosts[h].restart = p.stops[h] + RestartGap
  BY <1>3, <1>8
<1>11. crowded <=> 6 * LastSpawn(o) > 5 * MinBootstrapEnd
  <2>1. LastSpawn(o) \in Nat
    BY <1>1, UsersStart
  <2>2. ASSUME NEW h \in Hosts(o), h[1] = "user"
        PROVE  hosts[h].start \in Nat /\ hosts[h].start <= LastSpawn(o)
    <3>1. h[2] - 1 \in 0..(o.users - 1)
      BY <1>1, <2>2 DEF Hosts
    <3>2. hosts[h].start = UserSchedule(o)[h[2] - 1]
      BY <1>10, <2>2 DEF HostStart
    <3> QED
      BY <1>1, <3>1, <3>2, UsersStart
  <2>3. \E h \in Hosts(o) : h[1] = "user" /\ hosts[h].start = LastSpawn(o)
    <3> DEFINE h == <<"user", o.users>>
    <3>1. h \in Hosts(o)
      BY <1>1 DEF Hosts
    <3>2. hosts[h].start = UserSchedule(o)[o.users - 1]
      BY <1>10, <3>1 DEF HostStart
    <3>3. UserSchedule(o)[o.users - 1] = LastSpawn(o)
      BY <1>1, UsersStart
    <3> QED
      BY <3>1, <3>2, <3>3
  <2> QED
    BY <1>4, <2>1, <2>2, <2>3 DEF MinBootstrapEnd
<1> HIDE DEF crowded
<1>12. (n - 1) * s <= size * s /\ (n - 1) * s \in Nat /\ size * s \in Nat
  <2>1. size - 1 \in Nat
    BY <1>1, MinersTyped, <1>2
  <2> HIDE DEF size, s
  <2>2. (size - 1) * s <= size * s /\ (size - 1) * s \in Nat /\ size * s \in Nat
    BY <1>2, <2>1, ProductGrows
  <2> QED
    BY <1>6, <2>2
<1>13. begin \in Nat /\ turn \in 0..(n - 1)
  BY <1>1, <1>2, <1>5, <1>6, MinersTyped DEF Orders, FundingPeriod
<1>14. /\ \A h \in Hosts(o) : /\ p.stops[h] \in Nat /\ begin <= p.stops[h]
                              /\ p.stops[h] <= begin + (n - 1) * s
       /\ \E h \in Hosts(o) : p.stops[h] = begin
  BY <1>1, <1>3, <1>9, <1>13, StopsBetween
<1>15. p.duration = Greatest(t.total, begin + (n - 1) * s + RestartGap + w)
  BY <1>3, <1>9 DEF Duration, LastUpgrade
<1> DEFINE x == (n - 1) * s
           z == size * s
<1> HIDE DEF x, z, begin, boot, s, y, w, n, size
<1>16. late = boot - MinBootstrapEnd
  BY <1>4, <1>9
<1> HIDE DEF late
<1>17. /\ t.upgrade + late = begin
       /\ p.activity = t.activity + late
       /\ t.complete + late = begin + z + RestartGap
  BY <1>2, <1>4, <1>5, <1>9, <1>12, <1>16 DEF MinBootstrapEnd, FundingPeriod, RestartGap, z
<1>18. IF crowded THEN late > 0 ELSE late = 0 /\ p.duration = t.total
  <2>1. late = 0 => begin + x + RestartGap + w <= t.total
    BY <1>2, <1>4, <1>5, <1>12, <1>16
       DEF MinBootstrapEnd, FundingPeriod, RestartGap, x, z
  <2>2. late = 0 => p.duration = t.total
    <3> SUFFICES ASSUME late = 0 PROVE p.duration = t.total
      OBVIOUS
    <3>1. t.total \in Nat /\ begin + x + RestartGap + w \in Nat
      BY <1>2, <1>4, <1>12, <1>13 DEF MinBootstrapEnd, RestartGap, x, z
    <3> QED
      BY <1>15, <2>1, <3>1 DEF Greatest, x
  <2> QED
    BY <1>5, <1>11, <1>16, <2>2 DEF MinBootstrapEnd
<1>19. \A h \in Hosts(o) : /\ t.upgrade + late <= hosts[h].stop
                           /\ hosts[h].restart <= t.complete + late
  BY <1>10, <1>12, <1>13, <1>14, <1>17 DEF RestartGap, x, z
<1>20. \E h \in Hosts(o) : hosts[h].stop = t.upgrade + late
  BY <1>10, <1>14, <1>17
<1> QED
  BY <1>17, <1>18, <1>19, <1>20 DEF late, crowded

LEMMA PhasesHeld == TimelineInv => PhasesInOrder
<1> SUFFICES ASSUME TimelineInv, stage = "written", Derived(options),
                    NEW h \in DOMAIN emitted
             PROVE  /\ h[1] = "user" => emitted[h].start < plan.bootstrapEnd
                    /\ h[1] = "user" => plan.mdStart + FundingPeriod <= emitted[h].activity
                    /\ options.upgrade =>
                           /\ emitted[h].start < emitted[h].stop
                           /\ plan.activity + options.steady <= emitted[h].stop
                           /\ emitted[h].restart + options.post <= plan.duration
  BY DEF PhasesInOrder
<1>1. /\ OptionsTyped(options) /\ Orderly(options)
      /\ Planned(options, plan) /\ HostsWritten(options, plan, emitted)
  BY DEF TimelineInv, OptionsInv, PlanInv, WrittenInv
<1>2. h \in Hosts(options)
  BY <1>1 DEF HostsWritten
<1> QED
  BY <1>1, <1>2, PhasesApart

LEMMA HeaderHeld == TimelineInv /\ AnsweredInv => HeaderKeepsTime
<1> SUFFICES ASSUME TimelineInv, AnsweredInv, stage = "written", told # None
             PROVE  HeaderKeepsTime
  BY DEF HeaderKeepsTime
<1>1. Planned(options, plan) /\ HostsWritten(options, plan, emitted)
  BY DEF TimelineInv, PlanInv, WrittenInv
<1>2. DOMAIN emitted = Hosts(options)
  BY <1>1 DEF HostsWritten
<1>3. PICK a \in UserAnswers :
         a.agents \in (NMiners + 1)..1000 /\ told = Shown(a) /\ options = OptionsOf(a)
  BY DEF AnsweredInv
<1> QED
  BY <1>1, <1>2, <1>3, HeaderTold DEF HeaderKeepsTime

\* The phases of every derived timeline are in order, whatever its options, if
\* a whole wave of users starts before the next one and the relays start early.
THEOREM PhasesKeepApart == (\A o \in Options : Orderly(o)) => (TimelineSpec => []PhasesInOrder)
<1> SUFFICES ASSUME \A o \in Options : Orderly(o) PROVE TimelineSpec => []PhasesInOrder
  OBVIOUS
<1>1. TimelineInit => TimelineInv
  <2> SUFFICES ASSUME TimelineInit PROVE TimelineInv
    OBVIOUS
  <2>1. stage = "ready" /\ options \in Options
    BY DEF TimelineInit, Generates
  <2>2. OptionsTyped(options) /\ Orderly(options)
    BY <2>1, OptionsAssumption DEF OptionsTyped
  <2> QED
    BY <2>1, <2>2 DEF TimelineInv, OptionsInv, PlanInv, WrittenInv
<1>2. TimelineInv /\ [TimelineNext]_timeline => TimelineInv'
  <2>1. ASSUME TimelineInv, UNCHANGED timeline PROVE TimelineInv'
    BY <2>1 DEF timeline, TimelineInv, OptionsInv, PlanInv, WrittenInv
  <2> QED
    BY <2>1, TimelineStepKeeps
<1> QED
  BY <1>1, <1>2, PhasesHeld, PTL DEF TimelineSpec

\* The head of a file that the wizard writes tells the times of the
\* configuration below it, and its phases are in order, whatever the answers.
THEOREM HeaderIsTrue == WizardSpec => []TimelineHolds
<1>1. WizardInit => TimelineInv /\ AnsweredInv
  BY DEF WizardInit, TimelineInv, OptionsInv, PlanInv, WrittenInv, AnsweredInv
<1>2. TimelineInv /\ AnsweredInv /\ [WizardNext]_wizard => TimelineInv' /\ AnsweredInv'
  <2> SUFFICES ASSUME TimelineInv, AnsweredInv, [WizardNext]_wizard
               PROVE  TimelineInv' /\ AnsweredInv'
    OBVIOUS
  <2>1. CASE Answer
    <3>1. PICK a \in UserAnswers :
             a.agents \in (NMiners + 1)..1000 /\ told' = Shown(a) /\ options' = OptionsOf(a)
      BY <2>1 DEF Answer
    <3>2. OptionsTyped(options') /\ Orderly(options')
      BY <3>1, AnswersTyped
    <3>3. stage' = "asked"
      BY <2>1 DEF Answer
    <3> QED
      BY <3>1, <3>2, <3>3 DEF TimelineInv, OptionsInv, PlanInv, WrittenInv, AnsweredInv
  <2>2. CASE Confirm
    <3>1. /\ stage = "asked" /\ stage' \in {"ready", "cancelled"}
          /\ options' = options /\ told' = told
      BY <2>2 DEF Confirm
    <3> QED
      BY <3>1 DEF TimelineInv, OptionsInv, PlanInv, WrittenInv, AnsweredInv
  <2>3. CASE TimelineNext /\ UNCHANGED told
    <3>1. TimelineInv'
      BY <2>3, TimelineStepKeeps
    <3>2. options' = options
      BY <2>3 DEF TimelineNext, PlanTimes, Calibrate, OtherCalibrates, LoadFails,
                  ResolveInterval, WriteConfig
    <3> QED
      BY <2>3, <3>1, <3>2 DEF AnsweredInv
  <2>4. CASE UNCHANGED wizard
    BY <2>4 DEF wizard, timeline, TimelineInv, OptionsInv, PlanInv, WrittenInv, AnsweredInv
  <2> QED
    BY <2>1, <2>2, <2>3, <2>4 DEF WizardNext
<1>3. TimelineInv /\ AnsweredInv => TimelineHolds
  BY PhasesHeld, HeaderHeld DEF TimelineHolds
<1> QED
  BY <1>1, <1>2, <1>3, PTL DEF WizardSpec

-----------------------------------------------------------------------------
(* The verdict on a run *)

\* The monitor never counts more than there is.
NetworkTyped ==
    /\ network = [senders |-> network.senders, included |-> network.included,
                  funded |-> network.funded]
    /\ network.senders \subseteq NodeIds
    /\ network.included \in Nat
    /\ watch = [cycle |-> watch.cycle, history |-> watch.history, last |-> watch.last,
                stats |-> watch.stats]
    /\ watch.stats.senders \subseteq network.senders
    /\ watch.stats.included \in Nat
    /\ watch.stats.included <= network.included

AlertCounts == {entry.alerts : entry \in Entries}

\* The history is all there ever was until it is full, while the monitor is there.
StoredInv ==
    /\ stored \in Seq(AlertCounts)
    /\ phase \in {"running", "reporting"} /\ Len(stored) <= HistoryLimit =>
           watch.history = stored
    /\ phase # "reporting" => printed = stored \/ lost

\* What a whole report says was true when it was written, and has not become less
\* so; of an empty history it counts nothing.
ReportTrue ==
    report \notin {NoFile, Torn} =>
        /\ Len(printed) <= HistoryLimit => report.alerts = AlertsIn(printed)
        /\ report.senders \subseteq network.senders
        /\ \/ report.created = 0
           \/ /\ report.created = Cardinality(report.senders)
              /\ report.included \in Nat /\ report.included <= network.included

\* A summary in the archive of the run is of the report.
PaperInv ==
    /\ phase \in {"running", "reporting", "over", "archived", "judged"}
    /\ phase \in {"running", "reporting", "over"} => ~archive.own
    /\ archive.own /\ archive.summary # NoFile =>
           /\ report \notin {NoFile, Torn}
           /\ archive.summary.report = report
    /\ ~archive.own /\ phase \in {"archived", "judged"} => simExit = 1

\* A verdict comes last, once.
RowsInv ==
    /\ phase # "judged" => rows = <<>>
    /\ rows = <<>> \/ \E v \in {"PASS", "FAIL"} : rows = <<v>>
    /\ rows = <<"PASS">> =>
           /\ simExit = 0 /\ archive.summary # NoFile
           /\ Asserted(archive.summary)

ReportInv == NetworkTyped /\ StoredInv /\ ReportTrue /\ PaperInv /\ RowsInv

LEMMA ReportInvPasses == ReportInv => PassIsEarned
<1> SUFFICES ASSUME ReportInv, rows # <<>>, Last(rows) = "PASS"
             PROVE  /\ archive.own /\ report \notin {NoFile, Torn}
                    /\ network.senders \ RegisteredIds # {}
                    /\ network.included * 5 >= Cardinality(report.senders) * 4
                    /\ Len(printed) <= HistoryLimit => AlertsIn(printed) <= MaxAlerts
                    /\ printed = stored \/ lost
  BY DEF PassIsEarned
<1>1. rows = <<"PASS">> /\ phase = "judged"
  BY DEF ReportInv, RowsInv, Last
<1>2. simExit = 0 /\ archive.summary # NoFile /\ Asserted(archive.summary)
  BY <1>1 DEF ReportInv, RowsInv
<1>3. archive.own
  BY <1>1, <1>2 DEF ReportInv, PaperInv
<1>4. report \notin {NoFile, Torn} /\ archive.summary.report = report
  BY <1>2, <1>3 DEF ReportInv, PaperInv
<1>5. /\ report.alerts <= MaxAlerts
      /\ report.created >= 1 /\ report.included * 5 >= report.created * 4
      /\ report.senders \ RegisteredIds # {}
  BY <1>2, <1>4 DEF Asserted
<1>6. /\ Len(printed) <= HistoryLimit => report.alerts = AlertsIn(printed)
      /\ report.senders \subseteq network.senders
      /\ report.created = Cardinality(report.senders)
      /\ report.included \in Nat /\ report.included <= network.included
  BY <1>4, <1>5 DEF ReportInv, ReportTrue
<1>7. Cardinality(report.senders) \in Nat
  <2>1. IsFiniteSet(report.senders)
    BY <1>6, ReportAssumption, FS_Subset DEF ReportInv, NetworkTyped
  <2> QED
    BY <2>1, FS_CardinalityType
<1>8. network.included * 5 >= Cardinality(report.senders) * 4
  BY <1>5, <1>6, <1>7 DEF ReportInv, NetworkTyped
<1>9. printed = stored \/ lost
  BY <1>1 DEF ReportInv, StoredInv
<1> QED
  BY <1>3, <1>4, <1>5, <1>6, <1>8, <1>9 DEF ReportInv, NetworkTyped

LEMMA ReportInvInit == ReportInit => ReportInv
<1> SUFFICES ASSUME ReportInit PROVE ReportInv
  OBVIOUS
<1>1. ~archive.own /\ phase = "running"
  BY DEF ReportInit
<1>2. NetworkTyped /\ StoredInv
  BY DEF ReportInit, NetworkTyped, StoredInv, Watch0
<1> QED
  BY <1>1, <1>2 DEF ReportInit, ReportInv, ReportTrue, PaperInv, RowsInv

\* The network moves on: what was counted stays true.
LEMMA NetworkKeeps ==
    ASSUME ReportInv, Happens,
           network' = [senders |-> network'.senders, included |-> network'.included,
                       funded |-> network'.funded],
           network'.senders \subseteq NodeIds, network'.included \in Nat,
           network.senders \subseteq network'.senders, network.included <= network'.included
    PROVE  ReportInv'
<1>1. UNCHANGED <<watch, stored, paper, phase, archive, simExit, rows>>
  BY DEF Happens
<1>2. NetworkTyped'
  BY <1>1 DEF ReportInv, NetworkTyped
<1>3. StoredInv' /\ PaperInv'
  BY <1>1 DEF ReportInv, StoredInv, PaperInv, paper
<1>4. ReportTrue'
  BY <1>1 DEF ReportInv, NetworkTyped, ReportTrue, paper
<1>5. RowsInv'
  BY <1>1 DEF ReportInv, RowsInv, Asserted, AllPass
<1> QED
  BY <1>2, <1>3, <1>4, <1>5 DEF ReportInv

LEMMA SendKeeps == ASSUME ReportInv, NEW n \in NodeIds, Send(n) PROVE ReportInv'
<1>1. network' = [senders |-> network.senders \cup {n}, included |-> network.included,
                  funded |-> network.funded]
  BY DEF Send, ReportInv, NetworkTyped
<1> QED
  BY <1>1, NetworkKeeps DEF Send, ReportInv, NetworkTyped

LEMMA FundKeeps == ReportInv /\ Fund => ReportInv'
<1> SUFFICES ASSUME ReportInv, Fund PROVE ReportInv'
  OBVIOUS
<1>1. network' = [senders |-> network.senders, included |-> network.included, funded |-> TRUE]
  BY DEF Fund, ReportInv, NetworkTyped
<1>2. network.senders \subseteq NodeIds /\ network.included \in Nat /\ Happens
  BY DEF Fund, ReportInv, NetworkTyped
<1>3. /\ network'.senders = network.senders /\ network'.included = network.included
      /\ network'.funded = TRUE /\ network.included <= network.included
  BY <1>1, <1>2
<1> QED
  BY <1>1, <1>2, <1>3, NetworkKeeps

LEMMA IncludeKeeps == ReportInv /\ Include => ReportInv'
<1> SUFFICES ASSUME ReportInv, Include PROVE ReportInv'
  OBVIOUS
<1>1. network' = [senders |-> network.senders, included |-> network.included + 1,
                  funded |-> network.funded]
  BY DEF Include, ReportInv, NetworkTyped
<1> QED
  BY <1>1, NetworkKeeps DEF Include, ReportInv, NetworkTyped

\* A cycle counts what there is, or leaves what it had counted.
LEMMA TrackedTyped ==
    ASSUME ReportInv, NEW heights, NEW read, NEW scanned, NEW polled, network' = network,
           NEW history, NEW last, NEW cycle,
           watch' = [cycle |-> cycle, history |-> history, last |-> last,
                     stats |-> Tracked(watch.stats, heights, read, scanned, polled)]
    PROVE  NetworkTyped' /\ watch'.history = history
<1>1. /\ watch'.stats.included \in {network.included, watch.stats.included}
      /\ watch'.stats.senders \in {network.senders, watch.stats.senders}
  <2>1. watch'.stats = Tracked(watch.stats, heights, read, scanned, polled)
    OBVIOUS
  <2> QED
    BY <2>1 DEF Tracked
<1>2. /\ watch' = [cycle |-> watch'.cycle, history |-> watch'.history, last |-> watch'.last,
                   stats |-> watch'.stats]
      /\ watch'.history = history
  OBVIOUS
<1> QED
  BY <1>1, <1>2 DEF ReportInv, NetworkTyped

LEMMA ObserveKeeps == ASSUME ReportInv, NEW entry \in Entries, Observe(entry) PROVE ReportInv'
<1>1. PICK read \in BOOLEAN, scanned \in BOOLEAN, polled \in BOOLEAN :
          watch' = [cycle |-> watch.cycle + 1,
                    history |-> Stored(watch.history, entry.alerts), last |-> entry.heights,
                    stats |-> Tracked(watch.stats, entry.heights, read, scanned, polled)]
  BY DEF Observe
<1>2. UNCHANGED <<network, paper, archive, simExit, rows>> /\ phase = "running" /\ phase' = "reporting"
  BY DEF Observe
<1>3. NetworkTyped' /\ watch'.history = Stored(watch.history, entry.alerts)
  BY <1>1, <1>2, TrackedTyped
<1>4. StoredInv'
  <2>1. entry.alerts \in AlertCounts /\ stored' = Append(stored, entry.alerts)
    BY DEF AlertCounts, Observe
  <2>2. stored \in Seq(AlertCounts) /\ HistoryLimit \in Nat
    BY ReportAssumption DEF ReportInv, StoredInv
  <2>3. /\ stored' \in Seq(AlertCounts) /\ Len(stored') = Len(stored) + 1 /\ Len(stored) \in Nat
        /\ Len(Append(stored, entry.alerts)) = Len(stored) + 1
    BY <2>1, <2>2
  <2>4. ASSUME Len(stored') <= HistoryLimit PROVE watch'.history = stored'
    <3>1. Len(stored) <= HistoryLimit
      BY <2>2, <2>3, <2>4
    <3>2. watch.history = stored
      BY <1>2, <3>1 DEF ReportInv, StoredInv
    <3>3. ~(Len(Append(stored, entry.alerts)) > HistoryLimit)
      BY <2>2, <2>3, <2>4
    <3> QED
      BY <1>3, <2>1, <3>2, <3>3 DEF Stored
  <2> QED
    BY <1>2, <2>3, <2>4 DEF StoredInv
<1>5. ReportTrue'
  BY <1>2 DEF ReportInv, ReportTrue, paper
<1>6. PaperInv' /\ RowsInv'
  BY <1>2 DEF ReportInv, PaperInv, RowsInv, paper
<1> QED
  BY <1>3, <1>4, <1>5, <1>6 DEF ReportInv

LEMMA CycleFailsKeeps == ASSUME ReportInv, NEW entry \in Entries, CycleFails(entry) PROVE ReportInv'
<1>1. PICK read \in BOOLEAN, scanned \in BOOLEAN, polled \in BOOLEAN :
          watch' = [cycle |-> watch.cycle + 1,
                    history |-> watch.history, last |-> watch.last,
                    stats |-> Tracked(watch.stats, entry.heights, read, scanned, polled)]
  BY DEF CycleFails
<1>2. UNCHANGED <<network, stored, paper, phase, archive, simExit, rows>>
  BY DEF CycleFails
<1>3. NetworkTyped' /\ watch'.history = watch.history
  BY <1>1, <1>2, TrackedTyped
<1>4. StoredInv' /\ ReportTrue'
  BY <1>2, <1>3 DEF ReportInv, StoredInv, ReportTrue, paper
<1>5. PaperInv' /\ RowsInv'
  BY <1>2 DEF ReportInv, PaperInv, RowsInv, paper, CycleFails
<1> QED
  BY <1>3, <1>4, <1>5 DEF ReportInv

\* Where there is no verdict yet, the history of the scenario is as it was.
LEMMA RowsStay ==
    ASSUME ReportInv, phase # "judged", phase' # "judged", rows' = rows
    PROVE  RowsInv'
<1>1. rows = <<>>
  BY DEF ReportInv, RowsInv
<1>2. rows' # <<"PASS">>
  BY <1>1
<1> QED
  BY <1>1, <1>2 DEF RowsInv

LEMMA Watch0Typed ==
    /\ Watch0 = [cycle |-> Watch0.cycle, history |-> Watch0.history, last |-> Watch0.last,
                 stats |-> Watch0.stats]
    /\ Watch0.stats.senders = {} /\ Watch0.stats.included = 0
  BY DEF Watch0

\* A whole report is true of the moment; an old one stays as true as it was.
LEMMA WrittenKeeps ==
    ASSUME ReportInv, Rewritten, UNCHANGED <<network, stored, archive, simExit, rows>>,
           phase \in {"running", "reporting"},
           \/ phase' = "running" /\ watch' = watch
           \/ phase' = "over" /\ watch' = Watch0
    PROVE  ReportInv'
<1>1. NetworkTyped'
  BY Watch0Typed DEF ReportInv, NetworkTyped
<1>2. StoredInv'
  BY DEF ReportInv, StoredInv, Rewritten
<1>3. PaperInv'
  BY DEF ReportInv, PaperInv
<1>4. RowsInv'
  BY RowsStay
<1>5. ReportTrue'
  <2>1. CASE report' = Summary(watch) /\ printed' = stored
    <3>1. /\ report'.alerts = AlertsIn(watch.history)
          /\ report'.senders = watch.stats.senders
          /\ \/ report'.created = 0
             \/ /\ report'.created = Cardinality(watch.stats.senders)
                /\ report'.included = watch.stats.included
      BY <2>1 DEF Summary
    <3>2. Len(printed') <= HistoryLimit => report'.alerts = AlertsIn(printed')
      BY <2>1, <3>1 DEF ReportInv, StoredInv
    <3>3. AlertsIn(printed)' = AlertsIn(printed')
      OBVIOUS
    <3> QED
      BY <3>1, <3>2, <3>3 DEF ReportInv, NetworkTyped, ReportTrue
  <2>2. CASE report' \in {report, Torn} /\ printed' = printed
    BY <2>2 DEF ReportInv, ReportTrue
  <2> QED
    BY <2>1, <2>2 DEF Rewritten
<1> QED
  BY <1>1, <1>2, <1>3, <1>4, <1>5 DEF ReportInv

LEMMA ReportKeeps == ReportInv /\ Report => ReportInv'
  BY WrittenKeeps DEF Report

LEMMA StopKeeps == ReportInv /\ Stop => ReportInv'
  BY WrittenKeeps DEF Stop

LEMMA KilledKeeps == ReportInv /\ Killed => ReportInv'
<1> SUFFICES ASSUME ReportInv, Killed PROVE ReportInv'
  OBVIOUS
<1>1. NetworkTyped'
  BY Watch0Typed DEF ReportInv, NetworkTyped, Killed
<1>4. StoredInv' /\ PaperInv'
  BY DEF ReportInv, StoredInv, PaperInv, Killed
<1>2. ReportTrue'
  BY DEF ReportInv, ReportTrue, Killed
<1>3. RowsInv'
  BY RowsStay DEF Killed
<1> QED
  BY <1>1, <1>2, <1>3, <1>4 DEF ReportInv

\* What follows the monitor changes neither what happened nor what was seen.
LEMMA AfterwardsKeeps ==
    ASSUME ReportInv, UNCHANGED <<network, watch, stored, paper>>, phase # "reporting",
           phase' \in {"archived", "judged"}, PaperInv', RowsInv'
    PROVE  ReportInv'
<1>1. NetworkTyped' /\ StoredInv'
  BY DEF ReportInv, NetworkTyped, StoredInv, paper
<1>2. ReportTrue'
  BY DEF ReportInv, ReportTrue, paper
<1> QED
  BY <1>1, <1>2 DEF ReportInv

LEMMA WriteSummaryKeeps == ReportInv /\ WriteSummary => ReportInv'
<1> SUFFICES ASSUME ReportInv, WriteSummary PROVE ReportInv'
  OBVIOUS
<1>1. PICK shadowExit \in {0, 1} :
          archive' = [own |-> TRUE,
                      summary |-> IF report \in {NoFile, Torn} THEN NoFile
                                  ELSE [exit |-> shadowExit, report |-> report]]
  BY DEF WriteSummary
<1>2. PaperInv'
  BY <1>1 DEF ReportInv, PaperInv, WriteSummary, paper
<1>3. RowsInv'
  BY RowsStay DEF WriteSummary
<1> QED
  BY <1>2, <1>3, AfterwardsKeeps DEF WriteSummary

LEMMA NoArchiveKeeps == ReportInv /\ NoArchive => ReportInv'
<1> SUFFICES ASSUME ReportInv, NoArchive PROVE ReportInv'
  OBVIOUS
<1>1. PaperInv'
  BY DEF ReportInv, PaperInv, NoArchive
<1>2. RowsInv'
  BY RowsStay DEF NoArchive
<1> QED
  BY <1>1, <1>2, AfterwardsKeeps DEF NoArchive

LEMMA JudgeKeeps == ReportInv /\ Judge => ReportInv'
<1> SUFFICES ASSUME ReportInv, Judge PROVE ReportInv'
  OBVIOUS
<1>1. PaperInv'
  BY DEF ReportInv, PaperInv, Judge, paper
<1>2. rows = <<>> /\ phase' = "judged" /\ archive' = archive /\ simExit' = simExit
  BY DEF ReportInv, RowsInv, Judge
<1>3. PICK clean : rows' = IF archive.summary = NoFile THEN rows
                           ELSE Append(rows, Verdict(clean /\ Asserted(archive.summary)))
  BY DEF Judge
<1>4. ASSUME archive.summary = NoFile PROVE RowsInv'
  BY <1>2, <1>3, <1>4 DEF RowsInv
<1>5. ASSUME archive.summary # NoFile PROVE RowsInv'
  <2> DEFINE v == Verdict(clean /\ Asserted(archive.summary))
  <2>1. /\ v \in {"PASS", "FAIL"}
        /\ v = "PASS" => simExit = 0 /\ Asserted(archive.summary)
    BY DEF Verdict
  <2>2. rows' = <<v>>
    BY <1>2, <1>3, <1>5
  <2>3. Asserted(archive.summary)' <=> Asserted(archive.summary)
    BY <1>2 DEF Asserted, AllPass
  <2> HIDE DEF v
  <2>4. rows'[1] = v
    BY <2>2
  <2> QED
    BY <1>2, <1>5, <2>1, <2>2, <2>3, <2>4 DEF RowsInv
<1> QED
  BY <1>1, <1>4, <1>5, AfterwardsKeeps DEF Judge

LEMMA ReportStepKeeps == ReportInv /\ [ReportNext]_reporting => ReportInv'
<1> SUFFICES ASSUME ReportInv, [ReportNext]_reporting PROVE ReportInv'
  OBVIOUS
<1>1. CASE UNCHANGED reporting
  <2>1. NetworkTyped' /\ StoredInv' /\ PaperInv'
    BY <1>1 DEF reporting, paper, ReportInv, NetworkTyped, StoredInv, PaperInv
  <2>2. ReportTrue'
    BY <1>1 DEF reporting, paper, ReportInv, ReportTrue
  <2>3. RowsInv'
    BY <1>1 DEF reporting, ReportInv, RowsInv, Asserted, AllPass
  <2> QED
    BY <2>1, <2>2, <2>3 DEF ReportInv
<1> QED
  BY <1>1, SendKeeps, FundKeeps, IncludeKeeps, ObserveKeeps, CycleFailsKeeps, ReportKeeps,
     StopKeeps, KilledKeeps, WriteSummaryKeeps, NoArchiveKeeps, JudgeKeeps DEF ReportNext

\* A run passes only by what it did itself (assert_metrics, smoke_test.sh) and by a
\* report that was true when it was written, for any number of nodes and cycles and
\* any baseline, wherever the monitor dies or a write of the report fails.
THEOREM PassesAreEarned == ReportSpec => []PassIsEarned
<1> QED
  BY ReportInvInit, ReportStepKeeps, ReportInvPasses, PTL DEF ReportSpec

-----------------------------------------------------------------------------
(* Upgrades of a scenario *)

\* The end of the first phase of the daemon or of the wallet, of a group or of
\* an agent, and the offset of the next group that has one.
Ends(x, w) == IF w = "daemon" THEN x.daemonStop ELSE x.walletStop
OffsetOf(w) == IF w = "daemon" THEN daemonOffset ELSE walletOffset

Parts == {"daemon", "wallet"}

IsList(s) == Len(s) \in Nat /\ s = [i \in 1..Len(s) |-> s[i]]

ScenarioTyped ==
    /\ scenario \in Scenarios
    /\ at \in Nat /\ daemonOffset \in Nat /\ walletOffset \in Nat
    /\ IsList(agents)
    /\ \A i \in DOMAIN agents : agents[i].group \in 0..Len(scenario.groups)

\* Whoever has been expanded upgrades before whoever will be, ...
Before(w) ==
    \A i \in DOMAIN agents :
        Rolling(i) /\ Ends(GroupOf(i), w) # Absent =>
            /\ Ends(agents[i], w) \in Nat
            /\ Ends(agents[i], w) + 30 <= Ends(GroupOf(i), w) + OffsetOf(w) * 30

\* ... and in turn.
RollsInTurn(w) ==
    \A i, j \in DOMAIN agents :
        /\ i < j /\ Rolling(i) /\ Rolling(j)
        /\ Ends(GroupOf(i), w) = Ends(GroupOf(j), w) /\ Ends(GroupOf(i), w) # Absent
        => Ends(agents[i], w) + 30 <= Ends(agents[j], w)

RollInv == ScenarioTyped /\ \A w \in Parts : Before(w) /\ RollsInTurn(w)

LEMMA RollInvRolls == RollInv => UpgradesRoll
  BY DEF RollInv, RollsInTurn, Parts, Ends, UpgradesRoll

LEMMA ScenarioShape ==
    ASSUME NEW s \in Scenarios
    PROVE  /\ s.groups \in Seq(Range(s.groups)) /\ s.singles \in Seq(Range(s.singles))
           /\ Len(s.groups) \in Nat /\ DOMAIN s.groups = 1..Len(s.groups)
           /\ Len(s.singles) \in Nat /\ DOMAIN s.singles = 1..Len(s.singles)
           /\ \A k \in 1..Len(s.groups) :
                  /\ s.groups[k].count \in Nat
                  /\ s.groups[k].daemonStop \in Nat \cup {Absent}
                  /\ s.groups[k].walletStop \in Nat \cup {Absent}
<1>1. /\ s.groups \in Seq(Range(s.groups)) /\ s.singles \in Seq(Range(s.singles))
      /\ \A g \in Range(s.groups) :
             /\ g.count \in Nat
             /\ g.daemonStop \in Nat \cup {Absent} /\ g.walletStop \in Nat \cup {Absent}
  BY ScenarioAssumption
<1>2. /\ Len(s.groups) \in Nat /\ DOMAIN s.groups = 1..Len(s.groups)
      /\ Len(s.singles) \in Nat /\ DOMAIN s.singles = 1..Len(s.singles)
      /\ \A k \in 1..Len(s.groups) : s.groups[k] \in Range(s.groups)
  BY <1>1
<1> QED
  BY <1>1, <1>2

LEMMA RollInvInit == ScenarioInit => RollInv
<1> SUFFICES ASSUME NEW given \in Scenarios, StartOf(given) PROVE RollInv
  BY DEF ScenarioInit
<1>1. agents = <<>> /\ Len(agents) = 0 /\ DOMAIN agents = {} /\ at = 1
  BY DEF StartOf
<1>2. ScenarioTyped
  BY <1>1 DEF StartOf, ScenarioTyped, IsList
<1> QED
  BY <1>1, <1>2 DEF RollInv, Before, RollsInTurn

LEMMA ListOf ==
    ASSUME NEW n \in Nat, NEW s, DOMAIN s = 1..n, s = [i \in 1..n |-> s[i]]
    PROVE  IsList(s) /\ Len(s) = n
<1> DEFINE S == {s[i] : i \in 1..n}
<1>1. s \in [1..n -> S]
  OBVIOUS
<1>2. s \in Seq(S)
  BY <1>1
<1>3. Len(s) = n
  BY <1>1, <1>2
<1> QED
  BY <1>3 DEF IsList

\* What is appended comes after what there is.
LEMMA Appended ==
    ASSUME NEW s, IsList(s), NEW r, IsList(r)
    PROVE  /\ IsList(s \o r) /\ Len(s \o r) = Len(s) + Len(r)
           /\ \A i \in 1..Len(s) : (s \o r)[i] = s[i]
           /\ \A i \in 1..Len(r) : (s \o r)[Len(s) + i] = r[i]
<1> DEFINE S == {s[i] : i \in 1..Len(s)} \cup {r[i] : i \in 1..Len(r)}
<1>1. s \in [1..Len(s) -> S] /\ r \in [1..Len(r) -> S] /\ Len(s) \in Nat /\ Len(r) \in Nat
  BY DEF IsList
<1>2. s \in Seq(S) /\ r \in Seq(S)
  BY <1>1
<1> HIDE DEF S
<1>3. /\ s \o r \in Seq(S)
      /\ Len(s \o r) = Len(s) + Len(r)
      /\ \A i \in 1..Len(s) + Len(r) : (s \o r)[i] = IF i <= Len(s) THEN s[i] ELSE r[i - Len(s)]
  BY <1>2, ConcatProperties
<1>4. IsList(s \o r)
  <2>1. \A q \in Seq(S) : Len(q) \in Nat /\ q = [i \in 1..Len(q) |-> q[i]]
    OBVIOUS
  <2> QED
    BY <1>3, <2>1, Zenon DEF IsList
<1>5. \A i \in 1..Len(s) : (s \o r)[i] = s[i]
  BY <1>1, <1>3
<1>6. ASSUME NEW i \in 1..Len(r) PROVE (s \o r)[Len(s) + i] = r[i]
  <2>1. Len(s) + i \in 1..Len(s) + Len(r) /\ ~(Len(s) + i <= Len(s)) /\ Len(s) + i - Len(s) = i
    BY <1>1
  <2> QED
    BY <1>3, <2>1
<1> QED
  BY <1>3, <1>4, <1>5, <1>6

LEMMA StopsRoll ==
    ASSUME NEW g, g.count \in Nat, g.count > 1, g.stopStagger = Absent,
           NEW base \in Nat, base # Absent, NEW offset \in Nat,
           NEW stops \in GroupStops(g, base, offset)
    PROVE  \A i \in 0..(g.count - 1) : stops[i] = base + (offset + i) * 30
<1>1. StopStagger(g) = [type |-> "linear", interval |-> 30]
  BY DEF StopStagger, Linear
<1>2. stops \in Staggered(base, [type |-> "linear", interval |-> 30], g.count, offset, 1200)
  BY <1>1 DEF GroupStops
<1>3. stops = [i \in 0..(g.count - 1) |-> base + (offset + i) * 30]
  BY <1>2 DEF Staggered
<1> QED
  BY <1>3

LEMMA OffsetGrows ==
    ASSUME NEW g, g.count \in Nat, NEW base, NEW offset \in Nat
    PROVE  /\ OffsetAfter(offset, g, base) \in Nat
           /\ OffsetAfter(offset, g, base) >= offset
           /\ g.count > 1 /\ g.stopStagger = Absent /\ base # Absent
                  => OffsetAfter(offset, g, base) = offset + g.count
<1>1. g.count > 1 /\ g.stopStagger = Absent => StopStagger(g) # NoStagger
  <2> SUFFICES ASSUME g.count > 1, g.stopStagger = Absent PROVE StopStagger(g) # NoStagger
    OBVIOUS
  <2>1. StopStagger(g).type = "linear"
    BY DEF StopStagger, Linear
  <2>2. NoStagger.type = "none"
    BY DEF NoStagger
  <2> QED
    BY <2>1, <2>2
<1> QED
  BY <1>1 DEF OffsetAfter

\* Slots of 30 s: one that is left, the next ones, and two of them.
LEMMA SlotKept ==
    ASSUME NEW base \in Nat, NEW o \in Nat, NEW p \in Nat, o <= p,
           NEW e \in Nat, e + 30 <= base + o * 30
    PROVE  e + 30 <= base + p * 30
  OBVIOUS

LEMMA SlotTaken ==
    ASSUME NEW base \in Nat, NEW o \in Nat, NEW k \in Nat, 1 <= k,
           NEW n \in Nat, k <= n, NEW p \in Nat, o + n <= p
    PROVE  /\ base + (o + k - 1) * 30 \in Nat
           /\ (base + (o + k - 1) * 30) + 30 <= base + p * 30
  OBVIOUS

LEMMA SlotAfter ==
    ASSUME NEW base \in Nat, NEW o \in Nat, NEW k \in Nat, 1 <= k,
           NEW e \in Nat, e + 30 <= base + o * 30
    PROVE  e + 30 <= base + (o + k - 1) * 30
  OBVIOUS

LEMMA SlotsInTurn ==
    ASSUME NEW base \in Nat, NEW o \in Nat, NEW k \in Nat, NEW l \in Nat, l < k
    PROVE  (base + (o + l - 1) * 30) + 30 <= base + (o + k - 1) * 30
  OBVIOUS

\* Agents that are appended with slots of their own, or with none, keep the order.
LEMMA AppendKeeps ==
    ASSUME RollInv, NEW new, IsList(new), agents' = agents \o new,
           scenario' = scenario, at' \in Nat, daemonOffset' \in Nat, walletOffset' \in Nat,
           \A w \in Parts : OffsetOf(w) <= OffsetOf(w)',
           \A i \in 1..Len(new) : new[i].group \in 0..Len(scenario.groups),
           \A w \in Parts : \A i \in 1..Len(new) :
               LET g == scenario.groups[new[i].group]
               IN  new[i].group # 0 /\ g.count > 1 /\ g.stopStagger = Absent /\ Ends(g, w) # Absent
                   => /\ Ends(new[i], w) = Ends(g, w) + (OffsetOf(w) + i - 1) * 30
                      /\ OffsetOf(w) + Len(new) <= OffsetOf(w)'
    PROVE  RollInv'
<1>1. PICK n \in Nat : n = Len(agents)
  BY DEF RollInv, ScenarioTyped, IsList
<1>2. /\ IsList(agents') /\ Len(agents') = n + Len(new) /\ DOMAIN agents' = 1..(n + Len(new))
      /\ \A i \in 1..n : agents'[i] = agents[i]
      /\ \A i \in 1..Len(new) : agents'[n + i] = new[i]
      /\ DOMAIN agents = 1..n /\ Len(new) \in Nat
  <2>1. IsList(agents)
    BY DEF RollInv, ScenarioTyped
  <2>2. IsList(agents') => DOMAIN agents' = 1..Len(agents')
    BY DEF IsList
  <2>3. DOMAIN agents = 1..n /\ Len(new) \in Nat
    BY <1>1, <2>1 DEF IsList
  <2> QED
    BY <1>1, <2>1, <2>2, <2>3, Appended
<1>3. \A i \in DOMAIN agents' : i \in 1..n \/ \E k \in 1..Len(new) : i = n + k
  <2> SUFFICES ASSUME NEW i \in 1..(n + Len(new)), i \notin 1..n
               PROVE  \E k \in 1..Len(new) : i = n + k
    BY <1>2
  <2>1. i - n \in 1..Len(new) /\ i = n + (i - n)
    BY <1>2
  <2> QED
    BY <2>1
<1>4. ScenarioTyped'
  <2>1. \A i \in DOMAIN agents' :
            agents'[i].group \in 0..Len(scenario.groups)
    BY <1>2, <1>3, ZenonT(40) DEF RollInv, ScenarioTyped
  <2> QED
    BY <1>2, <2>1 DEF RollInv, ScenarioTyped
<1>5. \A i \in 1..n : Rolling(i)' = Rolling(i) /\ GroupOf(i)' = GroupOf(i)
  BY <1>2 DEF Rolling, GroupOf
<1>6. ASSUME NEW k \in 1..Len(new), Rolling(n + k)'
      PROVE  /\ GroupOf(n + k)' = scenario.groups[new[k].group] /\ new[k].group # 0
             /\ GroupOf(n + k)'.count > 1 /\ GroupOf(n + k)'.stopStagger = Absent
  BY <1>2, <1>6 DEF Rolling, GroupOf
<1>7. ASSUME NEW w \in Parts PROVE Before(w)' /\ RollsInTurn(w)'
  <2>1. PICK o \in Nat, p \in Nat : o = OffsetOf(w) /\ p = OffsetOf(w)' /\ o <= p
    <3>1. OffsetOf(w) \in Nat /\ OffsetOf(w)' \in Nat
      BY DEF RollInv, ScenarioTyped, OffsetOf
    <3> QED
      BY <3>1
  <2>2. \A i \in DOMAIN agents' :
            Rolling(i)' => Ends(GroupOf(i)', w) \in Nat \cup {Absent}
    <3> SUFFICES ASSUME NEW i \in DOMAIN agents', Rolling(i)'
                 PROVE  Ends(GroupOf(i)', w) \in Nat \cup {Absent}
      OBVIOUS
    <3>1. agents'[i].group \in 1..Len(scenario'.groups) /\ scenario' \in Scenarios
      BY <1>4, ScenarioShape, SMTT(30) DEF ScenarioTyped, Rolling
    <3> QED
      BY <3>1, ScenarioShape DEF GroupOf, Ends, Parts
  <2>3. ASSUME NEW i \in 1..n, Rolling(i)', Ends(GroupOf(i)', w) # Absent
        PROVE  /\ Ends(agents'[i], w) \in Nat
               /\ Ends(agents'[i], w) + 30 <= Ends(GroupOf(i)', w) + o * 30
    <3>1. Rolling(i) /\ GroupOf(i)' = GroupOf(i) /\ agents'[i] = agents[i]
      BY <1>2, <1>5, <2>3
    <3> QED
      BY <1>2, <2>1, <2>3, <3>1 DEF RollInv, Before
  <2>4. ASSUME NEW k \in 1..Len(new), Rolling(n + k)', Ends(GroupOf(n + k)', w) # Absent
        PROVE  /\ Ends(agents'[n + k], w) = Ends(GroupOf(n + k)', w) + (o + k - 1) * 30
               /\ o + Len(new) <= p
    <3>1. agents'[n + k] = new[k]
      BY <1>2
    <3> QED
      BY <1>6, <2>1, <2>4, <3>1
  <2>5. Before(w)'
    <3> SUFFICES ASSUME NEW i \in DOMAIN agents', Rolling(i)', Ends(GroupOf(i)', w) # Absent
                 PROVE  /\ Ends(agents'[i], w) \in Nat
                        /\ Ends(agents'[i], w) + 30 <= Ends(GroupOf(i)', w) + p * 30
      BY <2>1 DEF Before, Ends
    <3>1. PICK base \in Nat : base = Ends(GroupOf(i)', w)
      BY <2>2
    <3>2. CASE i \in 1..n
      <4>1. /\ Ends(agents'[i], w) \in Nat
            /\ Ends(agents'[i], w) + 30 <= base + o * 30
        BY <2>3, <3>1, <3>2
      <4>2. Ends(agents'[i], w) + 30 <= base + p * 30
        BY <2>1, <4>1, SlotKept, Zenon
      <4> QED
        BY <3>1, <4>1, <4>2, Zenon
    <3>3. ASSUME NEW k \in 1..Len(new), i = n + k
          PROVE  /\ Ends(agents'[i], w) \in Nat
                 /\ Ends(agents'[i], w) + 30 <= Ends(GroupOf(i)', w) + p * 30
      <4>1. /\ Ends(agents'[i], w) = base + (o + k - 1) * 30
            /\ o + Len(new) <= p
        BY <2>4, <3>1, <3>3
      <4>2. k \in Nat /\ 1 <= k /\ k <= Len(new) /\ Len(new) \in Nat
        BY <1>2
      <4>3. /\ base + (o + k - 1) * 30 \in Nat
            /\ (base + (o + k - 1) * 30) + 30 <= base + p * 30
        BY <4>1, <4>2, SlotTaken, Zenon
      <4> QED
        BY <3>1, <4>1, <4>3, Zenon
    <3> QED
      BY <1>3, <3>2, <3>3
  <2>6. RollsInTurn(w)'
    <3> SUFFICES ASSUME NEW i \in DOMAIN agents', NEW j \in DOMAIN agents',
                        i < j, Rolling(i)', Rolling(j)',
                        Ends(GroupOf(i)', w) = Ends(GroupOf(j)', w), Ends(GroupOf(i)', w) # Absent
                 PROVE  Ends(agents'[i], w) + 30 <= Ends(agents'[j], w)
      BY DEF RollsInTurn, Ends
    <3>1. PICK base \in Nat : base = Ends(GroupOf(i)', w)
      BY <2>2
    <3>2. CASE i \in 1..n /\ j \in 1..n
      <4>1. /\ Rolling(i) /\ Rolling(j) /\ agents'[i] = agents[i] /\ agents'[j] = agents[j]
            /\ GroupOf(i)' = GroupOf(i) /\ GroupOf(j)' = GroupOf(j)
        BY <1>2, <1>5, <3>2
      <4> QED
        BY <1>2, <3>2, <4>1 DEF RollInv, RollsInTurn
    <3>3. ASSUME NEW k \in 1..Len(new), j = n + k, i \in 1..n
          PROVE  Ends(agents'[i], w) + 30 <= Ends(agents'[j], w)
      <4>1. /\ Ends(agents'[i], w) \in Nat
            /\ Ends(agents'[i], w) + 30 <= base + o * 30
        BY <2>3, <3>1, <3>3
      <4>2. Ends(agents'[j], w) = base + (o + k - 1) * 30
        BY <2>4, <3>1, <3>3
      <4>3. k \in Nat /\ 1 <= k
        BY <1>2
      <4>4. Ends(agents'[i], w) + 30 <= base + (o + k - 1) * 30
        BY <4>1, <4>3, SlotAfter, Zenon
      <4> QED
        BY <4>2, <4>4, Zenon
    <3>4. ASSUME NEW k \in 1..Len(new), j = n + k, NEW l \in 1..Len(new), i = n + l
          PROVE  Ends(agents'[i], w) + 30 <= Ends(agents'[j], w)
      <4>1. Ends(agents'[i], w) = base + (o + l - 1) * 30
        BY <2>4, <3>1, <3>4
      <4>2. Ends(agents'[j], w) = base + (o + k - 1) * 30
        BY <2>4, <3>1, <3>4
      <4>3. k \in Nat /\ l \in Nat /\ l < k
        BY <1>2, <3>4
      <4>4. (base + (o + l - 1) * 30) + 30 <= base + (o + k - 1) * 30
        BY <4>3, SlotsInTurn, Zenon
      <4> QED
        BY <4>1, <4>2, <4>4, Zenon
    <3>5. ~(i \notin 1..n /\ j \in 1..n)
      BY <1>2, <1>3
    <3> QED
      BY <1>3, <3>2, <3>3, <3>4, <3>5
  <2> QED
    BY <2>5, <2>6
<1> QED
  BY <1>4, <1>7 DEF RollInv


LEMMA ExpandGroupKeeps == RollInv /\ ExpandGroup => RollInv'
<1> SUFFICES ASSUME RollInv, ExpandGroup PROVE RollInv'
  OBVIOUS
<1>1. /\ at \in 1..Len(scenario.groups) /\ scenario' = scenario /\ at' = at + 1
      /\ scenario \in Scenarios /\ daemonOffset \in Nat /\ walletOffset \in Nat /\ at \in Nat
  BY DEF ExpandGroup, RollInv, ScenarioTyped
<1>2. PICK k \in 1..Len(scenario.groups) : k = at
  BY <1>1
<1>3. PICK g : g = scenario.groups[at]
  OBVIOUS
<1>4. g.count \in Nat /\ \A w \in Parts : Ends(g, w) \in Nat \cup {Absent}
  BY <1>1, <1>3, ScenarioShape DEF Ends, Parts
<1>5. PICK starts, stops, walletStops, new :
          /\ stops \in GroupStops(g, g.daemonStop, daemonOffset)
          /\ walletStops \in GroupStops(g, g.walletStop, walletOffset)
          /\ new = Members(g, starts, stops, walletStops)
          /\ agents' = agents \o new
  BY <1>3 DEF ExpandGroup
<1>6. /\ new = [i \in 1..g.count |-> new[i]] /\ DOMAIN new = 1..g.count
      /\ \A i \in 1..g.count :
             /\ new[i].group = k
             /\ new[i].daemonStop = stops[i - 1] /\ new[i].walletStop = walletStops[i - 1]
  BY <1>2, <1>5 DEF Members
<1>7. IsList(new) /\ Len(new) = g.count
  BY <1>4, <1>6, ListOf
<1>8. /\ daemonOffset' = OffsetAfter(daemonOffset, g, g.daemonStop)
      /\ walletOffset' = OffsetAfter(walletOffset, g, g.walletStop)
  BY <1>3 DEF ExpandGroup
<1>9. daemonOffset' \in Nat /\ walletOffset' \in Nat /\ \A w \in Parts : OffsetOf(w) <= OffsetOf(w)'
  BY <1>1, <1>4, <1>8, OffsetGrows DEF OffsetOf, Parts
<1>10. ASSUME NEW w \in Parts, NEW i \in 1..Len(new),
             g.count > 1, g.stopStagger = Absent, Ends(g, w) # Absent
      PROVE  /\ Ends(new[i], w) = Ends(g, w) + (OffsetOf(w) + i - 1) * 30
             /\ OffsetOf(w) + Len(new) <= OffsetOf(w)'
  <2>1. i \in 1..g.count /\ i - 1 \in 0..(g.count - 1)
    BY <1>4, <1>7, <1>10
  <2>2. CASE w = "daemon"
    <3>1. g.daemonStop \in Nat /\ g.daemonStop # Absent /\ OffsetOf(w) = daemonOffset
      BY <1>4, <1>10, <2>2 DEF Ends, OffsetOf, Parts
    <3>2. stops[i - 1] = g.daemonStop + (daemonOffset + (i - 1)) * 30
      <4>1. PICK base \in Nat, offset \in Nat : base = g.daemonStop /\ offset = daemonOffset
        BY <1>1, <3>1
      <4>2. base # Absent /\ stops \in GroupStops(g, base, offset)
        BY <1>5, <3>1, <4>1
      <4>3. g.count \in Nat /\ g.count > 1 /\ g.stopStagger = Absent
        BY <1>4, <1>10
      <4>4. \A m \in 0..(g.count - 1) : stops[m] = base + (offset + m) * 30
        BY <4>2, <4>3, StopsRoll
      <4> QED
        BY <2>1, <4>1, <4>4
    <3>3. daemonOffset + (i - 1) = daemonOffset + i - 1
      BY <1>1, <1>4, <2>1
    <3>4. daemonOffset' = daemonOffset + g.count
      BY <1>1, <1>4, <1>8, <1>10, <3>1, OffsetGrows
    <3>5. /\ Ends(new[i], w) = stops[i - 1] /\ Ends(g, w) = g.daemonStop
          /\ OffsetOf(w) = daemonOffset /\ OffsetOf(w)' = daemonOffset'
      BY <1>6, <2>1, <2>2 DEF Ends, OffsetOf
    <3>6. daemonOffset' <= daemonOffset'
      BY <1>9
    <3> QED
      BY <1>7, <3>2, <3>3, <3>4, <3>5, <3>6, Zenon
  <2>3. CASE w = "wallet"
    <3>1. g.walletStop \in Nat /\ g.walletStop # Absent /\ OffsetOf(w) = walletOffset
      BY <1>4, <1>10, <2>3 DEF Ends, OffsetOf, Parts
    <3>2. walletStops[i - 1] = g.walletStop + (walletOffset + (i - 1)) * 30
      <4>1. PICK base \in Nat, offset \in Nat : base = g.walletStop /\ offset = walletOffset
        BY <1>1, <3>1
      <4>2. base # Absent /\ walletStops \in GroupStops(g, base, offset)
        BY <1>5, <3>1, <4>1
      <4>3. g.count \in Nat /\ g.count > 1 /\ g.stopStagger = Absent
        BY <1>4, <1>10
      <4>4. \A m \in 0..(g.count - 1) : walletStops[m] = base + (offset + m) * 30
        BY <4>2, <4>3, StopsRoll
      <4> QED
        BY <2>1, <4>1, <4>4
    <3>3. walletOffset + (i - 1) = walletOffset + i - 1
      BY <1>1, <1>4, <2>1
    <3>4. walletOffset' = walletOffset + g.count
      BY <1>1, <1>4, <1>8, <1>10, <3>1, OffsetGrows
    <3>5. /\ Ends(new[i], w) = walletStops[i - 1] /\ Ends(g, w) = g.walletStop
          /\ OffsetOf(w) = walletOffset /\ OffsetOf(w)' = walletOffset'
      BY <1>6, <2>1, <2>3 DEF Ends, OffsetOf
    <3>6. walletOffset' <= walletOffset'
      BY <1>9
    <3> QED
      BY <1>7, <3>2, <3>3, <3>4, <3>5, <3>6, Zenon
  <2> QED
    BY <2>2, <2>3 DEF Parts
<1>11. \A i \in 1..Len(new) : new[i].group \in 0..Len(scenario.groups)
  <2>1. k \in 0..Len(scenario.groups)
    BY <1>1, <1>2, ScenarioShape
  <2> QED
    BY <1>6, <1>7, <2>1
<1>12. \A w \in Parts : \A i \in 1..Len(new) :
           LET h == scenario.groups[new[i].group]
           IN  new[i].group # 0 /\ h.count > 1 /\ h.stopStagger = Absent /\ Ends(h, w) # Absent
               => /\ Ends(new[i], w) = Ends(h, w) + (OffsetOf(w) + i - 1) * 30
                  /\ OffsetOf(w) + Len(new) <= OffsetOf(w)'
  BY <1>2, <1>3, <1>6, <1>7, <1>10
<1>13. at' \in Nat
  BY <1>1
<1> QED
  BY <1>1, <1>5, <1>7, <1>9, <1>11, <1>12, <1>13, AppendKeeps

LEMMA AddSingletonsKeeps == RollInv /\ AddSingletons => RollInv'
<1> SUFFICES ASSUME RollInv, AddSingletons PROVE RollInv'
  OBVIOUS
<1>1. /\ scenario' = scenario /\ at' \in Nat /\ scenario \in Scenarios
      /\ daemonOffset' = daemonOffset /\ walletOffset' = walletOffset
      /\ daemonOffset \in Nat /\ walletOffset \in Nat
      /\ Len(scenario.groups) \in Nat
      /\ Len(scenario.singles) \in Nat /\ DOMAIN scenario.singles = 1..Len(scenario.singles)
  <2>1. scenario \in Scenarios
    BY DEF RollInv, ScenarioTyped
  <2>2. UNCHANGED <<scenario, daemonOffset, walletOffset>> /\ at' = at + 1
    BY DEF AddSingletons
  <2> QED
    BY <2>1, <2>2, ScenarioShape DEF RollInv, ScenarioTyped
<1>2. PICK new :
          /\ agents' = agents \o new
          /\ new = [i \in 1..Len(scenario.singles) |-> new[i]]
          /\ DOMAIN new = 1..Len(scenario.singles)
          /\ \A i \in 1..Len(scenario.singles) : new[i].group = 0
  <2> DEFINE all == [i \in DOMAIN scenario.singles |-> Alone(scenario.singles[i])]
  <2>1. agents' = agents \o all
    BY DEF AddSingletons
  <2>2. /\ DOMAIN all = 1..Len(scenario.singles)
        /\ all = [i \in 1..Len(scenario.singles) |-> all[i]]
    BY <1>1
  <2>3. \A i \in 1..Len(scenario.singles) : all[i].group = 0
    BY <1>1 DEF Alone
  <2> HIDE DEF all
  <2> QED
    BY <2>1, <2>2, <2>3
<1>3. IsList(new) /\ Len(new) = Len(scenario.singles)
  BY <1>1, <1>2, ListOf
<1>4. \A w \in Parts : OffsetOf(w) <= OffsetOf(w)'
  BY <1>1 DEF OffsetOf
<1>5. \A i \in 1..Len(new) : new[i].group = 0
  BY <1>2, <1>3
<1>6. /\ at' \in Nat /\ daemonOffset' \in Nat /\ walletOffset' \in Nat
      /\ \A i \in 1..Len(new) : new[i].group \in 0..Len(scenario.groups)
  BY <1>1, <1>5
<1> QED
  BY <1>1, <1>2, <1>3, <1>4, <1>5, <1>6, AppendKeeps

\* What is resolved last changes no upgrade.
LEMMA ResolveKeeps ==
    ASSUME RollInv, UNCHANGED <<scenario, daemonOffset, walletOffset>>, at' \in Nat,
           IsList(agents'), DOMAIN agents' = DOMAIN agents,
           \A i \in DOMAIN agents :
               /\ agents'[i].group = agents[i].group
               /\ agents'[i].daemonStop = agents[i].daemonStop
               /\ agents'[i].walletStop = agents[i].walletStop
    PROVE  RollInv'
<1>1. ScenarioTyped'
  BY DEF RollInv, ScenarioTyped
<1>2. \A i \in DOMAIN agents :
          /\ Rolling(i)' = Rolling(i) /\ GroupOf(i)' = GroupOf(i)
          /\ \A w \in Parts : Ends(agents'[i], w) = Ends(agents[i], w)
  BY DEF Rolling, GroupOf, Ends
<1>3. ASSUME NEW w \in Parts PROVE Before(w)' /\ RollsInTurn(w)'
  <2>1. Before(w) /\ RollsInTurn(w)
    BY DEF RollInv
  <2>2. OffsetOf(w)' = OffsetOf(w)
    BY DEF OffsetOf
  <2>3. \A i \in DOMAIN agents : Ends(GroupOf(i)', w) = Ends(GroupOf(i), w)
    BY <1>2
  <2>4. Before(w)'
    <3> SUFFICES ASSUME NEW i \in DOMAIN agents, Rolling(i)', Ends(GroupOf(i)', w) # Absent
                 PROVE  /\ Ends(agents'[i], w) \in Nat
                        /\ Ends(agents'[i], w) + 30 <= Ends(GroupOf(i)', w) + OffsetOf(w)' * 30
      BY DEF Before, Ends
    <3> QED
      BY <1>2, <2>1, <2>2, <2>3 DEF Before
  <2>5. RollsInTurn(w)'
    <3> SUFFICES ASSUME NEW i \in DOMAIN agents, NEW j \in DOMAIN agents,
                        i < j, Rolling(i)', Rolling(j)',
                        Ends(GroupOf(i)', w) = Ends(GroupOf(j)', w), Ends(GroupOf(i)', w) # Absent
                 PROVE  Ends(agents'[i], w) + 30 <= Ends(agents'[j], w)
      BY DEF RollsInTurn, Ends
    <3> QED
      BY <1>2, <2>1, <2>3 DEF RollsInTurn
  <2> QED
    BY <2>4, <2>5
<1> QED
  BY <1>1, <1>3 DEF RollInv

LEMMA ResolveAgentsKeeps == RollInv /\ ResolveAgents => RollInv'
<1> SUFFICES ASSUME RollInv, ResolveAgents PROVE RollInv'
  OBVIOUS
<1>1. /\ UNCHANGED <<scenario, daemonOffset, walletOffset>> /\ at' \in Nat
      /\ IsList(agents) /\ DOMAIN agents = 1..Len(agents) /\ Len(agents) \in Nat
  <2>1. UNCHANGED <<scenario, daemonOffset, walletOffset>> /\ at' = at + 1
    BY DEF ResolveAgents
  <2>2. at \in Nat /\ IsList(agents)
    BY DEF RollInv, ScenarioTyped
  <2> QED
    BY <2>1, <2>2 DEF IsList
<1>2. DOMAIN agents' = DOMAIN agents /\ agents' = [i \in DOMAIN agents |-> agents'[i]]
  BY Zenon DEF ResolveAgents
<1>3. IsList(agents')
  BY <1>1, <1>2, ListOf
<1>4. ASSUME NEW i \in DOMAIN agents
      PROVE  /\ agents'[i].group = agents[i].group
             /\ agents'[i].daemonStop = agents[i].daemonStop
             /\ agents'[i].walletStop = agents[i].walletStop
  <2>1. agents'[i] = Resolved(i)
    BY DEF ResolveAgents
  <2>2. /\ Resolved(i).group = agents[i].group
        /\ Resolved(i).daemonStop = agents[i].daemonStop
        /\ Resolved(i).walletStop = agents[i].walletStop
    BY DEF Resolved
  <2> QED
    BY <2>1, <2>2
<1> QED
  BY <1>1, <1>2, <1>3, <1>4, ResolveKeeps

LEMMA RollStepKeeps == RollInv /\ [ScenarioNext]_expansion => RollInv'
<1> SUFFICES ASSUME RollInv, [ScenarioNext]_expansion PROVE RollInv'
  OBVIOUS
<1>1. CASE ExpansionFails \/ ResolveTiming \/ UNCHANGED expansion
  <2>1. UNCHANGED <<scenario, agents, daemonOffset, walletOffset>> /\ at' \in Nat
    BY <1>1 DEF ExpansionFails, ResolveTiming, expansion, RollInv, ScenarioTyped
  <2> QED
    BY <2>1, ResolveKeeps DEF RollInv, ScenarioTyped
<1> QED
  BY <1>1, ExpandGroupKeeps, AddSingletonsKeeps, ResolveAgentsKeeps DEF ScenarioNext

\* Upgrades roll through the network in the order of the scenario
\* (_expand_agent_groups and its upgrade_stagger_offset), for any groups.
THEOREM NetworkRolls == ScenarioSpec => []UpgradesRoll
<1> QED
  BY RollInvInit, RollStepKeeps, RollInvRolls, PTL DEF ScenarioSpec

-----------------------------------------------------------------------------
(* The users of a scenario begin *)

\* What has been declared of an agent, in its group or by itself.
SourceOf(i) ==
    IF agents[i].group # 0 THEN GroupOf(i)
    ELSE scenario.singles[i - Len(agents) + Len(scenario.singles)]

\* Whoever is left at "auto" has been left there by the scenario.
LeftAt(i) ==
    /\ agents[i].kind = SourceOf(i).kind
    /\ agents[i].activity = Automatic <=> SourceOf(i).activity = Automatic
    /\ agents[i].interval \in Nat \cup {Automatic, Absent}

Unresolved ==
    /\ bootstrap \subseteq 0..3600
    /\ at <= Len(scenario.groups) + 1 => \A i \in DOMAIN agents : agents[i].group # 0
    /\ at <= Len(scenario.groups) + 3 => \A i \in DOMAIN agents : LeftAt(i)

TimingInv ==
    at >= Len(scenario.groups) + 3 =>
        /\ timing.activity \in Nat /\ timing.mdStart \in Nat
        /\ scenario.activityStart = Absent => timing.activity = timing.mdStart + FundingTime

\* The users whose activity has been left at "auto", and what ActivityInTurn
\* asks of them.
LeftUsers ==
    {i \in DOMAIN agents : agents[i].kind = "user" /\ SourceOf(i).activity = Automatic}

Turns(users) ==
    /\ \A i, j \in users : i < j => agents[i].activity < agents[j].activity
    /\ \A i \in users :
           /\ scenario.activityStart = Absent => timing.mdStart + FundingTime <= agents[i].activity
           /\ scenario.respectSafe =>
                  agents[i].activity
                      < timing.activity + Greatest(Or(agents[Max(users)].interval, 60),
                                                   Cardinality(users))

TurnInv == RollInv /\ Unresolved /\ TimingInv /\ (Expanded => Turns(LeftUsers))

LEMMA TurnInvTurns == TurnInv => ActivityInTurn
<1> SUFFICES ASSUME TurnInv, Expanded PROVE ActivityInTurn
  BY DEF ActivityInTurn
<1>1. LeftUsers = {i \in DOMAIN agents :
                      /\ agents[i].kind = "user"
                      /\ Automatic = IF agents[i].group # 0 THEN GroupOf(i).activity
                            ELSE scenario.singles[i - Len(agents) + Len(scenario.singles)].activity}
  BY DEF LeftUsers, SourceOf
<1>2. Turns(LeftUsers)
  BY DEF TurnInv
<1> QED
  BY <1>1, <1>2, Zenon DEF ActivityInTurn, Turns

LEMMA ScenarioTimes ==
    ASSUME NEW s \in Scenarios
    PROVE  /\ {s.spawnStart, s.bootstrapEnd, s.mdStart, s.activityStart} \subseteq Nat \cup {Absent}
           /\ \A k \in 1..Len(s.groups) :
                  LET g == s.groups[k]
                  IN  /\ g.count \in Nat /\ g.start \in Nat
                      /\ {g.activity, g.interval} \subseteq Nat \cup {Automatic, Absent}
                      /\ g.kind \in {"user", "miner", "relay"}
                      /\ g.startStagger \notin {Automatic, Absent}
                             => Spreads(g.startStagger, g.count)
           /\ \A k \in 1..Len(s.singles) : s.singles[k].interval \in Nat \cup {Automatic, Absent}
<1>1. /\ s.groups \in Seq(Range(s.groups)) /\ s.singles \in Seq(Range(s.singles))
      /\ {s.spawnStart, s.bootstrapEnd, s.mdStart, s.activityStart} \subseteq Nat \cup {Absent}
      /\ \A g \in Range(s.groups) :
             /\ g.count \in Nat /\ g.start \in Nat
             /\ {g.activity, g.interval} \subseteq Nat \cup {Automatic, Absent}
             /\ g.kind \in {"user", "miner", "relay"}
             /\ g.startStagger \notin {Automatic, Absent} => Spreads(g.startStagger, g.count)
      /\ \A a \in Range(s.singles) : a.interval \in Nat \cup {Automatic, Absent}
  BY ScenarioAssumption, Zenon
<1>2. /\ \A k \in 1..Len(s.groups) : s.groups[k] \in Range(s.groups)
      /\ \A k \in 1..Len(s.singles) : s.singles[k] \in Range(s.singles)
  BY <1>1
<1> QED
  BY <1>1, <1>2, Zenon

LEMMA NotTimes == Automatic # Absent /\ Automatic \notin Nat /\ Absent \notin Nat
  BY ScenarioAssumption

\* The greatest of some numbers is one of them.
LEMMA MaxIsMember ==
    ASSUME NEW n \in Nat, NEW S, S \subseteq 0..n, S # {}
    PROVE  Max(S) \in S /\ \A x \in S : x <= Max(S)
<1> DEFINE T == {n - x : x \in S}
           R == OpToRel(<, Nat)
<1>1. \A ss \in Nat \X Nat : ss[1] < ss[2] => ss \in R
  BY Zenon DEF OpToRel
<1>2. IsWellFoundedOn(R, Nat)
  BY NatLessThanWellFounded, Zenon
<1>3. T \subseteq Nat /\ T # {}
  <2>1. \A x \in S : x \in 0..n /\ n - x \in Nat
    OBVIOUS
  <2> QED
    BY <2>1, Zenon
<1> HIDE DEF R
<1>4. PICK m \in T : \A l \in T : ~(<<l, m>> \in R)
  <2> HIDE DEF T
  <2> QED
    BY <1>2, <1>3, WFMin
<1>5. \A l \in T : ~(l < m)
  <2> SUFFICES ASSUME NEW l \in T, l < m PROVE FALSE
    OBVIOUS
  <2>1. <<l, m>> \in Nat \X Nat /\ <<l, m>>[1] < <<l, m>>[2]
    BY <1>3
  <2> QED
    BY <1>1, <1>4, <2>1
<1>6. PICK y \in S : m = n - y
  BY <1>4
<1>7. \A x \in S : y >= x
  <2> SUFFICES ASSUME NEW x \in S PROVE y >= x
    OBVIOUS
  <2>1. n - x \in T
    OBVIOUS
  <2>2. ~(n - x < n - y)
    BY <1>5, <1>6, <2>1
  <2>3. x \in 0..n /\ y \in 0..n
    OBVIOUS
  <2> QED
    BY <2>2, <2>3
<1>8. Max(S) \in S /\ \A x \in S : Max(S) >= x
  BY <1>6, <1>7, Zenon DEF Max
<1>9. \A x \in S : x \in 0..n
  OBVIOUS
<1> QED
  BY <1>8, <1>9

LEMMA NodesTyped == scenario \in Scenarios => TotalNodes \in Nat
<1> SUFFICES ASSUME scenario \in Scenarios PROVE TotalNodes \in Nat
  OBVIOUS
<1> DEFINE groups == scenario.groups
           singles == scenario.singles
           Of == [i \in DOMAIN groups |-> {i} \X (1..groups[i].count)]
           Sets == {{i} \X (1..groups[i].count) : i \in DOMAIN groups}
           Some == {i \in DOMAIN singles : singles[i].kind \in {"user", "miner", "relay"}}
<1>1. /\ Len(groups) \in Nat /\ DOMAIN groups = 1..Len(groups)
      /\ Len(singles) \in Nat /\ DOMAIN singles = 1..Len(singles)
      /\ \A i \in DOMAIN groups : groups[i].count \in Nat
  BY ScenarioShape
<1>2. IsFiniteSet(DOMAIN groups) /\ IsFiniteSet(DOMAIN singles)
  <2>1. \A n \in Nat : IsFiniteSet(1..n)
    BY FS_Interval
  <2> QED
    BY <1>1, <2>1, Zenon
<1>3. Of \in Surjection(DOMAIN groups, Sets)
  BY DEF Surjection
<1>4. IsFiniteSet(Sets)
  <2> HIDE DEF Of, Sets
  <2> QED
    BY <1>2, <1>3, FS_Surjection
<1>5. \A T \in Sets : IsFiniteSet(T)
  <2> SUFFICES ASSUME NEW i \in DOMAIN groups PROVE IsFiniteSet({i} \X (1..groups[i].count))
    OBVIOUS
  <2>1. IsFiniteSet({i})
    BY FS_Singleton
  <2>2. IsFiniteSet(1..groups[i].count)
    <3>1. \A n \in Nat : IsFiniteSet(1..n)
      BY FS_Interval
    <3> QED
      BY <1>1, <3>1, Zenon
  <2> QED
    BY <2>1, <2>2, FS_Product
<1>6. IsFiniteSet(UNION Sets)
  BY <1>4, <1>5, FS_UNION
<1>7. IsFiniteSet(Some)
  <2>1. Some \in SUBSET DOMAIN singles
    OBVIOUS
  <2> QED
    BY <1>2, <2>1, FS_Subset
<1>8. Cardinality(UNION Sets) \in Nat /\ Cardinality(Some) \in Nat
  BY <1>6, <1>7, FS_CardinalityType
<1> QED
  BY <1>8 DEF TotalNodes

\* A start is a time: the waves of a group are small enough to follow each other.
LEMMA StartsTyped ==
    ASSUME scenario \in Scenarios, NEW k \in 1..Len(scenario.groups),
           NEW g, g = scenario.groups[k], NEW starts \in StartTimes(g)
    PROVE  Range(starts) \subseteq Nat
<1> DEFINE stagger == StartStagger(g)
           own == g.kind = "user" /\ scenario.spawnStart # Absent
           base == IF own /\ stagger.type = "linear" THEN scenario.spawnStart ELSE g.start
           delay == IF own THEN scenario.spawnStart ELSE 1200
           n == g.count
<1>1. /\ g.start \in Nat /\ n \in Nat /\ g.kind \in {"user", "miner", "relay"}
      /\ g.startStagger \notin {Automatic, Absent} => Spreads(g.startStagger, n)
      /\ scenario.spawnStart \in Nat \cup {Absent}
  BY ScenarioTimes
<1>2. base \in Nat /\ delay \in Nat
  BY <1>1
<1>3. Spreads(stagger, n)
  <2>1. Spreads(AutoStagger(n), n)
    BY DEF AutoStagger, Linear, Spreads
  <2>2. Spreads(NoStagger, n) /\ Spreads(Linear(1), n) /\ Spreads(Linear(5), n)
    BY DEF NoStagger, Linear, Spreads
  <2> QED
    BY <1>1, <2>1, <2>2 DEF StartStagger
<1>4. starts \in Staggered(base, stagger, n, 0, delay)
  BY Zenon DEF StartTimes
<1> HIDE DEF base, delay, stagger, n
<1>5. \A i \in DOMAIN starts : starts[i] \in Nat
  <2>1. CASE stagger.type = "none"
    <3>1. starts = [i \in 0..(n - 1) |-> base]
      BY <1>4, <2>1 DEF Staggered
    <3> QED
      BY <1>2, <3>1
  <2>2. CASE stagger.type = "list"
    <3>1. starts = [i \in 0..(n - 1) |-> stagger.values[i + 1]]
      BY <1>4, <2>2 DEF Staggered
    <3>2. \A i \in 1..n : stagger.values[i] \in Nat
      BY <1>3, <2>2 DEF Spreads
    <3>3. \A i \in 0..(n - 1) : i + 1 \in 1..n
      BY <1>1 DEF n
    <3> QED
      BY <3>1, <3>2, <3>3
  <2>3. CASE stagger.type = "random"
    <3>1. starts \in [0..(n - 1) -> stagger.min..stagger.max]
      BY <1>4, <2>3 DEF Staggered
    <3>2. stagger.min \in Nat /\ stagger.max \in Nat
      BY <1>3, <2>3 DEF Spreads
    <3> QED
      BY <3>1, <3>2
  <2>4. CASE stagger.type = "linear"
    <3>1. starts = [i \in 0..(n - 1) |-> base + (0 + i) * stagger.interval]
      BY <1>4, <2>4 DEF Staggered
    <3>2. stagger.interval \in Nat
      BY <1>3, <2>4 DEF Spreads
    <3>3. \A i \in 0..(n - 1) : (0 + i) * stagger.interval \in Nat
      BY <3>2, ProductGrows
    <3> QED
      BY <1>2, <3>1, <3>3
  <2>5. CASE stagger.type = "batched"
    <3> DEFINE times == WaveTimes(n, 5, 200, delay, 1200, 5)
    <3>1. starts = [i \in 0..(n - 1) |-> base + times[i]]
      BY <1>4, <2>5 DEF Staggered
    <3>2. times \in [0..(n - 1) -> Nat]
      <4>1. n \in Nat
        BY <1>1 DEF n
      <4>2. PICK first \in Nat \ {0}, limit \in Nat \ {0}, interval \in Nat, within \in Nat :
               first = 5 /\ limit = 200 /\ interval = 1200 /\ within = 5
        OBVIOUS
      <4>3. times = WaveTimes(n, first, limit, delay, interval, within)
        BY <4>2
      <4>4. limit * within <= interval
        BY <4>2
      <4> HIDE DEF times
      <4> QED
        BY <1>2, <4>1, <4>3, <4>4, WavesInTurn
    <3> HIDE DEF times
    <3> QED
      BY <1>2, <3>1, <3>2
  <2> QED
    BY <1>3, <2>1, <2>2, <2>3, <2>4, <2>5 DEF Spreads
<1> QED
  BY <1>5 DEF Range

LEMMA RanksGrow ==
    ASSUME IsList(agents)
    PROVE  /\ IsFiniteSet(AutoUsers) /\ Cardinality(AutoUsers) \in Nat
           /\ AutoUsers \subseteq 1..Len(agents)
           /\ \A i \in AutoUsers : Rank(i) \in Nat /\ Rank(i) + 1 <= Cardinality(AutoUsers)
           /\ \A i, j \in AutoUsers : i < j => Rank(i) + 1 <= Rank(j)
<1> DEFINE Below(i) == {j \in AutoUsers : j < i}
<1>1. DOMAIN agents = 1..Len(agents) /\ Len(agents) \in Nat
  BY DEF IsList
<1>2. AutoUsers \subseteq 1..Len(agents)
  BY <1>1 DEF AutoUsers
<1>3. IsFiniteSet(AutoUsers)
  <2>1. IsFiniteSet(1..Len(agents))
    BY <1>1, FS_Interval
  <2> QED
    BY <1>2, <2>1, FS_Subset
<1>4. ASSUME NEW S \in SUBSET AutoUsers, NEW i \in S
      PROVE  (\A k \in Below(i) : k \in S) => Rank(i) \in Nat /\ Rank(i) + 1 <= Cardinality(S)
  <2> SUFFICES ASSUME \A k \in Below(i) : k \in S
               PROVE  Rank(i) \in Nat /\ Rank(i) + 1 <= Cardinality(S)
    OBVIOUS
  <2>1. IsFiniteSet(S) /\ Below(i) \in SUBSET S
    BY <1>3, FS_Subset
  <2>2. i \notin Below(i)
    BY <1>2
  <2> HIDE DEF Below
  <2>3. IsFiniteSet(Below(i))
    BY <2>1, FS_Subset
  <2>4. Cardinality(Below(i) \cup {i}) = Cardinality(Below(i)) + 1
    BY <2>2, <2>3, FS_AddElement
  <2>5. Below(i) \cup {i} \in SUBSET S
    BY <2>1
  <2>6. Cardinality(Below(i) \cup {i}) <= Cardinality(S)
    BY <2>1, <2>5, FS_Subset
  <2>7. Cardinality(Below(i)) \in Nat
    BY <2>3, FS_CardinalityType
  <2>8. Rank(i) = Cardinality(Below(i))
    BY DEF Rank, Below
  <2> QED
    BY <2>4, <2>6, <2>7, <2>8
<1>5. \A i \in AutoUsers : Rank(i) \in Nat /\ Rank(i) + 1 <= Cardinality(AutoUsers)
  BY <1>4
<1>6. ASSUME NEW i \in AutoUsers, NEW j \in AutoUsers, i < j PROVE Rank(i) + 1 <= Rank(j)
  <2>1. i \in Below(j) /\ Below(j) \in SUBSET AutoUsers
    BY <1>6
  <2>2. \A k \in Below(i) : k \in Below(j)
    BY <1>2, <1>6
  <2>3. Rank(j) = Cardinality(Below(j))
    BY DEF Rank
  <2> HIDE DEF Below
  <2> QED
    BY <1>4, <2>1, <2>2, <2>3
<1> QED
  BY <1>2, <1>3, <1>5, <1>6, FS_CardinalityType

\* So many staggers as there are users before the last one fit in an interval.
LEMMA StaggersFit ==
    ASSUME NEW n \in Nat \ {0}, NEW x \in Nat, NEW r \in Nat, r + 1 <= n
    PROVE  /\ Greatest(1, x \div n) \in Nat /\ Greatest(1, x \div n) >= 1
           /\ r * Greatest(1, x \div n) \in Nat
           /\ r * Greatest(1, x \div n) < Greatest(x, n)
<1>1. PICK q \in Nat : q = x \div n
  BY Quotients
<1>2. n * q <= x
  BY <1>1
<1>3. PICK s \in Nat : s = Greatest(1, q) /\ s >= 1
  BY DEF Greatest
<1>4. r * s <= (n - 1) * s /\ r * s \in Nat
  <2>1. n - 1 \in Nat /\ r <= n - 1
    OBVIOUS
  <2> QED
    BY <2>1, ProductGrows
<1>5. (n - 1) * s = n * s - s
  BY SMT
<1>6. (n - 1) * s < Greatest(x, n)
  <2>1. CASE q >= 1
    <3>1. s = q
      BY <1>3, <2>1 DEF Greatest
    <3> QED
      BY <1>2, <1>5, <2>1, <3>1 DEF Greatest
  <2>2. CASE q = 0
    <3>1. s = 1
      BY <1>3, <2>2 DEF Greatest
    <3> QED
      BY <3>1 DEF Greatest
  <2> QED
    BY <2>1, <2>2
<1>7. Greatest(x, n) \in Nat /\ (n - 1) * s \in Int
  BY <1>5 DEF Greatest
<1> QED
  BY <1>1, <1>3, <1>4, <1>6, <1>7

\* What the users that are left at "auto" are given.
LEMMA IntervalsGiven ==
    ASSUME scenario \in Scenarios, IsList(agents), AutoUsers # {},
           \A i \in DOMAIN agents : agents[i].interval \in Nat \cup {Automatic, Absent},
           NEW x, x = SafeInterval(Cardinality(AutoUsers), TotalNodes, scenario.measured,
                                   Or(CommonInterval, AskedInterval))
    PROVE  /\ x \in Nat
           /\ Max(AutoUsers) \in AutoUsers
           /\ scenario.respectSafe =>
                  Or(Or(CommonInterval, agents[Max(AutoUsers)].interval), 60) = x
<1> DEFINE n == Cardinality(AutoUsers)
           total == TotalNodes
           asked == AskedInterval
           common == CommonInterval
           given == {i \in AutoUsers : agents[i].interval # Automatic}
           least == SafeMinimum(n, total, scenario.measured)
           safe == Greatest(asked, least)
           last == Max(AutoUsers)
<1>1. /\ n \in Nat /\ AutoUsers \subseteq 0..Len(agents) /\ Len(agents) \in Nat
      /\ AutoUsers \subseteq DOMAIN agents
  <2>1. Len(agents) \in Nat /\ AutoUsers \subseteq 1..Len(agents) /\ n \in Nat
    BY RanksGrow DEF IsList
  <2>2. AutoUsers \subseteq DOMAIN agents
    BY DEF AutoUsers
  <2> QED
    BY <2>1, <2>2
<1>2. total \in Nat
  BY NodesTyped
<1>3. last \in AutoUsers
  BY <1>1, MaxIsMember
<1>4. given # {} => Max(given) \in given
  <2>1. given \subseteq 0..Len(agents)
    BY <1>1
  <2> HIDE DEF given
  <2> QED
    BY <1>1, <2>1, MaxIsMember
<1>5. asked = IF given = {} THEN 60 ELSE Or(agents[Max(given)].interval, 60)
  BY DEF AskedInterval
<1>6. asked \in Nat
  <2>1. given # {} => agents[Max(given)].interval \in Nat \cup {Absent}
    BY <1>1, <1>4
  <2> QED
    BY <1>5, <2>1 DEF Or
<1>7. least \in Nat
  <2>1. SafeInterval(n, total, scenario.measured, 0) \in Nat
    BY <1>1, <1>2, IntervalTyped
  <2>2. VerifyUs \in Nat /\ Cores \in Nat \ {0}
    BY MachineAssumption
  <2> HIDE DEF n, total
  <2>3. n * VerifyUs \in Nat /\ n * total \in Nat
    BY <1>1, <1>2, <2>2, ProductGrows
  <2>4. (n * VerifyUs * 3) \div 1000000 \in Nat /\ (n * total * 3) \div Cores \in Nat
    BY <2>2, <2>3, Quotients
  <2> QED
    BY <2>4 DEF SafeMinimum, Greatest
<1>8. safe \in Nat /\ safe # Absent /\ safe >= asked
  BY <1>6, <1>7, NotTimes DEF Greatest
<1>9. common = IF \/ \E i \in AutoUsers : agents[i].interval = Automatic
                  \/ safe > asked /\ scenario.respectSafe
               THEN safe ELSE Absent
  BY DEF CommonInterval, SafeInterval
<1>10. x = Greatest(Or(common, asked), least)
  BY DEF SafeInterval
<1> HIDE DEF n, total, asked, common, least, last
<1>11. CASE common # Absent
  <2>1. common = safe
    BY <1>9, <1>11
  <2>2. x = safe
    BY <1>6, <1>7, <1>10, <1>11, <2>1 DEF Or, Greatest
  <2>3. Or(Or(common, agents[last].interval), 60) = safe
    BY <1>8, <2>1 DEF Or
  <2> QED
    BY <1>3, <1>8, <2>2, <2>3 DEF common, last
<1>12. CASE common = Absent
  <2>1. \A i \in AutoUsers : agents[i].interval # Automatic
    BY <1>8, <1>9, <1>12
  <2>2. given = AutoUsers
    BY <2>1
  <2>3. asked = Or(agents[last].interval, 60)
    BY <1>3, <1>5, <2>2 DEF last
  <2>4. x = safe
    BY <1>10, <1>12 DEF Or
  <2>5. scenario.respectSafe => safe = asked
    <3>1. scenario.respectSafe => ~(safe > asked)
      BY <1>8, <1>9, <1>12
    <3> QED
      BY <1>6, <1>8, <3>1
  <2>6. Or(Or(common, agents[last].interval), 60) = asked
    BY <1>12, <2>3 DEF Or
  <2> QED
    BY <1>3, <1>8, <2>4, <2>5, <2>6 DEF common, last
<1> QED
  BY <1>11, <1>12

LEMMA TurnInvInit == ScenarioInit => TurnInv
<1> SUFFICES ASSUME ScenarioInit PROVE TurnInv
  OBVIOUS
<1>1. RollInv
  BY RollInvInit
<1>2. /\ agents = <<>> /\ DOMAIN agents = {} /\ at = 1 /\ bootstrap = {}
  BY DEF ScenarioInit, StartOf
<1>3. Len(scenario.groups) \in Nat
  BY <1>1, ScenarioShape DEF RollInv, ScenarioTyped
<1>4. Unresolved
  BY <1>2 DEF Unresolved
<1>5. TimingInv /\ ~Expanded
  BY <1>2, <1>3 DEF TimingInv, Expanded
<1> QED
  BY <1>1, <1>4, <1>5 DEF TurnInv

LEMMA ExpandGroupTurns == TurnInv /\ ExpandGroup => TurnInv'
<1> SUFFICES ASSUME TurnInv, ExpandGroup PROVE TurnInv'
  OBVIOUS
<1>1. /\ at \in 1..Len(scenario.groups) /\ scenario' = scenario /\ at' = at + 1
      /\ scenario \in Scenarios /\ Len(scenario.groups) \in Nat
      /\ RollInv /\ RollInv'
  <2>1. RollInv /\ RollInv'
    BY ExpandGroupKeeps DEF TurnInv
  <2>2. scenario \in Scenarios
    BY <2>1 DEF RollInv, ScenarioTyped
  <2>3. Len(scenario.groups) \in Nat
    BY <2>2, ScenarioShape
  <2> QED
    BY <2>1, <2>2, <2>3 DEF ExpandGroup
<1>2. PICK k \in 1..Len(scenario.groups) : k = at
  BY <1>1
<1>3. PICK g : g = scenario.groups[k]
  OBVIOUS
<1>4. PICK starts, stops, walletStops, new :
          /\ ~Unspread(g) /\ starts \in StartTimes(g)
          /\ new = Members(g, starts, stops, walletStops)
          /\ agents' = agents \o new
          /\ bootstrap' = bootstrap \cup {t \in Range(starts) : Participates(g, t)}
  BY <1>2, <1>3 DEF ExpandGroup
<1>5. /\ g.count \in Nat /\ {g.activity, g.interval} \subseteq Nat \cup {Automatic, Absent}
  BY <1>1, <1>3, ScenarioTimes
<1>6. /\ new = [i \in 1..g.count |-> new[i]] /\ DOMAIN new = 1..g.count
      /\ \A i \in 1..g.count :
             /\ new[i].group = k /\ new[i].kind = g.kind /\ new[i].interval = g.interval
             /\ new[i].activity = Activities(g)[i - 1]
  BY <1>2, <1>4 DEF Members
<1>7. ASSUME NEW i \in 1..g.count PROVE new[i].activity = Automatic <=> g.activity = Automatic
  <2> DEFINE spread == g.kind = "user" /\ g.count > 1 /\ g.activity \notin {Automatic, Absent}
  <2>1. i - 1 \in 0..(g.count - 1)
    BY <1>5
  <2>2. CASE ~spread
    <3>1. Activities(g)[i - 1] = g.activity
      BY <2>1, <2>2 DEF Activities
    <3> QED
      BY <1>6, <3>1
  <2>3. CASE spread
    <3> DEFINE s == StaggerBetween(g.count, TotalNodes, scenario.measured, Or(g.interval, 60))
    <3>1. g.activity \in Nat /\ Or(g.interval, 60) \in Nat
      BY <1>4, <1>5, <2>3 DEF Unspread, Or
    <3>2. s \in Nat
      BY <1>1, <1>5, <3>1, NodesTyped, IntervalTyped
    <3>3. Activities(g)[i - 1] = g.activity + (i - 1) * s
      BY <2>1, <2>3 DEF Activities
    <3> HIDE DEF s
    <3>4. (i - 1) * s \in Nat
      BY <2>1, <3>2, ProductGrows
    <3>5. g.activity + (i - 1) * s \in Nat
      BY <3>1, <3>4
    <3> QED
      BY <1>6, <2>3, <3>3, <3>5, NotTimes
  <2> QED
    BY <2>2, <2>3
<1>8. PICK n \in Nat : n = Len(agents) /\ IsList(agents)
  BY <1>1 DEF RollInv, ScenarioTyped, IsList
<1>9. IsList(new) /\ Len(new) = g.count
  BY <1>5, <1>6, ListOf
<1>10. /\ DOMAIN agents = 1..n /\ DOMAIN agents' = 1..(n + g.count)
       /\ \A i \in 1..n : agents'[i] = agents[i]
       /\ \A i \in 1..g.count : agents'[n + i] = new[i]
  <2> DEFINE all == agents \o new
  <2>1. /\ IsList(all) /\ Len(all) = n + g.count
        /\ \A i \in 1..n : all[i] = agents[i]
        /\ \A i \in 1..g.count : all[n + i] = new[i]
    <3>1. Len(new) = g.count /\ Len(agents) = n
      BY <1>8, <1>9
    <3>2. IsList(agents) /\ IsList(new)
      BY <1>8, <1>9
    <3>3. /\ IsList(all) /\ Len(all) = Len(agents) + Len(new)
          /\ \A i \in 1..Len(agents) : all[i] = agents[i]
          /\ \A i \in 1..Len(new) : all[Len(agents) + i] = new[i]
      BY <3>2, Appended
    <3> QED
      BY <3>1, <3>3
  <2> HIDE DEF all
  <2>3. agents' = all
    BY <1>4 DEF all
  <2>2. IsList(agents') => DOMAIN agents' = 1..Len(agents')
    BY DEF IsList
  <2> QED
    BY <1>8, <2>1, <2>2, <2>3 DEF IsList
<1>11. \A i \in DOMAIN agents' : i \in 1..n \/ \E l \in 1..g.count : i = n + l
  <2> SUFFICES ASSUME NEW i \in 1..(n + g.count), i \notin 1..n
               PROVE  \E l \in 1..g.count : i = n + l
    BY <1>10
  <2>1. i - n \in 1..g.count /\ i = n + (i - n)
    BY <1>5
  <2> QED
    BY <2>1
<1>12. \A i \in 1..n : agents[i].group # 0 /\ LeftAt(i)
  <2>1. at <= Len(scenario.groups) + 1 /\ at <= Len(scenario.groups) + 3
    BY <1>1
  <2> HIDE DEF LeftAt
  <2>2. Unresolved
    BY DEF TurnInv
  <2>3. \A i \in DOMAIN agents : agents[i].group # 0 /\ LeftAt(i)
    BY <2>1, <2>2 DEF Unresolved
  <2> QED
    BY <1>10, <2>3
<1>13. ASSUME NEW i \in DOMAIN agents' PROVE agents'[i].group # 0 /\ LeftAt(i)'
  <2>1. CASE i \in 1..n
    <3>1. agents[i].group # 0 /\ LeftAt(i) /\ agents'[i] = agents[i]
      BY <1>10, <1>12, <2>1
    <3>2. SourceOf(i)' = SourceOf(i)
      BY <1>1, <3>1 DEF SourceOf, GroupOf
    <3> QED
      BY <3>1, <3>2 DEF LeftAt
  <2>2. ASSUME NEW l \in 1..g.count, i = n + l PROVE agents'[i].group # 0 /\ LeftAt(i)'
    <3>1. agents'[i] = new[l] /\ agents'[i].group = k /\ k # 0
      <4>1. agents'[i] = new[l]
        BY <1>10, <2>2
      <4>2. new[l].group = k
        BY <1>6
      <4> QED
        BY <4>1, <4>2
    <3>2. SourceOf(i)' = g
      BY <1>1, <1>3, <3>1 DEF SourceOf, GroupOf
    <3> QED
      BY <1>5, <1>6, <1>7, <3>1, <3>2 DEF LeftAt
  <2> QED
    BY <1>11, <2>1, <2>2
<1>14. bootstrap' \subseteq 0..3600
  <2>1. Range(starts) \subseteq Nat
    BY <1>1, <1>3, <1>4, StartsTyped
  <2>2. ASSUME NEW t \in Range(starts), Participates(g, t) PROVE t \in 0..3600
    <3>1. t \in Nat /\ t < 3600
      BY <2>1, <2>2 DEF Participates
    <3> QED
      BY <3>1
  <2>3. bootstrap \subseteq 0..3600
    BY DEF TurnInv, Unresolved
  <2>8. PICK last \in Nat : last = 3600
    OBVIOUS
  <2> DEFINE times == 0..last
  <2>4. times = 0..3600
    BY <2>8
  <2> HIDE DEF times
  <2>5. (\A t \in Range(starts) : Participates(g, t) => t \in times) /\ bootstrap \subseteq times
    BY <2>2, <2>3, <2>4
  <2>6. bootstrap' = bootstrap \cup {t \in Range(starts) : Participates(g, t)}
    BY <1>4
  <2>7. bootstrap' \subseteq times
    BY <2>5, <2>6, Zenon
  <2> QED
    BY <2>4, <2>7
<1>15. Unresolved'
  BY <1>13, <1>14 DEF Unresolved
<1>16. TimingInv' /\ ~Expanded'
  BY <1>1 DEF TimingInv, Expanded
<1> QED
  BY <1>1, <1>15, <1>16 DEF TurnInv

LEMMA AddSingletonsTurns == TurnInv /\ AddSingletons => TurnInv'
<1> SUFFICES ASSUME TurnInv, AddSingletons PROVE TurnInv'
  OBVIOUS
<1>1. /\ at = Len(scenario.groups) + 1 /\ scenario' = scenario /\ at' = at + 1
      /\ bootstrap' = bootstrap
      /\ scenario \in Scenarios /\ Len(scenario.groups) \in Nat
      /\ RollInv /\ RollInv' /\ Unresolved
  <2>1. RollInv /\ RollInv' /\ Unresolved
    BY AddSingletonsKeeps DEF TurnInv
  <2>2. scenario \in Scenarios
    BY <2>1 DEF RollInv, ScenarioTyped
  <2>3. Len(scenario.groups) \in Nat
    BY <2>2, ScenarioShape
  <2> QED
    BY <2>1, <2>2, <2>3 DEF AddSingletons
<1>2. PICK m \in Nat : m = Len(scenario.singles) /\ DOMAIN scenario.singles = 1..m
  BY <1>1, ScenarioShape
<1>3. PICK new :
          /\ agents' = agents \o new
          /\ new = [l \in 1..m |-> new[l]] /\ DOMAIN new = 1..m
          /\ \A l \in 1..m : new[l] = Alone(scenario.singles[l])
  <2> DEFINE all == [l \in DOMAIN scenario.singles |-> Alone(scenario.singles[l])]
  <2>1. agents' = agents \o all
    BY DEF AddSingletons
  <2>2. /\ DOMAIN all = 1..m /\ all = [l \in 1..m |-> all[l]]
        /\ \A l \in 1..m : all[l] = Alone(scenario.singles[l])
    BY <1>2
  <2> HIDE DEF all
  <2> QED
    BY <2>1, <2>2
<1>4. PICK n \in Nat : n = Len(agents) /\ IsList(agents)
  BY <1>1 DEF RollInv, ScenarioTyped, IsList
<1>5. IsList(new) /\ Len(new) = m
  BY <1>2, <1>3, ListOf
<1>6. /\ DOMAIN agents = 1..n /\ DOMAIN agents' = 1..(n + m) /\ Len(agents') = n + m
      /\ \A i \in 1..n : agents'[i] = agents[i]
      /\ \A l \in 1..m : agents'[n + l] = new[l]
  <2> DEFINE all == agents \o new
  <2>1. /\ IsList(all) /\ Len(all) = n + m
        /\ \A i \in 1..n : all[i] = agents[i]
        /\ \A l \in 1..m : all[n + l] = new[l]
    <3>1. IsList(agents) /\ IsList(new)
      BY <1>4, <1>5
    <3>2. /\ IsList(all) /\ Len(all) = Len(agents) + Len(new)
          /\ \A i \in 1..Len(agents) : all[i] = agents[i]
          /\ \A l \in 1..Len(new) : all[Len(agents) + l] = new[l]
      BY <3>1, Appended
    <3> QED
      BY <1>4, <1>5, <3>2
  <2> HIDE DEF all
  <2>2. agents' = all
    BY <1>3 DEF all
  <2>3. IsList(agents') => DOMAIN agents' = 1..Len(agents')
    BY DEF IsList
  <2> QED
    BY <1>4, <2>1, <2>2, <2>3 DEF IsList
<1>7. ASSUME NEW i \in DOMAIN agents', ~(i \in 1..n) PROVE \E l \in 1..m : i = n + l
  <2>1. i - n \in 1..m /\ i = n + (i - n)
    BY <1>6, <1>7
  <2> QED
    BY <2>1
<1>8. \A i \in 1..n : agents[i].group # 0 /\ LeftAt(i)
  <2>1. at <= Len(scenario.groups) + 1 /\ at <= Len(scenario.groups) + 3
    BY <1>1
  <2> HIDE DEF LeftAt
  <2>2. \A i \in DOMAIN agents : agents[i].group # 0 /\ LeftAt(i)
    BY <1>1, <2>1 DEF Unresolved
  <2> QED
    BY <1>6, <2>2
<1>9. ASSUME NEW i \in DOMAIN agents' PROVE LeftAt(i)'
  <2>1. CASE i \in 1..n
    <3>1. agents[i].group # 0 /\ LeftAt(i) /\ agents'[i] = agents[i]
      BY <1>6, <1>8, <2>1
    <3>2. SourceOf(i)' = SourceOf(i)
      BY <1>1, <3>1 DEF SourceOf, GroupOf
    <3> QED
      BY <3>1, <3>2 DEF LeftAt
  <2>2. ASSUME NEW l \in 1..m, i = n + l PROVE LeftAt(i)'
    <3>1. agents'[i] = Alone(scenario.singles[l])
      BY <1>3, <1>6, <2>2
    <3>2. /\ agents'[i].group = 0 /\ agents'[i].kind = scenario.singles[l].kind
          /\ agents'[i].activity = scenario.singles[l].activity
          /\ agents'[i].interval = scenario.singles[l].interval
      BY <3>1 DEF Alone
    <3>3. i - Len(agents') + Len(scenario.singles) = l
      BY <1>2, <1>6, <2>2
    <3>4. SourceOf(i)' = scenario.singles[l]
      BY <1>1, <3>2, <3>3 DEF SourceOf
    <3>5. scenario.singles[l].interval \in Nat \cup {Automatic, Absent}
      BY <1>1, <1>2, ScenarioTimes
    <3> QED
      BY <3>2, <3>4, <3>5 DEF LeftAt
  <2> QED
    BY <1>7, <2>1, <2>2
<1>10. Unresolved'
  <2>1. ~(at' <= Len(scenario'.groups) + 1)
    BY <1>1
  <2> HIDE DEF LeftAt
  <2>2. bootstrap' \subseteq 0..3600
    BY <1>1 DEF Unresolved
  <2> QED
    BY <1>9, <2>1, <2>2 DEF Unresolved
<1>11. TimingInv' /\ ~Expanded'
  BY <1>1 DEF TimingInv, Expanded
<1> QED
  BY <1>1, <1>10, <1>11 DEF TurnInv

LEMMA LastTyped ==
    ASSUME NEW n \in Nat, bootstrap \subseteq 0..n
    PROVE  LastParticipant \in Nat
<1>1. CASE bootstrap = {}
  BY <1>1 DEF LastParticipant
<1>2. CASE bootstrap # {}
  <2>1. Max(bootstrap) \in bootstrap
    BY <1>2, MaxIsMember
  <2>2. PICK m \in bootstrap : m = Max(bootstrap)
    BY <2>1, Zenon
  <2>3. m \in Nat
    OBVIOUS
  <2> QED
    BY <1>2, <2>2, <2>3 DEF LastParticipant
<1> QED
  BY <1>1, <1>2

LEMMA TimesTyped ==
    ASSUME scenario \in Scenarios, NEW n \in Nat, bootstrap \subseteq 0..n
    PROVE  /\ MdTime \in Nat /\ ActivityTime \in Nat
           /\ scenario.activityStart = Absent => ActivityTime = MdTime + FundingTime
<1>1. {scenario.bootstrapEnd, scenario.mdStart, scenario.activityStart} \subseteq Nat \cup {Absent}
  BY ScenarioTimes
<1>2. LastParticipant \in Nat
  BY LastTyped
<1>3. (LastParticipant * 6) \div 5 \in Nat
  BY <1>2, Quotients
<1>4. BootstrapTime \in Nat
  BY <1>1, <1>3 DEF BootstrapTime, BootstrapMinimum, Or, Greatest
<1>5. MdTime \in Nat
  BY <1>1, <1>4 DEF MdTime, Or
<1> QED
  BY <1>1, <1>5 DEF ActivityTime, FundingTime, Or

LEMMA ResolveTimingTurns == TurnInv /\ ResolveTiming => TurnInv'
<1> SUFFICES ASSUME TurnInv, ResolveTiming PROVE TurnInv'
  OBVIOUS
<1>1. /\ at = Len(scenario.groups) + 2 /\ scenario' = scenario /\ at' = at + 1
      /\ bootstrap' = bootstrap /\ agents' = agents
      /\ timing' = [bootstrapEnd |-> BootstrapTime, mdStart |-> MdTime, activity |-> ActivityTime]
      /\ RollInv /\ Unresolved
  BY DEF TurnInv, ResolveTiming
<1>2. RollInv'
  <2>1. [ScenarioNext]_expansion
    BY DEF ScenarioNext
  <2> QED
    BY <1>1, <2>1, RollStepKeeps
<1>3. scenario \in Scenarios /\ Len(scenario.groups) \in Nat
  BY <1>1, ScenarioShape DEF RollInv, ScenarioTyped
<1>4. \A i \in DOMAIN agents : LeftAt(i)' = LeftAt(i)
  BY <1>1 DEF LeftAt, SourceOf, GroupOf
<1>5. Unresolved'
  <2>1. at <= Len(scenario.groups) + 3 /\ ~(at' <= Len(scenario.groups) + 1)
    BY <1>1, <1>3
  <2> HIDE DEF LeftAt
  <2>2. (\A i \in DOMAIN agents : LeftAt(i)) /\ bootstrap \subseteq 0..3600
    BY <1>1, <2>1 DEF Unresolved
  <2> QED
    BY <1>1, <1>4, <2>1, <2>2 DEF Unresolved
<1>6. TimingInv' /\ ~Expanded'
  <2>3. PICK n \in Nat : n = 3600
    OBVIOUS
  <2>1. bootstrap \subseteq 0..n
    BY <1>1, <2>3 DEF Unresolved
  <2>2. /\ MdTime \in Nat /\ ActivityTime \in Nat
        /\ scenario.activityStart = Absent => ActivityTime = MdTime + FundingTime
    BY <1>3, <2>1, TimesTyped
  <2> QED
    BY <1>1, <1>3, <2>2 DEF TimingInv, Expanded
<1> QED
  BY <1>2, <1>5, <1>6 DEF TurnInv

LEMMA ResolveAgentsTurns == TurnInv /\ ResolveAgents => TurnInv'
<1> SUFFICES ASSUME TurnInv, ResolveAgents PROVE TurnInv'
  OBVIOUS
<1>1. /\ at = Len(scenario.groups) + 3 /\ scenario' = scenario /\ at' = at + 1
      /\ bootstrap' = bootstrap /\ timing' = timing
      /\ agents' = [i \in DOMAIN agents |-> Resolved(i)]
      /\ RollInv /\ RollInv' /\ Unresolved /\ TimingInv
  BY ResolveAgentsKeeps DEF TurnInv, ResolveAgents
<1>2. /\ scenario \in Scenarios /\ Len(scenario.groups) \in Nat
      /\ IsList(agents) /\ IsList(agents')
  BY <1>1, ScenarioShape DEF RollInv, ScenarioTyped
<1>3. /\ timing.activity \in Nat /\ timing.mdStart \in Nat
      /\ scenario.activityStart = Absent => timing.activity = timing.mdStart + FundingTime
  BY <1>1, <1>2 DEF TimingInv
<1>4. \A i \in DOMAIN agents : LeftAt(i)
  <2>1. at <= Len(scenario.groups) + 3
    BY <1>1, <1>2
  <2> HIDE DEF LeftAt
  <2> QED
    BY <1>1, <2>1 DEF Unresolved
<1>5. DOMAIN agents' = DOMAIN agents /\ Len(agents') = Len(agents)
  <2>1. DOMAIN agents' = DOMAIN agents
    BY <1>1
  <2>2. DOMAIN agents = 1..Len(agents) /\ Len(agents) \in Nat
    BY <1>2 DEF IsList
  <2>3. agents' = [i \in DOMAIN agents |-> agents'[i]]
    BY <1>1, Zenon
  <2> QED
    BY <2>1, <2>2, <2>3, ListOf
<1>6. ASSUME NEW i \in DOMAIN agents
      PROVE  agents'[i].kind = agents[i].kind /\ SourceOf(i)' = SourceOf(i)
  <2>1. agents'[i] = Resolved(i)
    BY <1>1
  <2>2. agents'[i].kind = agents[i].kind /\ agents'[i].group = agents[i].group
    BY <2>1 DEF Resolved
  <2> QED
    BY <1>1, <1>5, <2>2 DEF SourceOf, GroupOf
<1>7. LeftUsers' = AutoUsers
  <2>1. \A i \in DOMAIN agents :
            agents[i].activity = Automatic <=> SourceOf(i).activity = Automatic
    BY <1>4 DEF LeftAt
  <2>2. LeftUsers' = {i \in DOMAIN agents :
                         agents[i].kind = "user" /\ SourceOf(i).activity = Automatic}
    BY <1>5, <1>6 DEF LeftUsers
  <2> QED
    BY <2>1, <2>2 DEF AutoUsers
<1>8. Turns(LeftUsers)'
  <2> DEFINE n == Cardinality(AutoUsers)
             x == SafeInterval(n, TotalNodes, scenario.measured, Or(CommonInterval, AskedInterval))
             s == ActivityStagger
             last == Max(AutoUsers)
  <2>1. CASE LeftUsers' = {}
    BY <2>1 DEF Turns
  <2>2. CASE LeftUsers' # {}
    <3>1. AutoUsers # {}
      BY <1>7, <2>2
    <3>2. /\ IsFiniteSet(AutoUsers) /\ n \in Nat /\ n # 0
          /\ AutoUsers \subseteq 1..Len(agents)
          /\ \A i \in AutoUsers : Rank(i) \in Nat /\ Rank(i) + 1 <= n
          /\ \A i, j \in AutoUsers : i < j => Rank(i) + 1 <= Rank(j)
      <4>1. /\ IsFiniteSet(AutoUsers) /\ n \in Nat
            /\ AutoUsers \subseteq 1..Len(agents)
            /\ \A i \in AutoUsers : Rank(i) \in Nat /\ Rank(i) + 1 <= n
            /\ \A i, j \in AutoUsers : i < j => Rank(i) + 1 <= Rank(j)
        BY <1>2, RanksGrow
      <4>2. n # 0
        BY <3>1, <4>1, FS_EmptySet
      <4> QED
        BY <4>1, <4>2, Zenon
    <3>3. /\ x \in Nat /\ last \in AutoUsers
          /\ scenario.respectSafe => Or(Or(CommonInterval, agents[last].interval), 60) = x
      <4>1. \A i \in DOMAIN agents : agents[i].interval \in Nat \cup {Automatic, Absent}
        BY <1>4 DEF LeftAt
      <4> QED
        BY <1>2, <3>1, <4>1, IntervalsGiven
    <3>4. s = Greatest(1, x \div n)
      BY <3>2 DEF ActivityStagger, StaggerBetween
    <3>5. \A i \in AutoUsers :
              /\ agents'[i].activity = timing.activity + Rank(i) * s
              /\ agents'[i].interval = Or(CommonInterval, agents[i].interval)
      <4> SUFFICES ASSUME NEW i \in AutoUsers
                   PROVE  /\ agents'[i].activity = timing.activity + Rank(i) * s
                          /\ agents'[i].interval = Or(CommonInterval, agents[i].interval)
        OBVIOUS
      <4>1. agents'[i] = Resolved(i)
        BY <1>1 DEF AutoUsers
      <4> QED
        BY <4>1 DEF Resolved
    <3> HIDE DEF n, x, s, last
    <3>6. \A i \in AutoUsers :
              s >= 1 /\ s \in Nat /\ Rank(i) * s \in Nat /\ Rank(i) * s < Greatest(x, n)
      <4> SUFFICES ASSUME NEW i \in AutoUsers
                   PROVE  s >= 1 /\ s \in Nat /\ Rank(i) * s \in Nat /\ Rank(i) * s < Greatest(x, n)
        OBVIOUS
      <4>1. PICK r \in Nat : r = Rank(i)
        BY <3>2
      <4>2. n \in Nat \ {0} /\ r + 1 <= n
        BY <3>2, <4>1
      <4> QED
        BY <3>3, <3>4, <4>1, <4>2, StaggersFit
    <3>7. ASSUME NEW i \in AutoUsers, NEW j \in AutoUsers, i < j
          PROVE  agents'[i].activity < agents'[j].activity
      <4>1. PICK a \in Nat, b \in Nat : a = Rank(i) /\ b = Rank(j) /\ a + 1 <= b
        BY <3>2, <3>7
      <4>2. (a + 1) * s <= b * s
        BY <3>6, <4>1, ProductGrows
      <4>3. (a + 1) * s = a * s + s
        BY <3>6, SMT
      <4>4. a * s \in Nat /\ b * s \in Nat /\ s >= 1 /\ s \in Nat
        BY <3>6, <4>1
      <4>5. a * s < b * s
        BY <4>2, <4>3, <4>4
      <4> QED
        BY <1>3, <3>5, <4>1, <4>4, <4>5
    <3>8. ASSUME NEW i \in AutoUsers
          PROVE  /\ scenario.activityStart = Absent =>
                         timing.mdStart + FundingTime <= agents'[i].activity
                 /\ scenario.respectSafe =>
                         agents'[i].activity
                             < timing.activity + Greatest(Or(agents'[last].interval, 60), n)
      <4>1. PICK d \in Nat : d = Rank(i) * s /\ d < Greatest(x, n)
        BY <3>6
      <4>2. agents'[i].activity = timing.activity + d
        BY <3>5, <4>1
      <4>3. scenario.respectSafe => Or(agents'[last].interval, 60) = x
        BY <3>3, <3>5
      <4>4. Greatest(x, n) \in Nat
        BY <3>2, <3>3 DEF Greatest
      <4>5. scenario.respectSafe =>
                agents'[i].activity
                    < timing.activity + Greatest(Or(agents'[last].interval, 60), n)
        BY <1>3, <4>1, <4>2, <4>3, <4>4
      <4>6. scenario.activityStart = Absent =>
                timing.mdStart + FundingTime <= agents'[i].activity
        BY <1>3, <4>1, <4>2 DEF FundingTime
      <4> QED
        BY <4>5, <4>6
    <3>9. n = Cardinality(LeftUsers') /\ last = Max(LeftUsers')
      BY <1>7 DEF n, last
    <3> QED
      BY <1>1, <1>7, <3>7, <3>8, <3>9 DEF Turns
  <2> QED
    BY <2>1, <2>2
<1>9. Unresolved' /\ TimingInv'
  <2>1. ~(at' <= Len(scenario'.groups) + 3)
    BY <1>1, <1>2
  <2>2. TimingInv'
    BY <1>1, <1>3 DEF TimingInv
  <2>3. Unresolved'
    BY <1>1, <1>2, <2>1 DEF Unresolved
  <2> QED
    BY <2>2, <2>3
<1> QED
  BY <1>1, <1>8, <1>9 DEF TurnInv

LEMMA TurnStepKeeps == TurnInv /\ [ScenarioNext]_expansion => TurnInv'
<1> SUFFICES ASSUME TurnInv, [ScenarioNext]_expansion PROVE TurnInv'
  OBVIOUS
<1>1. CASE ExpansionFails
  <2>1. /\ at' = 0 /\ UNCHANGED <<scenario, agents, bootstrap, timing>>
        /\ at \in 1..Len(scenario.groups)
    BY <1>1 DEF ExpansionFails
  <2>2. RollInv' /\ Len(scenario.groups) \in Nat
    BY RollStepKeeps, ScenarioShape DEF TurnInv, RollInv, ScenarioTyped
  <2>3. \A i \in DOMAIN agents : LeftAt(i)' = LeftAt(i)
    BY <2>1 DEF LeftAt, SourceOf, GroupOf
  <2>4. Unresolved'
    <3>1. at <= Len(scenario.groups) + 1 /\ at <= Len(scenario.groups) + 3
      BY <2>1, <2>2
    <3> HIDE DEF LeftAt
    <3> QED
      BY <2>1, <2>3, <3>1 DEF TurnInv, Unresolved
  <2>5. TimingInv' /\ ~Expanded'
    BY <2>1, <2>2 DEF TimingInv, Expanded
  <2> QED
    BY <2>2, <2>4, <2>5 DEF TurnInv
<1>2. CASE UNCHANGED expansion
  <2>1. UNCHANGED <<scenario, at, agents, bootstrap, timing>>
    BY <1>2 DEF expansion
  <2>2. RollInv'
    BY RollStepKeeps DEF TurnInv
  <2>3. \A i : LeftAt(i)' = LeftAt(i) /\ SourceOf(i)' = SourceOf(i)
    BY <2>1 DEF LeftAt, SourceOf, GroupOf
  <2> HIDE DEF LeftAt
  <2>4. Unresolved' /\ TimingInv'
    BY <2>1, <2>3 DEF TurnInv, Unresolved, TimingInv
  <2>5. LeftUsers' = LeftUsers
    BY <2>1, <2>3 DEF LeftUsers
  <2>6. Expanded' => Turns(LeftUsers)'
    BY <2>1, <2>5 DEF TurnInv, Expanded, Turns
  <2> QED
    BY <2>2, <2>4, <2>6 DEF TurnInv
<1> QED
  BY <1>1, <1>2, ExpandGroupTurns, AddSingletonsTurns, ResolveTimingTurns, ResolveAgentsTurns
     DEF ScenarioNext

\* Users whose activity is left at "auto" begin one after the other, after the
\* distributor and within an interval (_resolve_timing, _resolve_auto_agent_values),
\* for any groups.
THEOREM UsersBeginInTurn == ScenarioSpec => []ActivityInTurn
<1> QED
  BY TurnInvInit, TurnStepKeeps, TurnInvTurns, PTL DEF ScenarioSpec

-----------------------------------------------------------------------------
(* The histogram *)

\* The line in which the chain first comes to a height.
Begins(h, i) ==
    /\ i \in 1..Len(lines) /\ lines[i].height = h
    /\ \A j \in 1..Len(lines) : lines[j].height = h => i <= j

\* Times do not go back in a log, and no height is skipped.
LogTyped ==
    /\ IsList(lines) /\ chain \in Nat /\ clock \in Nat
    /\ \A i \in 1..Len(lines) :
           /\ lines[i].height \in 0..chain /\ lines[i].time \in 0..clock
           /\ \A j \in 1..i : lines[j].time <= lines[i].time
           /\ \A h \in 1..lines[i].height : \E j \in 1..i : lines[j].height = h
    /\ \A h \in 1..chain : \E j \in 1..Len(lines) : lines[j].height = h

\* A state in which the blocks up to its height are counted.
WholeState(state) ==
    /\ state.height \in 1..chain /\ state.time = FirstTime(state.height)
    /\ state.buckets = [c \in 0..(Columns - 1) |->
                           Cardinality({h \in 2..state.height : Bucket(IntervalTo(h)) = c})]
    /\ IsList(state.recent) /\ Len(state.recent) <= state.height - 1
    /\ Len(state.recent) >= RecentN \/ Len(state.recent) = state.height - 1
    /\ \A k \in 1..Len(state.recent) :
           state.recent[k] = IntervalTo(state.height - Len(state.recent) + k)

SavedWhole ==
    saved # NoState /\ gapless =>
        /\ WholeState(saved) /\ Len(saved.recent) <= RecentN
        /\ known \in 0..Len(lines)
        /\ \A i \in 1..known : lines[i].height <= saved.height

\* What is still to be counted of the lines the call has seen.
Remaining ==
    /\ board.length \in 0..Len(lines)
    /\ \A l \in 1..board.length :
           lines[l].height > 0 /\ lines[l].height > board.state.height =>
               \E i \in board.new : lines[i].height = lines[l].height
    /\ \A i \in board.new :
           /\ i <= board.length /\ Begins(lines[i].height, i)
           /\ lines[i].height > 0 /\ lines[i].height > board.state.height

BoardWhole ==
    board # Idle /\ board.gapless =>
        /\ Remaining
        /\ (board.state = Fresh /\ board.new # {}) \/ WholeState(board.state)

HistInv == LogTyped /\ SavedWhole /\ BoardWhole

LEMMA MinIsMember ==
    ASSUME NEW S, S \subseteq Nat, S # {}
    PROVE  Min(S) \in S /\ \A x \in S : Min(S) <= x
<1> DEFINE R == OpToRel(<, Nat)
<1>1. \A ss \in Nat \X Nat : ss[1] < ss[2] => ss \in R
  BY Zenon DEF OpToRel
<1>2. IsWellFoundedOn(R, Nat)
  BY NatLessThanWellFounded, Zenon
<1> HIDE DEF R
<1>3. PICK m \in S : \A l \in S : ~(<<l, m>> \in R)
  BY <1>2, WFMin
<1>4. \A l \in S : m <= l
  <2> SUFFICES ASSUME NEW l \in S, l < m PROVE FALSE
    OBVIOUS
  <2>1. <<l, m>> \in Nat \X Nat /\ <<l, m>>[1] < <<l, m>>[2]
    OBVIOUS
  <2> QED
    BY <1>1, <1>3, <2>1
<1> QED
  BY <1>4, Zenon DEF Min

\* Every height there is begins once, and when it does is known from then on.
TimesKnown ==
    /\ \A h \in 1..chain : \E i : Begins(h, i)
    /\ \A h \in 1..chain : \A i : Begins(h, i) => FirstTime(h) = lines[i].time
    /\ \A h \in 1..chain : FirstTime(h) \in Nat

LEMMA Beginnings == LogTyped => TimesKnown
<1> SUFFICES ASSUME LogTyped PROVE TimesKnown
  OBVIOUS
<1>1. DOMAIN lines = 1..Len(lines) /\ Len(lines) \in Nat /\ chain \in Nat /\ clock \in Nat
  BY DEF LogTyped, IsList
<1>2. ASSUME NEW h \in 1..chain PROVE \E i : Begins(h, i)
  <2> DEFINE S == {j \in 1..Len(lines) : lines[j].height = h}
  <2>1. PICK q \in 1..Len(lines) : lines[q].height = h
    BY DEF LogTyped
  <2>2. S \subseteq Nat /\ S # {}
    BY <1>1, <2>1
  <2> HIDE DEF S
  <2>3. PICK i \in S : \A j \in S : i <= j
    BY <2>2, MinIsMember
  <2> QED
    BY <2>3 DEF Begins, S
<1>3. ASSUME NEW h \in 1..chain, NEW i, Begins(h, i) PROVE FirstTime(h) = lines[i].time
  <2> DEFINE T == {lines[j].time : j \in {k \in DOMAIN lines : lines[k].height = h}}
  <2>1. i \in 1..Len(lines) /\ lines[i].height = h
    BY <1>3 DEF Begins
  <2>2. \A j \in 1..Len(lines) : lines[j].time \in Nat
    BY DEF LogTyped
  <2>3. \A j \in 1..Len(lines) : lines[j].height = h => lines[i].time <= lines[j].time
    <3> SUFFICES ASSUME NEW j \in 1..Len(lines), lines[j].height = h
                 PROVE  lines[i].time <= lines[j].time
      OBVIOUS
    <3>1. i \in 1..j
      BY <1>3, <2>1 DEF Begins
    <3> QED
      BY <3>1 DEF LogTyped
  <2>4. lines[i].time \in T
    BY <1>1, <2>1
  <2>5. T \subseteq Nat /\ \A t \in T : lines[i].time <= t
    BY <1>1, <2>2, <2>3
  <2> HIDE DEF T
  <2>6. Min(T) \in T /\ \A t \in T : Min(T) <= t
    BY <2>4, <2>5, MinIsMember
  <2>7. PICK least \in T : least = Min(T)
    BY <2>6, Zenon
  <2>8. least = lines[i].time
    <3>1. PICK time \in T : time = lines[i].time
      BY <2>4, Zenon
    <3>2. least <= time /\ time <= least
      BY <2>5, <2>6, <2>7, <3>1
    <3>3. least \in Nat /\ time \in Nat
      BY <2>5
    <3> QED
      BY <3>1, <3>2, <3>3
  <2> QED
    BY <2>7, <2>8 DEF FirstTime, T
<1>4. ASSUME NEW h \in 1..chain PROVE FirstTime(h) \in Nat
  <2>1. PICK i : Begins(h, i)
    BY <1>2
  <2>2. lines[i].time \in Nat
    BY <2>1 DEF Begins, LogTyped
  <2> QED
    BY <1>3, <2>1, <2>2
<1> QED
  BY <1>2, <1>3, <1>4 DEF TimesKnown

\* A log that grows changes nothing of what has been counted.
LEMMA LogGrows ==
    ASSUME LogTyped, LogTyped', Len(lines) <= Len(lines'), chain <= chain',
           \A i \in 1..Len(lines) : lines'[i] = lines[i]
    PROVE  /\ \A h, i : Begins(h, i) => Begins(h, i)'
           /\ \A h \in 1..chain : FirstTime(h)' = FirstTime(h)
           /\ \A state : WholeState(state) => WholeState(state)'
<1>1. Len(lines) \in Nat /\ Len(lines') \in Nat /\ chain \in Nat /\ chain' \in Nat
  BY DEF LogTyped, IsList
<1>2. ASSUME NEW h, NEW i, Begins(h, i) PROVE Begins(h, i)'
  <2>1. i \in 1..Len(lines) /\ lines[i].height = h
    BY <1>2 DEF Begins
  <2>2. i \in 1..Len(lines') /\ lines'[i].height = h
    BY <1>1, <2>1
  <2>3. ASSUME NEW j \in 1..Len(lines'), lines'[j].height = h PROVE i <= j
    <3>1. CASE j \in 1..Len(lines)
      BY <1>2, <2>3, <3>1 DEF Begins
    <3>2. CASE ~(j \in 1..Len(lines))
      BY <1>1, <2>1, <3>2
    <3> QED
      BY <3>1, <3>2
  <2> QED
    BY <2>2, <2>3 DEF Begins
<1>3. ASSUME NEW h \in 1..chain PROVE FirstTime(h)' = FirstTime(h)
  <2>1. PICK i : Begins(h, i)
    BY Beginnings DEF TimesKnown
  <2>2. Begins(h, i)' /\ i \in 1..Len(lines) /\ h \in 1..chain'
    BY <1>1, <1>2, <2>1 DEF Begins
  <2>3. FirstTime(h) = lines[i].time
    BY <2>1, Beginnings DEF TimesKnown
  <2>4. TimesKnown'
    BY Beginnings, PTL
  <2>5. FirstTime(h)' = lines'[i].time
    BY <2>2, <2>4, Zenon DEF TimesKnown
  <2> QED
    BY <2>2, <2>3, <2>5
<1>4. ASSUME NEW h \in 2..chain PROVE IntervalTo(h)' = IntervalTo(h)
  <2>1. h \in 1..chain /\ h - 1 \in 1..chain
    BY <1>1
  <2>2. FirstTime(h)' = FirstTime(h) /\ FirstTime(h - 1)' = FirstTime(h - 1)
    BY <1>3, <2>1
  <2> QED
    BY <2>2 DEF IntervalTo
<1>5. ASSUME NEW state, WholeState(state) PROVE WholeState(state)'
  <2>1. state.height \in 1..chain /\ IsList(state.recent) /\ Len(state.recent) <= state.height - 1
    BY <1>5 DEF WholeState
  <2>2. \A c : {h \in 2..state.height : (Bucket(IntervalTo(h)) = c)'}
                  = {h \in 2..state.height : Bucket(IntervalTo(h)) = c}
    <3>1. \A h \in 2..state.height : h \in 2..chain
      BY <1>1, <2>1
    <3>2. \A h \in 2..state.height : IntervalTo(h)' = IntervalTo(h)
      BY <1>4, <3>1
    <3>3. \A h \in 2..state.height : Bucket(IntervalTo(h))' = Bucket(IntervalTo(h))
      BY <3>2 DEF Bucket
    <3> QED
      BY <3>3
  <2>3. ASSUME NEW k \in 1..Len(state.recent)
        PROVE  IntervalTo(state.height - Len(state.recent) + k)'
                   = IntervalTo(state.height - Len(state.recent) + k)
    <3>1. PICK n \in Nat, h \in 1..chain : n = Len(state.recent) /\ h = state.height
      BY <2>1 DEF IsList
    <3>2. n <= h - 1 /\ k \in 1..n
      BY <2>1, <3>1
    <3>3. h - n + k \in 2..chain
      BY <1>1, <3>2
    <3>4. state.height - Len(state.recent) + k \in 2..chain
      BY <3>1, <3>3
    <3> QED
      BY <1>4, <3>4
  <2>4. state.height \in 1..chain' /\ state.time = FirstTime(state.height)'
    BY <1>1, <1>3, <1>5, <2>1 DEF WholeState
  <2>5. state.buckets = [c \in 0..(Columns - 1) |->
            Cardinality({h \in 2..state.height : (Bucket(IntervalTo(h)) = c)'})]
    BY <1>5, <2>2 DEF WholeState
  <2>6. /\ Len(state.recent) >= RecentN \/ Len(state.recent) = state.height - 1
        /\ \A k \in 1..Len(state.recent) :
               state.recent[k] = IntervalTo(state.height - Len(state.recent) + k)'
    BY <1>5, <2>3 DEF WholeState
  <2> QED
    BY <2>1, <2>4, <2>5, <2>6, Zenon DEF WholeState
<1> QED
  BY <1>2, <1>3, <1>5

LEMMA SavedKeeps ==
    ASSUME LogTyped, LogTyped', Len(lines) <= Len(lines'), chain <= chain',
           \A i \in 1..Len(lines) : lines'[i] = lines[i],
           SavedWhole, UNCHANGED <<saved, known, gapless>>
    PROVE  SavedWhole'
<1> SUFFICES ASSUME saved # NoState, gapless PROVE SavedWhole'
  BY DEF SavedWhole
<1>1. Len(lines) \in Nat /\ Len(lines') \in Nat
  BY DEF LogTyped, IsList
<1>2. /\ WholeState(saved) /\ Len(saved.recent) <= RecentN
      /\ known \in 0..Len(lines)
      /\ \A i \in 1..known : lines[i].height <= saved.height
  BY DEF SavedWhole
<1>3. PICK state : state = saved /\ saved' = state
  OBVIOUS
<1>4. \A s : WholeState(s) => WholeState(s)'
  BY LogGrows
<1>5. WholeState(state)'
  BY <1>2, <1>3, <1>4, Zenon
<1>6. WholeState(saved)'
  BY <1>3, <1>5 DEF WholeState
<1>7. known \in 0..Len(lines') /\ \A i \in 1..known : lines'[i].height <= saved.height
  BY <1>1, <1>2
<1> QED
  BY <1>2, <1>6, <1>7, Zenon DEF SavedWhole

LEMMA DaemonKeeps ==
    ASSUME HistInv, LogTyped', Len(lines) <= Len(lines'), chain <= chain',
           \A i \in 1..Len(lines) : lines'[i] = lines[i],
           UNCHANGED <<saved, board, known, gapless>>
    PROVE  HistInv'
<1>1. LogTyped /\ SavedWhole /\ BoardWhole
  BY DEF HistInv
<1>2. Len(lines) \in Nat /\ Len(lines') \in Nat
  BY <1>1 DEF LogTyped, IsList
<1>3. /\ \A h, i : Begins(h, i) => Begins(h, i)'
      /\ \A state : WholeState(state) => WholeState(state)'
  BY <1>1, LogGrows
<1>4. SavedWhole'
  BY <1>1, SavedKeeps
<1>5. BoardWhole'
  <2> SUFFICES ASSUME board # Idle, board.gapless PROVE BoardWhole'
    BY DEF BoardWhole
  <2>1. Remaining /\ ((board.state = Fresh /\ board.new # {}) \/ WholeState(board.state))
    BY <1>1 DEF BoardWhole
  <2>2. PICK state : state = board.state /\ board'.state = state
    OBVIOUS
  <2>3. (board.state = Fresh /\ board.new # {}) \/ WholeState(state)'
    BY <1>3, <2>1, <2>2, Zenon
  <2>4. (board.state = Fresh /\ board.new # {}) \/ WholeState(board.state)'
    BY <2>2, <2>3 DEF WholeState
  <2>5. Remaining'
    <3>1. board.length \in 0..Len(lines') /\ \A l \in 1..board.length : l \in 1..Len(lines)
      BY <1>2, <2>1 DEF Remaining
    <3>2. \A i \in board.new : i \in 1..Len(lines) /\ lines'[i] = lines[i]
      BY <2>1 DEF Remaining, Begins
    <3>3. \A l \in 1..board.length : lines'[l] = lines[l]
      BY <3>1
    <3>4. ASSUME NEW i \in board.new
          PROVE  /\ i <= board.length /\ lines[i].height > 0
                 /\ lines[i].height > board.state.height /\ Begins(lines[i].height, i)'
      <4>1. PICK h : h = lines[i].height /\ lines'[i].height = h
        BY <3>2
      <4>2. i <= board.length /\ Begins(h, i) /\ h > 0 /\ h > board.state.height
        BY <2>1, <4>1 DEF Remaining
      <4>3. Begins(h, i)'
        BY <1>3, <4>2
      <4>4. Begins(lines[i].height, i)'
        BY <4>1, <4>3 DEF Begins
      <4> QED
        BY <4>1, <4>2, <4>4
    <3>5. \A l \in 1..board.length :
              lines'[l].height > 0 /\ lines'[l].height > board.state.height =>
                  \E i \in board.new : lines'[i].height = lines'[l].height
      <4>1. \A l \in 1..board.length :
                lines[l].height > 0 /\ lines[l].height > board.state.height =>
                    \E i \in board.new : lines[i].height = lines[l].height
        BY <2>1 DEF Remaining
      <4> QED
        BY <3>2, <3>3, <4>1
    <3>6. \A i \in board.new :
              /\ i <= board.length /\ Begins(lines[i].height, i)'
              /\ lines'[i].height > 0 /\ lines'[i].height > board.state.height
      BY <3>2, <3>4
    <3> HIDE DEF Begins
    <3> QED
      BY <3>1, <3>5, <3>6 DEF Remaining
  <2>6. Fresh' = Fresh
    BY DEF Fresh
  <2> QED
    BY <2>4, <2>5, <2>6 DEF BoardWhole
<1> QED
  BY <1>4, <1>5 DEF HistInv

\* What a daemon logs: blocks it has had, and perhaps the next one.
Logs(new) ==
    /\ IsList(new) /\ lines' = lines \o new
    /\ chain' \in {chain, chain + 1} /\ clock' \in Nat /\ clock <= clock'
    /\ \A l \in 1..Len(new) : new[l].height \in 0..chain' /\ new[l].time = clock'
    /\ chain' # chain => \E l \in 1..Len(new) : new[l].height = chain'

LEMMA Logged ==
    ASSUME LogTyped, NEW new, Logs(new)
    PROVE  /\ LogTyped' /\ Len(lines) <= Len(lines') /\ chain <= chain'
           /\ \A i \in 1..Len(lines) : lines'[i] = lines[i]
<1>1. PICK n \in Nat, m \in Nat : n = Len(lines) /\ m = Len(new)
  BY DEF LogTyped, Logs, IsList
<1>2. /\ IsList(lines') /\ Len(lines') = n + m
      /\ \A i \in 1..n : lines'[i] = lines[i]
      /\ \A l \in 1..m : lines'[n + l] = new[l]
  <2> DEFINE all == lines \o new
  <2>1. IsList(lines) /\ IsList(new)
    BY DEF LogTyped, Logs
  <2>2. /\ IsList(all) /\ Len(all) = Len(lines) + Len(new)
        /\ \A i \in 1..Len(lines) : all[i] = lines[i]
        /\ \A l \in 1..Len(new) : all[Len(lines) + l] = new[l]
    BY <2>1, Appended
  <2> HIDE DEF all
  <2>3. lines' = all
    BY DEF all, Logs
  <2> QED
    BY <1>1, <2>2, <2>3
<1>3. /\ chain \in Nat /\ chain' \in Nat /\ chain <= chain' /\ chain' <= chain + 1
      /\ clock \in Nat /\ clock' \in Nat /\ clock <= clock'
  BY DEF LogTyped, Logs
<1>4. \A l \in 1..m : new[l].height \in 0..chain' /\ new[l].time = clock'
  BY <1>1 DEF Logs
<1>5. \A h \in 1..chain : \E j \in 1..n : lines'[j].height = h
  BY <1>1, <1>2 DEF LogTyped
<1>6. \A h \in 1..chain' : \E j \in 1..(n + m) : lines'[j].height = h
  <2> SUFFICES ASSUME NEW h \in 1..chain', ~(h \in 1..chain)
               PROVE  \E j \in 1..(n + m) : lines'[j].height = h
    BY <1>1, <1>5
  <2>1. h = chain' /\ chain' # chain
    BY <1>3
  <2>2. PICK l \in 1..m : new[l].height = h
    BY <1>1, <2>1 DEF Logs
  <2>3. n + l \in 1..(n + m) /\ lines'[n + l].height = h
    BY <1>2, <2>2
  <2> QED
    BY <2>3
<1>7. ASSUME NEW i \in 1..(n + m), ~(i \in 1..n)
      PROVE  \E l \in 1..m : i = n + l /\ lines'[i] = new[l]
  <2>1. i - n \in 1..m /\ i = n + (i - n)
    BY <1>7
  <2> QED
    BY <1>2, <2>1
<1>8. ASSUME NEW i \in 1..(n + m)
      PROVE  /\ lines'[i].height \in 0..chain' /\ lines'[i].time \in 0..clock'
             /\ i \notin 1..n => lines'[i].time = clock'
             /\ \A h \in 1..lines'[i].height : \E j \in 1..i : lines'[j].height = h
  <2>1. CASE i \in 1..n
    <3>1. lines'[i] = lines[i] /\ \A j \in 1..i : j \in 1..n /\ lines'[j] = lines[j]
      BY <1>2, <2>1
    <3>2. /\ lines[i].height \in 0..chain /\ lines[i].time \in 0..clock
          /\ \A h \in 1..lines[i].height : \E j \in 1..i : lines[j].height = h
      BY <1>1, <2>1 DEF LogTyped
    <3>3. lines'[i].height \in 0..chain' /\ lines'[i].time \in 0..clock'
      BY <1>3, <3>1, <3>2
    <3>4. \A h \in 1..lines'[i].height : \E j \in 1..i : lines'[j].height = h
      BY <3>1, <3>2
    <3> QED
      BY <2>1, <3>3, <3>4
  <2>2. CASE i \notin 1..n
    <3>1. lines'[i].height \in 0..chain' /\ lines'[i].time = clock'
      BY <1>7, <1>4, <2>2
    <3>2. ASSUME NEW h \in 1..lines'[i].height PROVE \E j \in 1..i : lines'[j].height = h
      <4>1. CASE h \in 1..chain
        <5>1. \A j \in 1..n : j \in 1..i
          BY <2>2
        <5> QED
          BY <1>5, <4>1, <5>1
      <4>2. CASE ~(h \in 1..chain)
        <5>1. h = lines'[i].height
          BY <1>3, <3>1, <4>2
        <5> QED
          BY <5>1
      <4> QED
        BY <4>1, <4>2
    <3> QED
      BY <1>3, <2>2, <3>1, <3>2
  <2> QED
    BY <2>1, <2>2
<1>9. ASSUME NEW i \in 1..(n + m), NEW j \in 1..i PROVE lines'[j].time <= lines'[i].time
  <2>1. CASE i \in 1..n
    <3>1. lines'[i] = lines[i] /\ lines'[j] = lines[j]
      BY <1>2, <2>1
    <3> QED
      BY <1>1, <2>1, <3>1 DEF LogTyped
  <2>2. CASE i \notin 1..n
    <3>1. j \in 1..(n + m)
      OBVIOUS
    <3>2. lines'[i].time = clock' /\ lines'[j].time \in 0..clock'
      BY <1>8, <2>2, <3>1
    <3> QED
      BY <3>2
  <2> QED
    BY <2>1, <2>2
<1>10. /\ \A i \in 1..Len(lines') :
              /\ lines'[i].height \in 0..chain' /\ lines'[i].time \in 0..clock'
              /\ \A j \in 1..i : lines'[j].time <= lines'[i].time
              /\ \A h \in 1..lines'[i].height : \E j \in 1..i : lines'[j].height = h
       /\ \A h \in 1..chain' : \E j \in 1..Len(lines') : lines'[j].height = h
  BY <1>2, <1>6, <1>8, <1>9
<1>11. LogTyped'
  BY <1>2, <1>3, <1>10, Zenon DEF LogTyped
<1> QED
  BY <1>1, <1>2, <1>3, <1>11

LEMMA LogsKeeps ==
    ASSUME HistInv, NEW new, Logs(new), UNCHANGED <<saved, board, known, gapless>>
    PROVE  HistInv'
<1>1. LogTyped
  BY DEF HistInv
<1>2. /\ LogTyped' /\ Len(lines) <= Len(lines') /\ chain <= chain'
      /\ \A i \in 1..Len(lines) : lines'[i] = lines[i]
  BY <1>1, Logged
<1> QED
  BY <1>2, DaemonKeeps

LEMMA AppendedOne ==
    ASSUME NEW s, IsList(s), NEW e
    PROVE  /\ Append(s, e) = s \o <<e>> /\ IsList(<<e>>) /\ Len(<<e>>) = 1 /\ <<e>>[1] = e
           /\ IsList(Append(s, e)) /\ Len(Append(s, e)) = Len(s) + 1
           /\ \A i \in 1..Len(s) : Append(s, e)[i] = s[i]
           /\ Append(s, e)[Len(s) + 1] = e
<1> DEFINE S == {s[i] : i \in 1..Len(s)} \cup {e}
<1>1. s \in [1..Len(s) -> S] /\ Len(s) \in Nat
  BY DEF IsList
<1>2. s \in Seq(S) /\ e \in S
  BY <1>1
<1> HIDE DEF S
<1>3. Append(s, e) = s \o <<e>>
  BY <1>2, AppendIsConcat
<1>4. IsList(<<e>>) /\ Len(<<e>>) = 1 /\ <<e>>[1] = e
  BY DEF IsList
<1>5. /\ IsList(Append(s, e)) /\ Len(Append(s, e)) = Len(s) + 1
      /\ \A i \in 1..Len(s) : Append(s, e)[i] = s[i]
      /\ Append(s, e)[Len(s) + 1] = e
  BY <1>3, <1>4, Appended
<1> QED
  BY <1>3, <1>4, <1>5

LEMMA BlockAddedKeeps == HistInv /\ BlockAdded => HistInv'
<1> SUFFICES ASSUME HistInv, BlockAdded PROVE HistInv'
  OBVIOUS
<1>1. LogTyped /\ IsList(lines) /\ chain \in Nat /\ clock \in Nat
  BY DEF HistInv, LogTyped
<1>2. PICK e : /\ lines' = Append(lines, e) /\ e = [height |-> chain', time |-> clock']
               /\ chain' = chain + 1 /\ clock' \in Nat /\ clock <= clock'
               /\ UNCHANGED <<saved, board, known, gapless>>
  BY <1>1 DEF BlockAdded
<1>3. /\ lines' = lines \o <<e>> /\ IsList(<<e>>) /\ Len(<<e>>) = 1 /\ <<e>>[1] = e
  BY <1>1, <1>2, AppendedOne
<1>4. e.height = chain' /\ e.time = clock'
  BY <1>2
<1>5. Logs(<<e>>)
  BY <1>1, <1>2, <1>3, <1>4 DEF Logs
<1> QED
  BY <1>2, <1>5, LogsKeeps

LEMMA ChatterKeeps == HistInv /\ Chatter => HistInv'
<1> SUFFICES ASSUME HistInv, Chatter PROVE HistInv'
  OBVIOUS
<1>1. LogTyped /\ IsList(lines) /\ chain \in Nat /\ clock \in Nat
  BY DEF HistInv, LogTyped
<1>2. PICK e : /\ lines' = Append(lines, e) /\ e = [height |-> 0, time |-> clock]
               /\ UNCHANGED <<chain, clock, saved, board, known, gapless>>
  BY <1>1 DEF Chatter
<1>3. /\ lines' = lines \o <<e>> /\ IsList(<<e>>) /\ Len(<<e>>) = 1 /\ <<e>>[1] = e
  BY <1>1, <1>2, AppendedOne
<1>4. e.height = 0 /\ e.time = clock
  BY <1>2
<1>5. Logs(<<e>>)
  BY <1>1, <1>2, <1>3, <1>4 DEF Logs
<1> QED
  BY <1>2, <1>5, LogsKeeps

LEMMA ReorganiseKeeps == ASSUME HistInv, NEW depth \in 1..2, Reorganise(depth) PROVE HistInv'
<1>1. LogTyped /\ IsList(lines) /\ chain \in Nat /\ clock \in Nat
  BY DEF HistInv, LogTyped
<1>2. PICK new : /\ lines' = lines \o new
                 /\ new = [i \in 1..(depth + 1) |-> [height |-> chain - depth + i, time |-> clock']]
                 /\ depth < chain /\ chain' = chain + 1 /\ clock' = clock + 1
                 /\ UNCHANGED <<saved, board, known, gapless>>
  BY DEF Reorganise
<1>3. /\ DOMAIN new = 1..(depth + 1) /\ new = [l \in 1..(depth + 1) |-> new[l]]
      /\ \A l \in 1..(depth + 1) : new[l].height = chain - depth + l /\ new[l].time = clock'
  BY <1>2
<1>4. IsList(new) /\ Len(new) = depth + 1
  BY <1>3, ListOf
<1>5. \A l \in 1..(depth + 1) : chain - depth + l \in 0..chain'
  BY <1>1, <1>2
<1>6. depth + 1 \in 1..(depth + 1) /\ chain - depth + (depth + 1) = chain'
  BY <1>1, <1>2
<1>7. Logs(new)
  <2>1. \A l \in 1..Len(new) : new[l].height \in 0..chain' /\ new[l].time = clock'
    BY <1>3, <1>4, <1>5
  <2>2. \E l \in 1..Len(new) : new[l].height = chain'
    BY <1>3, <1>4, <1>6
  <2> QED
    BY <1>1, <1>2, <1>4, <2>1, <2>2 DEF Logs
<1> QED
  BY <1>2, <1>7, LogsKeeps

\* A log that stays as it is.
LEMMA LogStays ==
    ASSUME HistInv, UNCHANGED <<lines, chain, clock>>
    PROVE  /\ LogTyped' /\ \A h, i : Begins(h, i)' <=> Begins(h, i)
           /\ \A state : WholeState(state) => WholeState(state)'
           /\ UNCHANGED <<saved, known, gapless>> => SavedWhole'
<1>1. LogTyped /\ SavedWhole
  BY DEF HistInv
<1>2. LogTyped'
  <2>1. lines' = lines /\ chain' = chain /\ clock' = clock
    OBVIOUS
  <2>2. /\ IsList(lines') /\ chain' \in Nat /\ clock' \in Nat
        /\ \A h \in 1..chain' : \E j \in 1..Len(lines') : lines'[j].height = h
    BY <1>1, <2>1 DEF LogTyped
  <2>3. \A i \in 1..Len(lines') :
            /\ lines'[i].height \in 0..chain' /\ lines'[i].time \in 0..clock'
            /\ \A j \in 1..i : lines'[j].time <= lines'[i].time
            /\ \A h \in 1..lines'[i].height : \E j \in 1..i : lines'[j].height = h
    <3>1. \A i \in 1..Len(lines) :
              /\ lines[i].height \in 0..chain /\ lines[i].time \in 0..clock
              /\ \A j \in 1..i : lines[j].time <= lines[i].time
              /\ \A h \in 1..lines[i].height : \E j \in 1..i : lines[j].height = h
      BY <1>1 DEF LogTyped
    <3> QED
      BY <2>1, <3>1
  <2> QED
    BY <2>2, <2>3, Zenon DEF LogTyped
<1>3. /\ Len(lines) <= Len(lines') /\ chain <= chain'
      /\ \A i \in 1..Len(lines) : lines'[i] = lines[i]
  BY <1>1 DEF LogTyped, IsList
<1>4. \A h, i : Begins(h, i)' <=> Begins(h, i)
  BY DEF Begins
<1>5. \A state : WholeState(state) => WholeState(state)'
  BY <1>1, <1>2, <1>3, LogGrows
<1>6. UNCHANGED <<saved, known, gapless>> => SavedWhole'
  BY <1>1, <1>2, <1>3, SavedKeeps
<1> QED
  BY <1>2, <1>4, <1>5, <1>6

LEMMA ReadTailKeeps == HistInv /\ ReadTail => HistInv'
<1> SUFFICES ASSUME HistInv, ReadTail PROVE HistInv'
  OBVIOUS
<1> DEFINE seen == Blocks(Window)
<1>1. /\ LogTyped /\ SavedWhole /\ seen # {}
      /\ DOMAIN lines = 1..Len(lines) /\ Len(lines) \in Nat
      /\ UNCHANGED <<lines, chain, clock, saved, known, gapless>>
      /\ board' = [state |-> State, new |-> FirstOf(State, seen), length |-> Len(lines),
                   gapless |-> Reaches /\ (saved = NoState \/ gapless)]
  BY DEF HistInv, ReadTail, LogTyped, IsList
<1>2. /\ LogTyped' /\ SavedWhole' /\ \A h, i : Begins(h, i)' <=> Begins(h, i)
      /\ \A state : WholeState(state) => WholeState(state)'
  BY <1>1, LogStays
<1>3. BoardWhole'
  <2> SUFFICES ASSUME Reaches, saved = NoState \/ gapless PROVE BoardWhole'
    BY <1>1 DEF BoardWhole
  <2>1. PICK state, new : /\ state = State /\ new = FirstOf(State, seen)
                          /\ board'.state = state /\ board'.new = new /\ board'.length = Len(lines)
    BY <1>1
  <2>2. seen \subseteq 1..Len(lines) /\ \A i \in seen : lines[i].height > 0
    BY <1>1 DEF Blocks, Within
  <2>3. state = Fresh \/ (state = saved /\ saved # NoState /\ gapless)
    BY <2>1 DEF State
  <2>4. ASSUME NEW l \in 1..Len(lines), lines[l].height > 0, lines[l].height > state.height
        PROVE  l \in seen
    <3>1. l \in DOMAIN lines /\ (saved # NoState => l > known)
      <4>1. CASE saved = NoState
        BY <1>1, <4>1
      <4>2. CASE saved # NoState
        <5>1. state = saved /\ gapless
          BY <2>1, <4>2 DEF State
        <5>2. known \in 0..Len(lines) /\ \A i \in 1..known : lines[i].height <= saved.height
          BY <1>1, <4>2, <5>1 DEF SavedWhole
        <5>3. saved.height \in Nat /\ lines[l].height \in Nat
          BY <1>1, <4>2, <5>1 DEF SavedWhole, WholeState, LogTyped
        <5>4. ~(l \in 1..known)
          BY <2>4, <5>1, <5>2, <5>3
        <5> QED
          BY <1>1, <5>2, <5>4
      <4> QED
        BY <4>1, <4>2
    <3>2. l \in Within(Window)
      BY <3>1, Zenon DEF Reaches
    <3> QED
      BY <2>4, <3>2 DEF Blocks
  <2> HIDE DEF seen
  <2>5. \A l \in seen : lines[l].height > state.height =>
            \E i \in new : lines[i].height = lines[l].height
    <3> SUFFICES ASSUME NEW l \in seen, lines[l].height > state.height
                 PROVE  \E i \in new : lines[i].height = lines[l].height
      OBVIOUS
    <3> DEFINE S == {j \in seen : lines[j].height = lines[l].height}
    <3>1. S \subseteq Nat /\ S # {}
      <4>1. \A i \in seen : i \in Nat
        BY <1>1, <2>2
      <4>2. l \in S
        OBVIOUS
      <4> QED
        BY <4>1, <4>2
    <3> HIDE DEF S
    <3>2. PICK i \in S : \A j \in S : i <= j
      BY <3>1, MinIsMember
    <3>3. /\ i \in seen /\ lines[i].height = lines[l].height
          /\ \A j \in seen : lines[j].height = lines[i].height => i <= j
      BY <3>2 DEF S
    <3>4. i \in new
      BY <2>1, <3>3 DEF FirstOf
    <3> QED
      BY <3>3, <3>4
  <2>6. ASSUME NEW i \in new
        PROVE  /\ i \in seen /\ lines[i].height > state.height /\ Begins(lines[i].height, i)
    <3>1. /\ i \in seen /\ lines[i].height > state.height
          /\ \A j \in seen : lines[j].height = lines[i].height => i <= j
      BY <2>1 DEF FirstOf
    <3>2. ASSUME NEW j \in 1..Len(lines), lines[j].height = lines[i].height PROVE i <= j
      BY <2>2, <2>4, <3>1, <3>2
    <3> QED
      BY <2>2, <3>1, <3>2 DEF Begins
  <2>7. Remaining'
    <3>1. board'.length \in 0..Len(lines')
      BY <1>1, <2>1
    <3>2. \A l \in 1..Len(lines) : lines[l].height > 0 /\ lines[l].height > state.height =>
              \E i \in new : lines[i].height = lines[l].height
      BY <2>4, <2>5
    <3>3. ASSUME NEW i \in new
          PROVE  /\ i <= Len(lines) /\ Begins(lines[i].height, i)'
                 /\ lines[i].height > 0 /\ lines[i].height > state.height
      <4>1. PICK h : h = lines[i].height /\ lines'[i].height = h
        BY <1>1
      <4>2. Begins(h, i)'
        BY <1>2, <2>6, <4>1
      <4>3. Begins(lines[i].height, i)'
        BY <4>1, <4>2 DEF Begins
      <4>4. i \in 1..Len(lines)
        BY <2>2, <2>6
      <4> QED
        BY <1>1, <2>2, <2>6, <4>3, <4>4
    <3> HIDE DEF Begins
    <3> QED
      BY <1>1, <2>1, <3>1, <3>2, <3>3 DEF Remaining
  <2>8. (board.state = Fresh /\ board.new # {})' \/ WholeState(board.state)'
    <3>1. CASE state = Fresh
      <4>1. PICK l \in seen : lines[l].height > 0
        BY <1>1, <2>2
      <4>2. lines[l].height \in Nat /\ state.height = -1
        BY <1>1, <2>2, <3>1 DEF LogTyped, Fresh
      <4>3. new # {}
        BY <2>5, <4>1, <4>2
      <4> QED
        BY <2>1, <3>1, <4>3 DEF Fresh
    <3>2. CASE state = saved /\ saved # NoState /\ gapless
      <4>1. WholeState(state)
        BY <1>1, <3>2 DEF SavedWhole
      <4>2. WholeState(state)'
        BY <1>2, <4>1
      <4> QED
        BY <2>1, <4>2 DEF WholeState
    <3> QED
      BY <2>3, <3>1, <3>2
  <2> QED
    BY <2>7, <2>8 DEF BoardWhole
<1> QED
  BY <1>2, <1>3 DEF HistInv

\* A list with one more element.
Extended(r, s, e) ==
    /\ IsList(r) /\ Len(r) = Len(s) + 1 /\ r[Len(s) + 1] = e
    /\ \A i \in 1..Len(s) : r[i] = s[i]

LEMMA AppendExtends == \A s, e : IsList(s) => Extended(Append(s, e), s, e)
<1> SUFFICES ASSUME NEW s, NEW e, IsList(s) PROVE Extended(Append(s, e), s, e)
  OBVIOUS
<1> QED
  BY AppendedOne, Zenon DEF Extended

\* What is counted of the next block.
LEMMA CountedNext ==
    ASSUME LogTyped, NEW state, WholeState(state), NEW i, Begins(state.height + 1, i),
           state.height + 1 \in 1..chain
    PROVE  Counted(state, i).height = state.height + 1 /\ WholeState(Counted(state, i))
<1>1. PICK h \in 1..chain : h = state.height /\ h + 1 \in 1..chain /\ Begins(h + 1, i)
  BY DEF WholeState
<1>2. /\ FirstTime(h) \in Nat /\ FirstTime(h + 1) \in Nat
      /\ lines[i].time = FirstTime(h + 1) /\ lines[i].height = h + 1
  <2>1. lines[i].height = h + 1
    BY <1>1 DEF Begins
  <2> QED
    BY <1>1, <2>1, Beginnings DEF TimesKnown
<1>3. state.time = FirstTime(h) /\ state.time # -1
  BY <1>1, <1>2 DEF WholeState
<1>4. PICK interval \in Int : interval = FirstTime(h + 1) - FirstTime(h)
                              /\ interval = lines[i].time - state.time
  BY <1>2, <1>3
<1>5. IntervalTo(h + 1) = interval
  <2>1. h + 1 - 1 = h
    BY <1>1
  <2> QED
    BY <1>4, <2>1 DEF IntervalTo
<1>6. PICK next : next = Counted(state, i)
  OBVIOUS
<1>7. next = [height |-> lines[i].height, time |-> lines[i].time,
              buckets |-> [state.buckets EXCEPT ![Bucket(interval)] = @ + 1],
              recent |-> Append(state.recent, interval)]
  BY <1>3, <1>4, <1>6 DEF Counted
<1>8. /\ next = Counted(state, i) /\ next.height = h + 1
      /\ next.time = FirstTime(h + 1)
      /\ next.buckets = [state.buckets EXCEPT ![Bucket(interval)] = @ + 1]
      /\ next.recent = Append(state.recent, interval)
  BY <1>2, <1>6, <1>7
<1>9. next.buckets = [c \in 0..(Columns - 1) |->
                         Cardinality({k \in 2..(h + 1) : Bucket(IntervalTo(k)) = c})]
  <2> DEFINE In(c) == {l \in 2..h : Bucket(IntervalTo(l)) = c}
             Then(c) == {l \in 2..(h + 1) : Bucket(IntervalTo(l)) = c}
  <2>1. Bucket(interval) \in 0..(Columns - 1)
    BY HistogramAssumption DEF Bucket
  <2>2. state.buckets = [c \in 0..(Columns - 1) |-> Cardinality(In(c))]
    BY <1>1 DEF WholeState
  <2>3. h + 1 \in 2..(h + 1) /\ h + 1 \notin 2..h /\ \A l \in 2..(h + 1) : l \in 2..h \/ l = h + 1
    BY <1>1
  <2>4. \A l \in 2..h : l \in 2..(h + 1)
    BY <1>1
  <2>5. ASSUME NEW c, c # Bucket(interval) PROVE Then(c) = In(c)
    BY <1>5, <2>3, <2>4, <2>5
  <2>6. Then(Bucket(interval)) = In(Bucket(interval)) \cup {h + 1}
    BY <1>5, <2>3, <2>4
  <2>7. IsFiniteSet(In(Bucket(interval)))
    <3>1. IsFiniteSet(2..h)
      BY <1>1, FS_Interval
    <3>2. In(Bucket(interval)) \subseteq 2..h
      OBVIOUS
    <3> QED
      BY <3>1, <3>2, FS_Subset
  <2>8. h + 1 \notin In(Bucket(interval))
    BY <2>3
  <2> HIDE DEF In, Then
  <2>9. Cardinality(Then(Bucket(interval))) = Cardinality(In(Bucket(interval))) + 1
    BY <2>6, <2>7, <2>8, FS_AddElement
  <2>10. next.buckets = [c \in 0..(Columns - 1) |-> Cardinality(Then(c))]
    <3>1. PICK b \in 0..(Columns - 1) : b = Bucket(interval)
      BY <2>1
    <3>2. next.buckets = [c \in 0..(Columns - 1) |->
                             IF c = b THEN Cardinality(In(b)) + 1 ELSE Cardinality(In(c))]
      BY <1>8, <2>2, <3>1
    <3>3. \A c \in 0..(Columns - 1) :
              Cardinality(Then(c))
                  = IF c = b THEN Cardinality(In(b)) + 1 ELSE Cardinality(In(c))
      BY <2>5, <2>9, <3>1
    <3> QED
      BY <3>2, <3>3
  <2> QED
    BY <2>10 DEF Then
<1>10. PICK n \in Nat : n = Len(state.recent) /\ n <= h - 1 /\ IsList(state.recent)
  BY <1>1 DEF WholeState, IsList
<1>11. /\ IsList(next.recent) /\ Len(next.recent) = n + 1
       /\ \A k \in 1..n : next.recent[k] = state.recent[k]
       /\ next.recent[n + 1] = interval
  <2>1. PICK recent : recent = state.recent
    OBVIOUS
  <2>2. IsList(recent) /\ Len(recent) = n /\ next.recent = Append(recent, interval)
    BY <1>8, <1>10, <2>1
  <2>3. Extended(next.recent, recent, interval)
    BY <2>2, AppendExtends, Zenon
  <2> QED
    BY <2>1, <2>2, <2>3 DEF Extended
<1>12. n + 1 >= RecentN \/ n + 1 = (h + 1) - 1
  <2>1. n >= RecentN \/ n = h - 1
    BY <1>1, <1>10 DEF WholeState
  <2>2. RecentN \in Nat
    BY HistogramAssumption
  <2> QED
    BY <1>1, <2>1, <2>2
<1>13. ASSUME NEW k \in 1..(n + 1)
       PROVE  next.recent[k] = IntervalTo((h + 1) - (n + 1) + k)
  <2>1. CASE k \in 1..n
    <3>1. state.recent[k] = IntervalTo(h - n + k)
      BY <1>1, <1>10, <2>1 DEF WholeState
    <3>2. (h + 1) - (n + 1) + k = h - n + k
      BY <1>1
    <3> QED
      BY <1>11, <2>1, <3>1, <3>2
  <2>2. CASE k = n + 1
    <3>1. (h + 1) - (n + 1) + k = h + 1
      BY <1>1, <2>2
    <3>2. next.recent[n + 1] = interval
      BY <1>11
    <3>3. next.recent[k] = next.recent[n + 1]
      BY <2>2
    <3> QED
      BY <1>5, <3>1, <3>2, <3>3
  <2> QED
    BY <2>1, <2>2
<1>14. WholeState(next)
  <2>1. /\ next.height \in 1..chain /\ next.time = FirstTime(next.height)
        /\ IsList(next.recent) /\ Len(next.recent) <= next.height - 1
        /\ Len(next.recent) >= RecentN \/ Len(next.recent) = next.height - 1
    BY <1>1, <1>8, <1>10, <1>11, <1>12
  <2>2. \A k \in 1..Len(next.recent) :
            next.recent[k] = IntervalTo(next.height - Len(next.recent) + k)
    BY <1>8, <1>11, <1>13
  <2> QED
    BY <1>8, <1>9, <2>1, <2>2 DEF WholeState
<1> QED
  BY <1>1, <1>8, <1>14

\* ... and of the first.
LEMMA CountedFirst ==
    ASSUME LogTyped, NEW i, Begins(1, i), 1 \in 1..chain
    PROVE  Counted(Fresh, i).height = 1 /\ WholeState(Counted(Fresh, i))
<1>1. lines[i].height = 1 /\ lines[i].time = FirstTime(1)
  BY Beginnings DEF TimesKnown, Begins
<1>2. PICK next : next = Counted(Fresh, i)
  OBVIOUS
<1>3. Fresh.time = -1 /\ Fresh.buckets = [c \in 0..(Columns - 1) |-> 0] /\ Fresh.recent = <<>>
  BY DEF Fresh
<1>4. next = [height |-> lines[i].height, time |-> lines[i].time,
              buckets |-> Fresh.buckets, recent |-> Fresh.recent]
  BY <1>2, <1>3 DEF Counted
<1>5. /\ next = Counted(Fresh, i) /\ next.height = 1 /\ next.time = FirstTime(1)
      /\ next.buckets = [c \in 0..(Columns - 1) |-> 0] /\ next.recent = <<>>
  BY <1>1, <1>2, <1>3, <1>4
<1>6. \A c : Cardinality({k \in 2..1 : Bucket(IntervalTo(k)) = c}) = 0
  <2>1. \A c : {k \in 2..1 : Bucket(IntervalTo(k)) = c} = {}
    OBVIOUS
  <2> QED
    BY <2>1, FS_EmptySet
<1>7. IsList(next.recent) /\ Len(next.recent) = 0
  BY <1>5 DEF IsList
<1> QED
  BY <1>5, <1>6, <1>7 DEF WholeState

LEMMA CountBlockKeeps == HistInv /\ CountBlock => HistInv'
<1> SUFFICES ASSUME HistInv, CountBlock PROVE HistInv'
  OBVIOUS
<1>1. /\ LogTyped /\ BoardWhole /\ board # Idle
      /\ DOMAIN lines = 1..Len(lines) /\ Len(lines) \in Nat /\ chain \in Nat
      /\ UNCHANGED <<lines, chain, clock, saved, known, gapless>>
  BY DEF HistInv, CountBlock, LogTyped, IsList
<1>2. PICK i \in board.new :
          /\ \A j \in board.new : \/ lines[i].height < lines[j].height
                                  \/ lines[i].height = lines[j].height /\ i <= j
          /\ board' = [state |-> Counted(board.state, i), new |-> board.new \ {i},
                       length |-> board.length, gapless |-> board.gapless]
  BY DEF CountBlock
<1>3. /\ LogTyped' /\ SavedWhole' /\ \A h, j : Begins(h, j)' <=> Begins(h, j)
      /\ \A state : WholeState(state) => WholeState(state)'
  BY <1>1, LogStays
<1>4. BoardWhole'
  <2> SUFFICES ASSUME board.gapless PROVE BoardWhole'
    BY <1>2 DEF BoardWhole
  <2>1. PICK state, new, length :
            /\ state = board.state /\ new = board.new /\ length = board.length
    OBVIOUS
  <2>2. PICK next : /\ next = Counted(state, i) /\ board'.state = next
                    /\ board'.new = new \ {i} /\ board'.length = length
    BY <1>2, <2>1
  <2>3. /\ length \in 0..Len(lines)
        /\ \A l \in 1..length : lines[l].height > 0 /\ lines[l].height > state.height =>
               \E j \in new : lines[j].height = lines[l].height
        /\ \A j \in new : /\ j <= length /\ Begins(lines[j].height, j)
                          /\ lines[j].height > 0 /\ lines[j].height > state.height
        /\ state = Fresh \/ WholeState(state)
    BY <1>1, <2>1 DEF BoardWhole, Remaining
  <2>4. PICK low \in 0..chain :
            /\ low = IF state = Fresh THEN 0 ELSE state.height
            /\ \A h \in 1..chain : h > state.height <=> h > low
            /\ state = Fresh => low = 0
            /\ state # Fresh => low = state.height /\ low >= 1
    <3>1. CASE state = Fresh
      <4>1. state.height = -1
        BY <3>1 DEF Fresh
      <4>2. \A h \in 1..chain : h > state.height <=> h > 0
        BY <4>1
      <4> QED
        BY <1>1, <3>1, <4>2
    <3>2. CASE state # Fresh
      <4>1. state.height \in 1..chain
        BY <2>3, <3>2 DEF WholeState
      <4> QED
        BY <1>1, <3>2, <4>1
    <3> QED
      BY <3>1, <3>2
  <2>5. \A j \in new : /\ j \in 1..length /\ j \in 1..Len(lines)
                       /\ lines[j].height \in 1..chain /\ lines[j].height > low
    <3> SUFFICES ASSUME NEW j \in new
                 PROVE  /\ j \in 1..length /\ j \in 1..Len(lines)
                        /\ lines[j].height \in 1..chain /\ lines[j].height > low
      OBVIOUS
    <3>1. j \in 1..Len(lines) /\ j <= length
      BY <2>3 DEF Begins
    <3>2. lines[j].height \in 0..chain /\ lines[j].height > 0
      BY <1>1, <2>3, <3>1 DEF LogTyped
    <3>3. lines[j].height \in 1..chain
      BY <3>2
    <3> QED
      BY <2>3, <2>4, <3>1, <3>3
  <2>6. lines[i].height = low + 1 /\ low + 1 \in 1..chain
    <3>1. PICK h \in 1..chain : h = lines[i].height /\ h > low
      BY <2>1, <2>5
    <3>2. low + 1 \in 1..h /\ low + 1 \in 1..chain
      <4>1. h \in Nat /\ h <= chain /\ low \in Nat
        BY <1>1, <2>4, <3>1
      <4> QED
        BY <1>1, <3>1, <4>1
    <3>3. PICK l \in 1..i : lines[l].height = low + 1
      BY <1>1, <2>1, <2>5, <3>1, <3>2 DEF LogTyped
    <3>4. l \in 1..length
      <4>1. i \in 1..length /\ length \in Nat
        BY <1>1, <2>1, <2>3, <2>5
      <4> QED
        BY <3>3, <4>1
    <3>5. lines[l].height > 0 /\ lines[l].height > state.height
      BY <2>4, <3>2, <3>3
    <3>6. PICK j \in new : lines[j].height = low + 1
      BY <2>3, <3>3, <3>4, <3>5
    <3>7. ~(lines[i].height > low + 1)
      BY <1>2, <2>1, <3>1, <3>6
    <3> QED
      BY <3>1, <3>2, <3>7
  <2>7. next.height = low + 1 /\ WholeState(next)
    <3>1. Begins(low + 1, i)
      BY <2>1, <2>3, <2>6
    <3>2. CASE state = Fresh
      <4>1. low + 1 = 1
        BY <2>4, <3>2
      <4> QED
        BY <1>1, <2>2, <2>6, <3>1, <3>2, <4>1, CountedFirst
    <3>3. CASE state # Fresh
      <4>1. state.height = low /\ WholeState(state)
        BY <2>3, <2>4, <3>3
      <4> QED
        BY <1>1, <2>2, <2>6, <3>1, <4>1, CountedNext
    <3> QED
      BY <3>2, <3>3
  <2>8. Remaining'
    <3>1. ASSUME NEW l \in 1..length, lines[l].height > 0, lines[l].height > next.height
          PROVE  \E j \in new \ {i} : lines[j].height = lines[l].height
      <4>1. lines[l].height \in 1..chain
        BY <1>1, <2>3, <3>1 DEF LogTyped
      <4>2. lines[l].height > low
        BY <2>7, <3>1, <4>1
      <4>3. PICK j \in new : lines[j].height = lines[l].height
        BY <2>3, <2>4, <3>1, <4>1, <4>2
      <4>4. j # i
        BY <2>6, <2>7, <3>1, <4>1, <4>3
      <4> QED
        BY <4>3, <4>4
    <3>2. ASSUME NEW j \in new \ {i}
          PROVE  /\ j <= length /\ Begins(lines[j].height, j)'
                 /\ lines[j].height > 0 /\ lines[j].height > next.height
      <4>1. PICK h \in 1..chain : h = lines[j].height /\ h > low
        BY <2>5
      <4>2. Begins(h, j)
        BY <2>3, <4>1
      <4>3. h # low + 1
        <5> SUFFICES ASSUME h = low + 1 PROVE FALSE
          OBVIOUS
        <5>1. Begins(h, i)
          BY <2>1, <2>3, <2>6
        <5>2. i \in 1..Len(lines) /\ j \in 1..Len(lines) /\ i <= j /\ j <= i
          BY <4>2, <5>1 DEF Begins
        <5> QED
          BY <5>2
      <4>4. Begins(h, j)'
        BY <1>3, <4>2
      <4>5. Begins(lines[j].height, j)'
        BY <1>1, <4>1, <4>4 DEF Begins
      <4> QED
        BY <2>3, <2>7, <4>1, <4>3, <4>5
    <3> HIDE DEF Begins
    <3> QED
      BY <1>1, <2>2, <2>3, <3>1, <3>2 DEF Remaining
  <2>9. WholeState(board.state)'
    <3>1. WholeState(next)'
      BY <1>3, <2>7
    <3> QED
      BY <2>2, <3>1 DEF WholeState
  <2> QED
    BY <2>8, <2>9 DEF BoardWhole
<1> QED
  BY <1>3, <1>4 DEF HistInv

\* The last numbers of a list.
LEMMA LastOf ==
    ASSUME NEW s, IsList(s), NEW n \in Nat
    PROVE  /\ IsList(LastN(s, n)) /\ Len(LastN(s, n)) = IF Len(s) > n THEN n ELSE Len(s)
           /\ \A k \in 1..Len(LastN(s, n)) : LastN(s, n)[k] = s[Len(s) - Len(LastN(s, n)) + k]
<1>1. Len(s) \in Nat /\ DOMAIN s = 1..Len(s)
  BY DEF IsList
<1>2. CASE ~(Len(s) > n)
  <2>1. LastN(s, n) = s
    BY <1>2 DEF LastN
  <2> QED
    BY <1>1, <1>2, <2>1
<1>3. CASE Len(s) > n
  <2> DEFINE S == {s[i] : i \in 1..Len(s)}
  <2>1. Len(s) - n + 1 \in Int /\ Len(s) \in Int
    BY <1>1
  <2>2. PICK a \in Int, b \in Int : a = Len(s) - n + 1 /\ b = Len(s)
    BY <2>1, Zenon
  <2>3. PICK r : r = SubSeq(s, a, b) /\ r = LastN(s, n)
    BY <1>3, <2>2 DEF LastN
  <2>4. \A i \in a..b : s[i] \in S
    BY <1>1, <1>3, <2>2
  <2> HIDE DEF S
  <2>5. /\ r \in Seq(S) /\ Len(r) = (IF a <= b THEN b - a + 1 ELSE 0)
        /\ \A i \in 1..(b - a + 1) : r[i] = s[a + i - 1]
    <3>1. r = SubSeq(s, a, b)
      BY <2>3
    <3>2. /\ SubSeq(s, a, b) \in Seq(S)
          /\ Len(SubSeq(s, a, b)) = IF a <= b THEN b - a + 1 ELSE 0
          /\ \A i \in 1..(b - a + 1) : SubSeq(s, a, b)[i] = s[a + i - 1]
      BY <2>4, SubSeqProperties
    <3> QED
      BY <3>1, <3>2, Zenon
  <2>6. Len(r) = n
    BY <1>1, <2>2, <2>5
  <2>7. IsList(r)
    <3>1. \A q \in Seq(S) : Len(q) \in Nat /\ q = [i \in 1..Len(q) |-> q[i]]
      OBVIOUS
    <3> QED
      BY <2>5, <3>1, Zenon DEF IsList
  <2>8. \A k \in 1..n : r[k] = s[Len(s) - n + k]
    <3> SUFFICES ASSUME NEW k \in 1..n PROVE r[k] = s[Len(s) - n + k]
      OBVIOUS
    <3>1. k \in 1..(b - a + 1) /\ a + k - 1 = Len(s) - n + k
      BY <1>1, <2>2
    <3> QED
      BY <2>5, <3>1
  <2> QED
    BY <1>3, <2>3, <2>6, <2>7, <2>8
<1> QED
  BY <1>2, <1>3

\* A list that ends another.
Concludes(r, s, n) ==
    /\ IsList(r) /\ Len(r) = IF Len(s) > n THEN n ELSE Len(s)
    /\ \A k \in 1..Len(r) : r[k] = s[Len(s) - Len(r) + k]

LEMMA LastEnds == \A s : \A n \in Nat : IsList(s) => Concludes(LastN(s, n), s, n)
<1> SUFFICES ASSUME NEW s, NEW n \in Nat, IsList(s) PROVE Concludes(LastN(s, n), s, n)
  OBVIOUS
<1> QED
  BY LastOf, Zenon DEF Concludes

LEMMA SaveStateKeeps == HistInv /\ SaveState => HistInv'
<1> SUFFICES ASSUME HistInv, SaveState PROVE HistInv'
  OBVIOUS
<1>1. /\ LogTyped /\ SavedWhole /\ BoardWhole /\ board # Idle /\ board.new = {}
      /\ DOMAIN lines = 1..Len(lines) /\ Len(lines) \in Nat
      /\ UNCHANGED <<lines, chain, clock>> /\ board' = Idle
  BY DEF HistInv, SaveState, LogTyped, IsList
<1>2. PICK state : /\ state = Trimmed(board.state)
                   /\ saved' \in {state, saved, NoState}
                   /\ known' = (IF saved' = state THEN board.length ELSE known)
                   /\ gapless' = (IF saved' = state THEN board.gapless ELSE gapless)
  BY DEF SaveState
<1>3. /\ LogTyped' /\ (\A s : WholeState(s) => WholeState(s)')
      /\ (UNCHANGED <<saved, known, gapless>> => SavedWhole')
  BY <1>1, LogStays
<1>4. BoardWhole'
  BY <1>1 DEF BoardWhole
<1>5. CASE saved' = state
  <2> SUFFICES ASSUME board.gapless PROVE SavedWhole'
    BY <1>2, <1>3, <1>4, <1>5 DEF HistInv, SavedWhole
  <2>1. PICK full : full = board.state /\ WholeState(full) /\ Remaining
    BY <1>1 DEF BoardWhole
  <2>2. PICK h \in 1..chain : h = full.height
    BY <2>1 DEF WholeState
  <2>3. /\ state.height = h /\ state.time = full.time /\ state.buckets = full.buckets
        /\ state.recent = LastN(full.recent, RecentN)
    BY <1>2, <2>1, <2>2 DEF Trimmed
  <2>4. PICK n \in Nat : n = Len(full.recent) /\ IsList(full.recent) /\ n <= h - 1
                         /\ (n >= RecentN \/ n = h - 1)
    BY <2>1, <2>2 DEF WholeState, IsList
  <2>5. RecentN \in Nat
    BY HistogramAssumption
  <2>6. PICK m \in Nat :
            /\ m = Len(state.recent) /\ IsList(state.recent)
            /\ m = (IF n > RecentN THEN RecentN ELSE n)
            /\ \A k \in 1..m : state.recent[k] = full.recent[n - m + k]
    <3>1. Concludes(state.recent, full.recent, RecentN)
      BY <2>3, <2>4, <2>5, LastEnds, Zenon
    <3> QED
      BY <2>4, <2>5, <3>1 DEF Concludes
  <2>7. m <= h - 1 /\ m <= RecentN /\ (m >= RecentN \/ m = h - 1) /\ m <= n
    BY <2>4, <2>5, <2>6
  <2>8. ASSUME NEW k \in 1..m PROVE state.recent[k] = IntervalTo(h - m + k)
    <3>1. n - m + k \in 1..n /\ h - n + (n - m + k) = h - m + k
      BY <2>7
    <3>2. full.recent[n - m + k] = IntervalTo(h - n + (n - m + k))
      BY <2>1, <2>2, <2>4, <3>1 DEF WholeState
    <3> QED
      BY <2>6, <3>1, <3>2
  <2>9. WholeState(state)
    BY <2>1, <2>2, <2>3, <2>6, <2>7, <2>8 DEF WholeState
  <2>10. WholeState(saved)'
    <3>1. WholeState(state)'
      BY <1>3, <2>9
    <3> QED
      BY <1>5, <3>1 DEF WholeState
  <2>11. known' = board.length /\ board.length \in 0..Len(lines)
    BY <1>2, <1>5, <2>1 DEF Remaining
  <2>12. ASSUME NEW l \in 1..board.length PROVE lines[l].height <= h
    <3>1. ~(lines[l].height > 0 /\ lines[l].height > h)
      BY <1>1, <2>1, <2>2 DEF Remaining
    <3>2. lines[l].height \in Nat
      BY <1>1, <2>11 DEF LogTyped
    <3> QED
      BY <3>1, <3>2
  <2> QED
    BY <1>1, <1>5, <2>3, <2>6, <2>7, <2>10, <2>11, <2>12 DEF SavedWhole
<1>6. CASE saved' # state /\ saved' = saved
  BY <1>2, <1>3, <1>4, <1>6 DEF HistInv
<1>7. CASE saved' = NoState
  <2>1. SavedWhole'
    BY <1>7 DEF SavedWhole
  <2> QED
    BY <1>3, <1>4, <2>1 DEF HistInv
<1> QED
  BY <1>2, <1>5, <1>6, <1>7

LEMMA HistInvInit == HistogramInit => HistInv
<1> SUFFICES ASSUME HistogramInit PROVE HistInv
  OBVIOUS
<1>1. lines = <<>> /\ Len(lines) = 0 /\ IsList(lines) /\ chain = 0 /\ clock = 0
  BY DEF HistogramInit, IsList
<1>2. LogTyped
  BY <1>1 DEF LogTyped
<1>3. SavedWhole /\ BoardWhole
  BY DEF HistogramInit, SavedWhole, BoardWhole
<1> QED
  BY <1>2, <1>3 DEF HistInv

LEMMA HistStepKeeps == HistInv /\ [HistogramNext]_histogram => HistInv'
<1> SUFFICES ASSUME HistInv, [HistogramNext]_histogram PROVE HistInv'
  OBVIOUS
<1>1. CASE UNCHANGED histogram
  <2>1. UNCHANGED <<lines, chain, clock, saved, board, known, gapless>>
    BY <1>1 DEF histogram
  <2>2. LogTyped /\ DOMAIN lines = 1..Len(lines) /\ Len(lines) \in Nat /\ chain \in Nat
    BY DEF HistInv, LogTyped, IsList
  <2>3. LogTyped'
    BY <2>1, LogStays
  <2> QED
    BY <2>1, <2>2, <2>3, DaemonKeeps
<1>2. CASE HistogramNext
  <2>1. CASE BlockAdded
    BY <2>1, BlockAddedKeeps
  <2>2. CASE Chatter
    BY <2>2, ChatterKeeps
  <2>3. CASE ReadTail
    BY <2>3, ReadTailKeeps
  <2>4. CASE CountBlock
    BY <2>4, CountBlockKeeps
  <2>5. CASE SaveState
    BY <2>5, SaveStateKeeps
  <2>6. ASSUME NEW depth \in 1..2, Reorganise(depth) PROVE HistInv'
    BY <2>6, ReorganiseKeeps
  <2> QED
    BY <1>2, <2>1, <2>2, <2>3, <2>4, <2>5, <2>6 DEF HistogramNext
<1> QED
  BY <1>1, <1>2

LEMMA HistInvWhole == HistInv => HistogramIsWhole
<1> SUFFICES ASSUME HistInv, saved # NoState, gapless PROVE HistogramIsWhole
  BY DEF HistogramIsWhole
<1> DEFINE heights == {h \in 2..chain : h <= saved.height}
<1>1. /\ WholeState(saved) /\ Len(saved.recent) <= RecentN /\ chain \in Nat
      /\ RecentN \in Nat
  BY HistogramAssumption DEF HistInv, SavedWhole, LogTyped
<1>2. PICK top \in 1..chain : top = saved.height
  BY <1>1 DEF WholeState
<1>3. heights = 2..top
  BY <1>1, <1>2
<1>4. Cardinality(heights) = top - 1
  <2>1. \A a \in Int, b \in Int : Cardinality(a..b) = IF a > b THEN 0 ELSE b - a + 1
    BY FS_Interval
  <2>2. top \in Int /\ top >= 1
    BY <1>1, <1>2
  <2>3. Cardinality(2..top) = top - 1
    BY <2>1, <2>2
  <2>4. Cardinality(heights) = Cardinality(2..top)
    BY <1>3, Zenon
  <2> QED
    BY <2>3, <2>4, Zenon
<1>5. saved.buckets = [c \in 0..(Columns - 1) |->
                          Cardinality({h \in heights : Bucket(IntervalTo(h)) = c})]
  BY <1>1, <1>2, <1>3 DEF WholeState
<1> HIDE DEF heights
<1>6. saved.recent = LastN([i \in 1..Cardinality(heights) |-> IntervalTo(i + 1)], RecentN)
  <2>1. PICK n \in Nat : n = Len(saved.recent) /\ IsList(saved.recent) /\ n <= top - 1
                         /\ (n >= RecentN \/ n = top - 1) /\ n <= RecentN
    BY <1>1, <1>2 DEF WholeState, IsList
  <2>2. PICK all : all = [i \in 1..(top - 1) |-> IntervalTo(i + 1)]
    OBVIOUS
  <2>3. top - 1 \in Nat
    BY <1>1
  <2>4. IsList(all) /\ Len(all) = top - 1 /\ \A i \in 1..(top - 1) : all[i] = IntervalTo(i + 1)
    BY <2>2, <2>3, ListOf
  <2>5. PICK last : last = LastN(all, RecentN)
    OBVIOUS
  <2>6. /\ IsList(last) /\ Len(last) = (IF top - 1 > RecentN THEN RecentN ELSE top - 1)
        /\ \A k \in 1..Len(last) : last[k] = all[Len(all) - Len(last) + k]
    <3>1. Concludes(last, all, RecentN)
      BY <1>1, <2>4, <2>5, LastEnds, Zenon
    <3> QED
      BY <2>4, <3>1 DEF Concludes
  <2>7. Len(last) = n
    BY <1>1, <2>1, <2>6
  <2>8. \A k \in 1..n : last[k] = saved.recent[k]
    <3> SUFFICES ASSUME NEW k \in 1..n PROVE last[k] = saved.recent[k]
      OBVIOUS
    <3>1. top - 1 - n + k \in 1..(top - 1) /\ (top - 1 - n + k) + 1 = top - n + k
      BY <1>1, <2>1
    <3>2. last[k] = IntervalTo(top - n + k)
      BY <2>4, <2>6, <2>7, <3>1
    <3>3. saved.recent[k] = IntervalTo(top - n + k)
      BY <1>1, <1>2, <2>1 DEF WholeState
    <3> QED
      BY <3>2, <3>3
  <2>9. last = saved.recent
    BY <2>1, <2>6, <2>7, <2>8 DEF IsList
  <2> QED
    BY <1>4, <2>2, <2>5, <2>9
<1> QED
  BY <1>5, <1>6 DEF HistogramIsWhole, heights

\* The histogram is that of the whole log (cmd_block_rate), as long as the tails
\* that are read leave no gap, for any numbers of lines, columns and blocks.
THEOREM HistogramStaysWhole == HistogramSpec => []HistogramIsWhole
<1> QED
  BY HistInvInit, HistStepKeeps, HistInvWhole, PTL DEF HistogramSpec

-----------------------------------------------------------------------------
(* Registries *)

WalletOf(id) == <<"wallet", id>>
MinerOf(id) == <<"miner", id>>

Places == {"connect", "noDaemon", "wallet", "publish", "register", "poll", "noAddress",
           "read", "write", "rename", "announce", "readPublic", "writePublic",
           "renamePublic", "running"}

\* The places of a process that holds a lock, and those where it has read.
Inside == {"read", "write", "rename", "readPublic", "writePublic", "renamePublic"}
HasRead == {"write", "rename", "writePublic", "renamePublic"}
HasWritten == {"rename", "renamePublic"}

\* Types of the variables that somebody else's step reads.
TypeInv ==
    /\ file \in [Files -> Contents]
    /\ beside \in [Files -> Contents \cup {Unknown}]
    /\ holder \in [Files -> Processes \cup {Unknown}]
    /\ infoFile \in [MinerIds -> Ids \cup {Unknown}]
    /\ place \in [Processes -> Places]
    /\ addr \in [Processes -> Ids \cup {Unknown}]
    /\ memory \in [Processes -> Contents \cup {Unknown}]

\* Each of the orchestrator's agents is there, and nobody twice.
Whole(entries, listed) ==
    /\ \A id \in listed : \E i \in DOMAIN entries : entries[i].id = id
    /\ \A i, j \in DOMAIN entries : entries[i].id = entries[j].id => i = j

WholeInv == \A f \in Files : Whole(file[f], Prepared(f))

\* An address anywhere is that of the agent, and its wallet has told it.
Told(id, address) ==
    address # Unknown => address = id /\ addr[WalletOf(id)] # Unknown

ToldInv ==
    /\ \A p \in Processes : Told(p[2], addr[p])
    /\ \A id \in MinerIds : Told(id, infoFile[id])
    /\ \A f \in Files : \A i \in DOMAIN file[f] : Told(file[f][i].id, file[f][i].address)

\* A mining process registers with an address.
MinerInv ==
    \A id \in MinerIds :
        /\ place[MinerOf(id)] \notin {"connect", "wallet", "publish"}
        /\ place[MinerOf(id)] \in {"poll", "noAddress"} \/ addr[MinerOf(id)] # Unknown

\* Who is inside holds the lock; what it has read is still the registry, and
\* the temporary file is what it has changed.
LockOf(p) ==
    /\ place[p] \in Inside => holder[At(p)] = p
    /\ place[p] \in HasRead => memory[p] = Changed(file[At(p)], p)
    /\ place[p] \in HasWritten => beside[At(p)] = memory[p]

LockInv == \A p \in Processes : LockOf(p)

IInv == TypeInv /\ WholeInv /\ ToldInv /\ MinerInv /\ LockInv

-----------------------------------------------------------------------------

LEMMA ProcessFacts ==
  /\ \A p \in Processes : /\ p = <<p[1], p[2]>> /\ p[2] \in Ids
                          /\ p = WalletOf(p[2]) \/ (p[2] \in MinerIds /\ p = MinerOf(p[2]))
  /\ \A id \in Ids : WalletOf(id) \in Processes /\ WalletOf(id)[2] = id
  /\ \A id \in MinerIds : /\ id \in Ids /\ MinerOf(id) \in Processes /\ MinerOf(id)[2] = id
                          /\ \A d \in Ids : MinerOf(id) # WalletOf(d)
  <1>1. ASSUME NEW p \in Processes
        PROVE  /\ p = <<p[1], p[2]>> /\ p[2] \in Ids
               /\ p = WalletOf(p[2]) \/ (p[2] \in MinerIds /\ p = MinerOf(p[2]))
    <2>1. CASE p \in {"wallet"} \X Ids
      <3>1. PICK id \in Ids : p = <<"wallet", id>>
        BY <2>1
      <3> QED
        BY <3>1 DEF WalletOf
    <2>2. CASE p \in {"miner"} \X MinerIds
      BY <2>2, RegistryAssumption DEF MinerOf
    <2> QED
      BY <2>1, <2>2 DEF Processes
  <1>2. \A id \in Ids : WalletOf(id) \in Processes /\ WalletOf(id)[2] = id
    BY DEF Processes, WalletOf
  <1>3. \A id \in MinerIds : MinerOf(id) \in Processes /\ MinerOf(id)[2] = id
    BY DEF Processes, MinerOf
  <1>4. \A id, d : MinerOf(id) # WalletOf(d)
    BY DEF MinerOf, WalletOf
  <1> QED
    BY <1>1, <1>2, <1>3, <1>4, RegistryAssumption

\* The sequence of a finite set has each of its members once.
LEMMA SetToSeqFacts ==
  ASSUME NEW S, IsFiniteSet(S)
  PROVE  /\ SetToSeq(S) \in [1..Cardinality(S) -> S] /\ Cardinality(S) \in Nat
         /\ \A i, j \in 1..Cardinality(S) : SetToSeq(S)[i] = SetToSeq(S)[j] => i = j
         /\ \A x \in S : \E i \in 1..Cardinality(S) : SetToSeq(S)[i] = x
  <1> DEFINE n == Cardinality(S)
             q == SetToSeq(S)
  <1>1. n \in Nat /\ ExistsBijection(1..n, S)
    BY FS_CardinalityType
  <1>2. PICK g : g \in Bijection(1..n, S)
    BY <1>1 DEF ExistsBijection
  <1>3. g \in [1..n -> S] /\ IsInjective(g)
    BY <1>2 DEF Bijection, Injection
  <1>4. q \in [1..n -> S] /\ IsInjective(q)
    BY <1>3 DEF SetToSeq
  <1> HIDE DEF q, n
  <1>5. q \in Injection(1..n, S)
    BY <1>4 DEF Injection
  <1>6. IsFiniteSet(1..n) /\ Cardinality(1..n) = n
    BY <1>1, FS_Interval DEF n
  <1>7. q \in Surjection(1..n, S)
    BY <1>5, <1>6, FS_Injection DEF n
  <1>8. \A x \in S : \E i \in 1..n : q[i] = x
    BY <1>7 DEF Surjection
  <1>9. \A i, j \in 1..n : q[i] = q[j] => i = j
    BY <1>4 DEF IsInjective
  <1> QED
    BY <1>1, <1>4, <1>8, <1>9 DEF q, n

LEMMA EntryFacts ==
  ASSUME NEW e \in Contents, NEW i \in DOMAIN e
  PROVE  e[i] \in [id : Ids, address : Ids \cup {Unknown}] /\ e[i].id \in Ids
  <1> DEFINE Entry == [id : Ids, address : Ids \cup {Unknown}]
  <1>1. e \in Seq(Entry)
    BY DEF Contents
  <1> HIDE DEF Entry
  <1>2. e[i] \in Entry
    BY <1>1
  <1> QED
    BY <1>2 DEF Entry

\* A change keeps a registry whole and changes one agent's entry.
LEMMA ChangedFacts ==
  ASSUME NEW p \in Processes, NEW e \in Contents, NEW listed, Whole(e, listed),
         addr[p] \in Ids \cup {Unknown}
  PROVE  /\ Changed(e, p) \in Contents /\ Whole(Changed(e, p), listed)
         /\ \A i \in DOMAIN Changed(e, p) :
               \/ i \in DOMAIN e /\ Changed(e, p)[i] = e[i]
               \/ Changed(e, p)[i] = [id |-> p[2], address |-> addr[p]]
         /\ \A i \in DOMAIN e :
               /\ i \in DOMAIN Changed(e, p)
               /\ e[i].id # p[2] => Changed(e, p)[i] = e[i]
  <1> DEFINE c == Changed(e, p)
             new == [id |-> p[2], address |-> addr[p]]
             Entry == [id : Ids, address : Ids \cup {Unknown}]
  <1>1. p[2] \in Ids /\ new \in Entry
    BY ProcessFacts
  <1>2. e \in Seq(Entry)
    BY DEF Contents
  <1>3. \A i \in DOMAIN e : e[i] \in Entry
    BY EntryFacts
  <1>4. CASE \E i \in DOMAIN e : e[i].id = p[2]
    <2>1. c = [i \in DOMAIN e |-> IF e[i].id = p[2] THEN [e[i] EXCEPT !.address = addr[p]]
                                  ELSE e[i]]
      BY <1>4 DEF Changed
    <2>2. \A i \in DOMAIN e : e[i].id = p[2] => [e[i] EXCEPT !.address = addr[p]] = new
      BY <1>3
    <2>3. c = [i \in DOMAIN e |-> IF e[i].id = p[2] THEN new ELSE e[i]]
      BY <2>1, <2>2
    <2> HIDE DEF c
    <2>4. c \in Seq(Entry)
      BY <1>1, <1>2, <2>3
    <2>5. DOMAIN c = DOMAIN e /\ \A i \in DOMAIN e : c[i].id = e[i].id
      BY <2>3
    <2>6. Whole(c, listed)
      BY <2>5 DEF Whole
    <2> QED
      BY <2>3, <2>4, <2>6 DEF c, Contents
  <1>5. CASE ~\E i \in DOMAIN e : e[i].id = p[2]
    <2>1. c = Append(e, new)
      BY <1>5 DEF Changed
    <2> HIDE DEF c
    <2>2. c \in Seq(Entry) /\ DOMAIN c = DOMAIN e \cup {Len(e) + 1}
          /\ Len(e) + 1 \notin DOMAIN e
      BY <1>1, <1>2, <2>1
    <2>3. c[Len(e) + 1] = new /\ \A i \in DOMAIN e : c[i] = e[i]
      BY <1>1, <1>2, <2>1
    <2> HIDE DEF Entry
    <2>4. Whole(c, listed)
      <3>1. \A id \in listed : \E i \in DOMAIN c : c[i].id = id
        BY <2>2, <2>3 DEF Whole
      <3>2. ASSUME NEW i \in DOMAIN c, NEW j \in DOMAIN c, c[i].id = c[j].id
            PROVE  i = j
        <4>1. new.id = p[2]
          OBVIOUS
        <4> HIDE DEF new
        <4>2. CASE i \in DOMAIN e /\ j \in DOMAIN e
          BY <2>3, <3>2, <4>2 DEF Whole
        <4>3. CASE i = Len(e) + 1 \/ j = Len(e) + 1
          BY <1>5, <2>2, <2>3, <3>2, <4>1, <4>3
        <4> QED
          BY <2>2, <4>2, <4>3
      <3> QED
        BY <3>1, <3>2 DEF Whole
    <2> QED
      BY <2>2, <2>3, <2>4 DEF c, Contents, Entry
  <1> QED
    BY <1>4, <1>5

-----------------------------------------------------------------------------

LEMMA InitInv == RegistriesInit => IInv
  <1> SUFFICES ASSUME RegistriesInit PROVE IInv
    OBVIOUS
  <1>1. ASSUME NEW f \in Files
        PROVE  /\ file[f] \in Contents /\ Whole(file[f], Prepared(f))
               /\ \A i \in DOMAIN file[f] : file[f][i].address = Unknown
    <2> DEFINE S == Prepared(f)
               n == Cardinality(S)
    <2>1. S \subseteq Ids
      BY RegistryAssumption DEF Prepared
    <2>2. IsFiniteSet(S)
      BY <2>1, RegistryAssumption, FS_Subset
    <2>3. /\ SetToSeq(S) \in [1..n -> S] /\ n \in Nat
          /\ \A i, j \in 1..n : SetToSeq(S)[i] = SetToSeq(S)[j] => i = j
          /\ \A x \in S : \E i \in 1..n : SetToSeq(S)[i] = x
      BY <2>2, SetToSeqFacts
    <2>4. file[f] = [i \in DOMAIN SetToSeq(S) |->
                        [id |-> SetToSeq(S)[i], address |-> Unknown]]
      BY DEF RegistriesInit
    <2> HIDE DEF S, n
    <2>5. file[f] = [i \in 1..n |-> [id |-> SetToSeq(S)[i], address |-> Unknown]]
      BY <2>3, <2>4
    <2>6. \A i \in 1..n : SetToSeq(S)[i] \in Ids
      BY <2>1, <2>3
    <2>7. file[f] \in Contents
      BY <2>3, <2>5, <2>6 DEF Contents
    <2>8. DOMAIN file[f] = 1..n /\ \A i \in 1..n : file[f][i].id = SetToSeq(S)[i]
      BY <2>5
    <2>9. Whole(file[f], S)
      BY <2>3, <2>8 DEF Whole
    <2>10. \A i \in DOMAIN file[f] : file[f][i].address = Unknown
      BY <2>5
    <2> QED
      BY <2>7, <2>9, <2>10 DEF S
  <1>2. file = [f \in Files |-> file[f]]
    BY DEF RegistriesInit
  <1>3. TypeInv
    BY <1>1, <1>2 DEF RegistriesInit, TypeInv, Places
  <1>4. WholeInv /\ ToldInv
    <2>1. \A p \in Processes : addr[p] = Unknown
      BY DEF RegistriesInit
    <2>2. \A id \in MinerIds : infoFile[id] = Unknown
      BY DEF RegistriesInit
    <2> QED
      BY <1>1, <2>1, <2>2 DEF WholeInv, ToldInv, Told
  <1>5. MinerInv /\ LockInv
    <2>1. \A p \in Processes : place[p] = IF p[1] = "wallet" THEN "connect" ELSE "poll"
      BY DEF RegistriesInit
    <2>2. \A id \in MinerIds : place[MinerOf(id)] = "poll"
      BY <2>1, ProcessFacts DEF MinerOf
    <2>3. \A p \in Processes : place[p] \notin Inside \cup HasRead \cup HasWritten
      BY <2>1 DEF Inside, HasRead, HasWritten
    <2> QED
      BY <2>2, <2>3 DEF MinerInv, LockInv, LockOf
  <1> QED
    BY <1>3, <1>4, <1>5 DEF IInv

-----------------------------------------------------------------------------

LEMMA AtIsFile == \A p : At(p) \in Files
  BY DEF At, Files

\* A process that takes no step keeps what it has, as long as whoever takes one
\* touches only the registry it holds, or none.
LEMMA OthersKeep ==
  ASSUME IInv, NEW p \in Processes, NEW q \in Processes, q # p,
         \A f \in Files \ {At(p)} :
            file'[f] = file[f] /\ beside'[f] = beside[f] /\ holder'[f] = holder[f],
         place'[q] = place[q], addr'[q] = addr[q], memory'[q] = memory[q],
         holder[At(p)] \in {Unknown, p} \/ UNCHANGED <<file, beside, holder>>
  PROVE  LockOf(q)'
  <1>1. LockOf(q)
    BY DEF IInv, LockInv
  <1>2. At(q)' = At(q) /\ At(q) \in Files
    BY AtIsFile DEF At
  <1>3. \A e : Changed(e, q)' = Changed(e, q)
    BY DEF Changed
  <1>4. CASE place[q] \in Inside
    <2>1. holder[At(q)] = q /\ q # Unknown
      BY <1>1, <1>4, RegistryAssumption DEF LockOf
    <2>2. /\ file'[At(q)] = file[At(q)] /\ beside'[At(q)] = beside[At(q)]
          /\ holder'[At(q)] = holder[At(q)]
      BY <1>2, <2>1
    <2>3. Changed(file[At(q)], q)' = Changed(file[At(q)], q)
      <3>1. Changed(file[At(q)], q)' = Changed(file'[At(q)], q)
        BY <1>2, <1>3 DEF Changed
      <3> QED
        BY <2>2, <3>1
    <2> QED
      BY <1>1, <1>2, <2>2, <2>3 DEF LockOf
  <1>5. CASE place[q] \notin Inside
    BY <1>5 DEF LockOf, Inside, HasRead, HasWritten
  <1> QED
    BY <1>4, <1>5

\* What has been told stays told as long as no address is forgotten.
LEMMA ToldStays ==
  ASSUME NEW id \in Ids, NEW address, Told(id, address),
         \A q \in Processes : addr[q] # Unknown => addr'[q] # Unknown
  PROVE  (address # Unknown => address = id /\ addr'[WalletOf(id)] # Unknown)
  BY ProcessFacts DEF Told

LEMMA MovesEffect ==
  ASSUME TypeInv, NEW p \in Processes, NEW from, NEW to \in Places, Moves(p, from, to)
  PROVE  /\ place[p] = from /\ place' \in [Processes -> Places] /\ place'[p] = to
         /\ \A q \in Processes \ {p} : place'[q] = place[q]
  BY DEF Moves, TypeInv

-----------------------------------------------------------------------------

SettingUp(p) ==
    \/ FindDaemon(p) \/ SetupWallet(p) \/ PublishInfo(p)
    \/ p[1] = "miner" /\ (FindAddress(p) \/ PollTimesOut(p))

\* A wallet process does what comes before the wallet, and no mining process.
LEMMA OnlyWallets ==
  ASSUME IInv, NEW p \in Processes, place[p] \in {"connect", "wallet", "publish"}
  PROVE  p = WalletOf(p[2])
  BY ProcessFacts DEF IInv, MinerInv

\* The address a mining process finds is its agent's, and the wallet told it.
LEMMA FoundIsTold ==
  ASSUME IInv, NEW p \in Processes, p[1] = "miner", MiningAddress(p) # Unknown
  PROVE  Told(p[2], MiningAddress(p)) /\ p[2] \in MinerIds
  <1>1. p[2] \in MinerIds
    BY DEF Processes
  <1>2. CASE infoFile[p[2]] # Unknown
    BY <1>1, <1>2 DEF MiningAddress, IInv, ToldInv
  <1>3. CASE infoFile[p[2]] = Unknown
    <2> DEFINE same == {i \in DOMAIN file["agents"] : file["agents"][i].id = p[2]}
    <2>1. MiningAddress(p) = Listed(p[2])
      BY <1>3 DEF MiningAddress
    <2>2. same # {} /\ Listed(p[2]) = file["agents"][CHOOSE i \in same : TRUE].address
      BY <2>1 DEF Listed
    <2>3. PICK i \in same : Listed(p[2]) = file["agents"][i].address
      BY <2>2
    <2>4. Told(file["agents"][i].id, file["agents"][i].address)
      BY DEF IInv, ToldInv, Files
    <2> QED
      BY <1>1, <2>1, <2>3, <2>4
  <1> QED
    BY <1>2, <1>3

\* What the steps of a set-up change.
LEMMA SetUpEffect ==
  ASSUME IInv, NEW p \in Processes, SettingUp(p)
  PROVE  /\ UNCHANGED <<file, beside, holder, memory>>
         /\ place[p] \notin Inside
         /\ \E to \in Places \ Inside :
               /\ place' = [place EXCEPT ![p] = to]
               /\ p[1] = "miner" =>
                     /\ place[p] = "poll"
                     /\ to \in {"register", "noAddress"}
                     /\ to = "register" => addr'[p] # Unknown
         /\ \/ addr' = addr
            \/ /\ addr' = [addr EXCEPT ![p] = p[2]]
               /\ p = WalletOf(p[2]) \/ addr[WalletOf(p[2])] # Unknown
         /\ infoFile' = infoFile \/ infoFile' = [infoFile EXCEPT ![p[2]] = addr[p]]
  <1> DEFINE Goal(to) ==
        /\ UNCHANGED <<file, beside, holder, memory>>
        /\ place[p] \notin Inside
        /\ to \in Places \ Inside
        /\ place' = [place EXCEPT ![p] = to]
        /\ p[1] = "miner" =>
              /\ place[p] = "poll"
              /\ to \in {"register", "noAddress"}
              /\ to = "register" => addr'[p] # Unknown
        /\ \/ addr' = addr
           \/ /\ addr' = [addr EXCEPT ![p] = p[2]]
              /\ p = WalletOf(p[2]) \/ addr[WalletOf(p[2])] # Unknown
        /\ infoFile' = infoFile \/ infoFile' = [infoFile EXCEPT ![p[2]] = addr[p]]
  <1>0. \A id : WalletOf(id)[1] # "miner"
    BY DEF WalletOf
  <1>1. CASE FindDaemon(p)
    <2>1. PICK to \in {"noDaemon", "wallet"} : Moves(p, "connect", to)
      BY <1>1 DEF FindDaemon
    <2>2. p[1] # "miner"
      BY <1>0, <2>1, OnlyWallets DEF Moves
    <2>3. Goal(to)
      BY <1>1, <2>1, <2>2 DEF FindDaemon, Moves, Places, Inside
    <2> QED
      BY <2>3
  <1>2. CASE SetupWallet(p)
    <2>1. PICK to \in {"publish", "register"} : Moves(p, "wallet", to)
      BY <1>2 DEF SetupWallet
    <2>2. p[1] # "miner" /\ p = WalletOf(p[2])
      BY <1>0, <2>1, OnlyWallets DEF Moves
    <2>3. Goal(to)
      BY <1>2, <2>1, <2>2 DEF SetupWallet, Moves, Places, Inside, AddressOf
    <2> QED
      BY <2>3
  <1>3. CASE PublishInfo(p)
    <2>1. Moves(p, "publish", "register")
      BY <1>3 DEF PublishInfo
    <2>2. p[1] # "miner"
      BY <1>0, <2>1, OnlyWallets DEF Moves
    <2>3. Goal("register")
      BY <1>3, <2>1, <2>2 DEF PublishInfo, Moves, Places, Inside
    <2> QED
      BY <2>3
  <1>4. CASE p[1] = "miner" /\ FindAddress(p)
    <2>1. Told(p[2], MiningAddress(p))
      BY <1>4, FoundIsTold DEF FindAddress
    <2>2. MiningAddress(p) = p[2] /\ addr[WalletOf(p[2])] # Unknown
      BY <1>4, <2>1 DEF Told, FindAddress
    <2>3. addr' = [addr EXCEPT ![p] = p[2]] /\ addr'[p] = p[2]
      BY <1>4, <2>2 DEF FindAddress, IInv, TypeInv
    <2>4. p[2] # Unknown
      BY ProcessFacts, RegistryAssumption
    <2>5. Goal("register")
      BY <1>4, <2>2, <2>3, <2>4 DEF FindAddress, Moves, Places, Inside
    <2> QED
      BY <2>5
  <1>5. CASE p[1] = "miner" /\ PollTimesOut(p)
    <2>1. Goal("noAddress")
      BY <1>5 DEF PollTimesOut, Moves, Places, Inside
    <2> QED
      BY <2>1
  <1> QED
    BY <1>1, <1>2, <1>3, <1>4, <1>5 DEF SettingUp

LEMMA SetUpPreserves ==
  ASSUME IInv, NEW p \in Processes, SettingUp(p)
  PROVE  IInv'
  <1>1. PICK to \in Places \ Inside :
           /\ place' = [place EXCEPT ![p] = to]
           /\ p[1] = "miner" =>
                 /\ place[p] = "poll"
                 /\ to \in {"register", "noAddress"}
                 /\ to = "register" => addr'[p] # Unknown
    BY SetUpEffect
  <1>2. UNCHANGED <<file, beside, holder, memory>> /\ place[p] \notin Inside
    BY SetUpEffect
  <1>3. \/ addr' = addr
        \/ /\ addr' = [addr EXCEPT ![p] = p[2]]
           /\ p = WalletOf(p[2]) \/ addr[WalletOf(p[2])] # Unknown
    BY SetUpEffect
  <1>4. infoFile' = infoFile \/ infoFile' = [infoFile EXCEPT ![p[2]] = addr[p]]
    BY SetUpEffect
  <1>5. p[2] \in Ids /\ p[2] # Unknown
    BY ProcessFacts, RegistryAssumption
  <1>6. /\ place' \in [Processes -> Places] /\ place'[p] = to
        /\ \A q \in Processes \ {p} : place'[q] = place[q]
    BY <1>1 DEF IInv, TypeInv
  <1>7. /\ addr' \in [Processes -> Ids \cup {Unknown}]
        /\ \A q \in Processes : addr[q] # Unknown => addr'[q] # Unknown
        /\ \A q \in Processes \ {p} : addr'[q] = addr[q]
    BY <1>3, <1>5 DEF IInv, TypeInv
  <1>8. infoFile' \in [MinerIds -> Ids \cup {Unknown}]
    BY <1>4 DEF IInv, TypeInv
  <1>9. TypeInv'
    BY <1>2, <1>6, <1>7, <1>8 DEF IInv, TypeInv
  <1>10. WholeInv'
    BY <1>2 DEF IInv, WholeInv
  <1>11. ToldInv'
    <2>1. ASSUME NEW id \in Ids, NEW address, Told(id, address)
          PROVE  address # Unknown => address = id /\ addr'[WalletOf(id)] # Unknown
      BY <1>7, <2>1, ToldStays
    <2>2. ASSUME NEW q \in Processes, addr'[q] # Unknown
          PROVE  addr'[q] = q[2] /\ addr'[WalletOf(q[2])] # Unknown
      <3>1. q[2] \in Ids /\ Told(q[2], addr[q])
        BY ProcessFacts DEF IInv, ToldInv
      <3>2. CASE addr'[q] = addr[q]
        BY <2>1, <2>2, <3>1, <3>2
      <3>3. CASE q = p /\ addr' = [addr EXCEPT ![p] = p[2]]
        <4>1. addr'[p] = p[2]
          BY <3>3 DEF IInv, TypeInv
        <4>2. p = WalletOf(p[2]) \/ addr[WalletOf(p[2])] # Unknown
              \/ addr' = addr
          BY <1>3
        <4>3. WalletOf(p[2]) \in Processes
          BY <1>5, ProcessFacts
        <4> QED
          BY <1>5, <1>7, <2>2, <3>2, <3>3, <4>1, <4>2, <4>3
      <3> QED
        BY <1>3, <1>7, <3>2, <3>3
    <2>3. ASSUME NEW id \in MinerIds, infoFile'[id] # Unknown
          PROVE  infoFile'[id] = id /\ addr'[WalletOf(id)] # Unknown
      <3>1. id \in Ids /\ Told(id, infoFile[id]) /\ Told(p[2], addr[p])
        BY RegistryAssumption DEF IInv, ToldInv
      <3>2. infoFile'[id] = infoFile[id] \/ (id = p[2] /\ infoFile'[id] = addr[p])
        BY <1>4 DEF IInv, TypeInv
      <3> QED
        BY <2>1, <2>3, <3>1, <3>2
    <2>4. ASSUME NEW f \in Files, NEW i \in DOMAIN file[f], file[f][i].address # Unknown
          PROVE  /\ file[f][i].address = file[f][i].id
                 /\ addr'[WalletOf(file[f][i].id)] # Unknown
      <3>1. Told(file[f][i].id, file[f][i].address)
        BY DEF IInv, ToldInv
      <3>2. file[f][i].id \in Ids
        BY EntryFacts DEF IInv, TypeInv
      <3> QED
        BY <2>1, <2>4, <3>1, <3>2
    <2> QED
      BY <1>2, <2>2, <2>3, <2>4 DEF ToldInv, Told
  <1>12. MinerInv'
    <2> SUFFICES ASSUME NEW id \in MinerIds
                 PROVE  /\ place'[MinerOf(id)] \notin {"connect", "wallet", "publish"}
                        /\ \/ place'[MinerOf(id)] \in {"poll", "noAddress"}
                           \/ addr'[MinerOf(id)] # Unknown
      BY DEF MinerInv
    <2>1. MinerOf(id) \in Processes /\ MinerOf(id)[1] = "miner"
      BY ProcessFacts DEF MinerOf
    <2>2. CASE MinerOf(id) = p
      BY <1>1, <1>6, <2>1, <2>2
    <2>3. CASE MinerOf(id) # p
      BY <1>6, <1>7, <2>1, <2>3 DEF IInv, MinerInv
    <2> QED
      BY <2>2, <2>3
  <1>13. LockInv'
    <2> SUFFICES ASSUME NEW q \in Processes PROVE LockOf(q)'
      BY DEF LockInv
    <2>1. CASE q = p
      BY <1>6, <2>1 DEF LockOf, Inside, HasRead, HasWritten
    <2>2. CASE q # p
      BY <1>2, <1>6, <1>7, <2>2, OthersKeep
    <2> QED
      BY <2>1, <2>2
  <1> QED
    BY <1>9, <1>10, <1>11, <1>12, <1>13 DEF IInv

-----------------------------------------------------------------------------

Registering(p) ==
    Enter(p) \/ ReadEntries(p) \/ WriteBeside(p) \/ Rename(p) \/ RegisterFails(p)

\* A step of a registration changes the place of the process and the registry
\* it is at.
LEMMA RegisterEffect ==
  ASSUME IInv, NEW p \in Processes, Registering(p)
  PROVE  /\ UNCHANGED <<addr, infoFile>>
         /\ holder[At(p)] \in {Unknown, p}
         /\ place[p] \in {"register", "announce"} \cup Inside
         /\ place'[p] \in {"announce", "running"} \cup Inside
         /\ place' = [place EXCEPT ![p] = place'[p]]
         /\ beside' = beside \/ beside' = [beside EXCEPT ![At(p)] = memory[p]]
         /\ memory' = memory \/ memory' = [memory EXCEPT ![p] = Changed(file[At(p)], p)]
         /\ \/ holder' = holder
            \/ holder' = [holder EXCEPT ![At(p)] = p]
            \/ holder' = [holder EXCEPT ![At(p)] = Unknown]
         /\ file' = file \/ (file' = [file EXCEPT ![At(p)] = beside[At(p)]] /\ Rename(p))
  <1>1. place \in [Processes -> Places]
    BY DEF IInv, TypeInv
  <1>2. place[p] \in Inside => holder[At(p)] = p
    BY DEF IInv, LockInv, LockOf
  <1> DEFINE Step(to) ==
        /\ to \in {"announce", "running"} \cup Inside
        /\ place' = [place EXCEPT ![p] = to]
  <1>3. ASSUME NEW to, Step(to)
        PROVE  /\ place'[p] \in {"announce", "running"} \cup Inside
               /\ place' = [place EXCEPT ![p] = place'[p]]
    BY <1>1, <1>3
  <1>4. After(p) \in {"announce", "running"}
    BY DEF After
  <1>5. CASE Enter(p)
    <2>1. place[p] \in {"register", "announce"} /\ (Step("read") \/ Step("readPublic"))
      BY <1>5 DEF Enter, Moves, Inside
    <2>2. holder[At(p)] = Unknown
      BY <1>5 DEF Enter, MayEnter
    <2>3. /\ UNCHANGED <<file, beside, infoFile, addr, memory>>
          /\ holder' = [holder EXCEPT ![At(p)] = p]
      BY <1>5 DEF Enter
    <2> QED
      BY <1>3, <2>1, <2>2, <2>3
  <1>6. CASE ReadEntries(p)
    <2>1. place[p] \in Inside /\ (Step("write") \/ Step("writePublic"))
      BY <1>6 DEF ReadEntries, Moves, Inside
    <2>2. /\ UNCHANGED <<file, beside, holder, infoFile, addr>>
          /\ memory' = [memory EXCEPT ![p] = Changed(file[At(p)], p)]
      BY <1>6 DEF ReadEntries
    <2> QED
      BY <1>2, <1>3, <2>1, <2>2
  <1>7. CASE WriteBeside(p)
    <2>1. place[p] \in Inside /\ (Step("rename") \/ Step("renamePublic"))
      BY <1>7 DEF WriteBeside, Moves, Inside
    <2>2. /\ UNCHANGED <<file, memory, holder, infoFile, addr>>
          /\ beside' = [beside EXCEPT ![At(p)] = memory[p]]
      BY <1>7 DEF WriteBeside, Written
    <2> QED
      BY <1>2, <1>3, <2>1, <2>2
  <1>8. CASE Rename(p)
    <2>1. place[p] \in Inside /\ Step(After(p))
      BY <1>4, <1>8 DEF Rename, Inside
    <2>2. /\ UNCHANGED <<memory, beside, infoFile, addr>>
          /\ holder' = [holder EXCEPT ![At(p)] = Unknown]
          /\ file' = [file EXCEPT ![At(p)] = beside[At(p)]]
      BY <1>8 DEF Rename
    <2> QED
      BY <1>2, <1>3, <1>8, <2>1, <2>2
  <1>9. CASE RegisterFails(p)
    <2>1. place[p] \in Inside /\ Step(After(p))
      BY <1>4, <1>9 DEF RegisterFails, Inside
    <2>2. /\ UNCHANGED <<file, memory, beside, infoFile, addr>>
          /\ holder' = [holder EXCEPT ![At(p)] = Unknown]
      BY <1>9 DEF RegisterFails
    <2> QED
      BY <1>2, <1>3, <2>1, <2>2
  <1> QED
    BY <1>5, <1>6, <1>7, <1>8, <1>9 DEF Registering

\* What a rename puts in the place of a registry is the registry with the entry
\* of one agent changed; an address that was there stays.
LEMMA RenameFacts ==
  ASSUME IInv, NEW p \in Processes, Rename(p)
  PROVE  /\ beside[At(p)] = Changed(file[At(p)], p)
         /\ \A i \in DOMAIN file[At(p)] :
               file[At(p)][i].address # Unknown =>
                  /\ i \in DOMAIN beside[At(p)]
                  /\ beside[At(p)][i] = file[At(p)][i]
  <1> DEFINE e == file[At(p)]
  <1>1. beside[At(p)] = Changed(e, p)
    BY DEF Rename, IInv, LockInv, LockOf, HasRead, HasWritten
  <1>2. At(p) \in Files /\ e \in Contents /\ Whole(e, Prepared(At(p)))
        /\ addr[p] \in Ids \cup {Unknown}
    BY AtIsFile DEF IInv, TypeInv, WholeInv
  <1>3. ASSUME NEW i \in DOMAIN e, e[i].address # Unknown
        PROVE  i \in DOMAIN Changed(e, p) /\ Changed(e, p)[i] = e[i]
    <2>1. i \in DOMAIN Changed(e, p)
      BY <1>2, ChangedFacts
    <2>2. CASE e[i].id # p[2]
      BY <1>2, <2>2, ChangedFacts
    <2>3. CASE e[i].id = p[2]
      <3>1. e[i].address = p[2] /\ addr[WalletOf(p[2])] # Unknown
        BY <1>2, <1>3, <2>3 DEF IInv, ToldInv, Told
      <3>2. addr[p] # Unknown
        <4>1. CASE p = WalletOf(p[2])
          BY <3>1, <4>1
        <4>2. CASE p[2] \in MinerIds /\ p = MinerOf(p[2])
          <5>1. place[p] \notin {"poll", "noAddress"}
            BY DEF Rename
          <5> QED
            BY <4>2, <5>1 DEF IInv, MinerInv
        <4> QED
          BY <4>1, <4>2, ProcessFacts
      <3>3. addr[p] = p[2]
        BY <3>2 DEF IInv, ToldInv, Told
      <3>4. e[i] = [id |-> p[2], address |-> addr[p]]
        <4>1. e[i] \in [id : Ids, address : Ids \cup {Unknown}]
          BY <1>2, EntryFacts
        <4> QED
          BY <2>3, <3>1, <3>3, <4>1
      <3> QED
        BY <1>2, <2>1, <3>4, ChangedFacts
    <2> QED
      BY <2>1, <2>2, <2>3
  <1> QED
    BY <1>1, <1>3

\* Who takes the step keeps what it knows: it reads under the lock, and what it
\* writes and renames is what it has read and changed.
LEMMA OwnLockKept ==
  ASSUME IInv, NEW p \in Processes, Registering(p)
  PROVE  LockOf(p)'
  <1>1. /\ LockOf(p) /\ At(p) \in Files
        /\ place \in [Processes -> Places] /\ memory \in [Processes -> Contents \cup {Unknown}]
        /\ holder \in [Files -> Processes \cup {Unknown}]
        /\ beside \in [Files -> Contents \cup {Unknown}]
    BY AtIsFile DEF IInv, LockInv, TypeInv
  <1>2. \A e : Changed(e, p)' = Changed(e, p)
    BY RegisterEffect DEF Changed
  <1>3. CASE Enter(p)
    <2>1. /\ place'[p] \in {"read", "readPublic"} /\ At(p)' = At(p)
      BY <1>1, <1>3 DEF Enter, Moves, At
    <2>2. holder'[At(p)] = p
      BY <1>1, <1>3 DEF Enter
    <2> QED
      BY <2>1, <2>2 DEF LockOf, HasRead, HasWritten
  <1>4. CASE ReadEntries(p)
    <2>1. /\ place'[p] \in {"write", "writePublic"} /\ At(p)' = At(p)
          /\ place[p] \in Inside
      BY <1>1, <1>4 DEF ReadEntries, Moves, At, Inside
    <2>2. memory'[p] = Changed(file[At(p)], p) /\ UNCHANGED <<file, holder>>
      BY <1>1, <1>4 DEF ReadEntries
    <2>3. Changed(file[At(p)], p)' = Changed(file[At(p)], p)
      BY <1>2, <2>1, <2>2
    <2> QED
      BY <1>1, <2>1, <2>2, <2>3 DEF LockOf, HasWritten
  <1>5. CASE WriteBeside(p)
    <2>1. /\ place'[p] \in {"rename", "renamePublic"} /\ At(p)' = At(p)
          /\ place[p] \in Inside /\ place[p] \in HasRead
      BY <1>1, <1>5 DEF WriteBeside, Moves, At, Inside, HasRead
    <2>2. beside'[At(p)] = memory[p] /\ UNCHANGED <<file, holder, memory>>
      BY <1>1, <1>5 DEF WriteBeside, Written
    <2>3. Changed(file[At(p)], p)' = Changed(file[At(p)], p)
      BY <1>2, <2>1, <2>2
    <2> QED
      BY <1>1, <2>1, <2>2, <2>3 DEF LockOf
  <1>6. CASE Rename(p) \/ RegisterFails(p)
    <2>1. place'[p] \in {"announce", "running"}
      BY <1>1, <1>6 DEF Rename, RegisterFails, After
    <2> QED
      BY <2>1 DEF LockOf, Inside, HasRead, HasWritten
  <1> QED
    BY <1>3, <1>4, <1>5, <1>6 DEF Registering

LEMMA RegisterPreserves ==
  ASSUME IInv, NEW p \in Processes, Registering(p)
  PROVE  IInv'
  <1> DEFINE f == At(p)
  <1>1. f \in Files /\ file[f] \in Contents /\ Whole(file[f], Prepared(f))
        /\ addr[p] \in Ids \cup {Unknown}
    BY AtIsFile DEF IInv, TypeInv, WholeInv
  <1>2. Changed(file[f], p) \in Contents /\ Whole(Changed(file[f], p), Prepared(f))
    BY <1>1, ChangedFacts
  <1>3. file' = file \/ file' = [file EXCEPT ![f] = Changed(file[f], p)]
    BY RegisterEffect, RenameFacts
  <1>4. \A g \in Files : \/ file'[g] = file[g]
                        \/ (g = f /\ file'[g] = Changed(file[f], p))
    <2> HIDE DEF f
    <2>1. file \in [Files -> Contents]
      BY DEF IInv, TypeInv
    <2>2. CASE file' = file
      BY <2>2
    <2>3. CASE file' = [file EXCEPT ![f] = Changed(file[f], p)]
      BY <1>1, <2>1, <2>3
    <2> QED
      BY <1>3, <2>2, <2>3
  <1>5. place'[p] \in {"announce", "running"} \cup Inside /\ UNCHANGED <<addr, infoFile>>
        /\ place' = [place EXCEPT ![p] = place'[p]]
        /\ place[p] \in {"register", "announce"} \cup Inside
    BY RegisterEffect
  <1>6. TypeInv'
    <2>1. file' \in [Files -> Contents]
      BY <1>2, <1>3 DEF IInv, TypeInv
    <2>2. place' \in [Processes -> Places]
      <3>1. place'[p] \in Places
        BY <1>5 DEF Places, Inside
      <3> QED
        BY <1>5, <3>1 DEF IInv, TypeInv
    <2>3. memory' \in [Processes -> Contents \cup {Unknown}]
      BY <1>2, RegisterEffect DEF IInv, TypeInv
    <2>4. beside' \in [Files -> Contents \cup {Unknown}]
      <3>1. memory[p] \in Contents \cup {Unknown}
        BY DEF IInv, TypeInv
      <3> QED
        BY <3>1, RegisterEffect DEF IInv, TypeInv
    <2>5. holder' \in [Files -> Processes \cup {Unknown}]
      BY RegisterEffect DEF IInv, TypeInv
    <2> QED
      BY <1>5, <2>1, <2>2, <2>3, <2>4, <2>5 DEF IInv, TypeInv
  <1>7. WholeInv'
    <2> SUFFICES ASSUME NEW g \in Files PROVE Whole(file'[g], Prepared(g))
      BY DEF WholeInv
    <2> QED
      BY <1>2, <1>4 DEF IInv, WholeInv
  <1>8. ToldInv'
    <2>1. \A id, address : Told(id, address)' = Told(id, address)
      BY <1>5 DEF Told
    <2>2. ASSUME NEW g \in Files, NEW i \in DOMAIN file'[g]
          PROVE  Told(file'[g][i].id, file'[g][i].address)
      <3>1. CASE file'[g] = file[g]
        BY <3>1 DEF IInv, ToldInv
      <3>2. CASE g = f /\ file'[g] = Changed(file[f], p)
        <4> DEFINE new == [id |-> p[2], address |-> addr[p]]
        <4>1. (i \in DOMAIN file[f] /\ file'[g][i] = file[f][i]) \/ file'[g][i] = new
          BY <1>1, <3>2, ChangedFacts
        <4>2. Told(new.id, new.address)
          BY DEF IInv, ToldInv
        <4>3. \A j \in DOMAIN file[f] : Told(file[f][j].id, file[f][j].address)
          BY <1>1 DEF IInv, ToldInv
        <4> HIDE DEF new
        <4> QED
          BY <4>1, <4>2, <4>3
      <3> QED
        BY <1>4, <3>1, <3>2
    <2> QED
      BY <1>5, <2>1, <2>2 DEF IInv, ToldInv, Told
  <1>9. MinerInv'
    <2> SUFFICES ASSUME NEW id \in MinerIds
                 PROVE  /\ place'[MinerOf(id)] \notin {"connect", "wallet", "publish"}
                        /\ \/ place'[MinerOf(id)] \in {"poll", "noAddress"}
                           \/ addr[MinerOf(id)] # Unknown
      BY <1>5 DEF MinerInv
    <2>1. MinerOf(id) \in Processes
      BY ProcessFacts
    <2>2. CASE MinerOf(id) = p
      BY <1>5, <2>2 DEF IInv, MinerInv, Inside
    <2>3. CASE MinerOf(id) # p
      BY <1>5, <2>1, <2>3 DEF IInv, MinerInv, TypeInv
    <2> QED
      BY <2>2, <2>3
  <1>10. LockInv'
    <2> SUFFICES ASSUME NEW q \in Processes, q # p PROVE LockOf(q)'
      BY OwnLockKept DEF LockInv
    <2>1. \A g \in Files \ {f} :
             file'[g] = file[g] /\ beside'[g] = beside[g] /\ holder'[g] = holder[g]
      BY <1>1, RegisterEffect DEF IInv, TypeInv
    <2>2. place'[q] = place[q] /\ addr'[q] = addr[q] /\ memory'[q] = memory[q]
      BY RegisterEffect DEF IInv, TypeInv
    <2>3. holder[f] \in {Unknown, p}
      BY RegisterEffect
    <2> QED
      BY <2>1, <2>2, <2>3, OthersKeep
  <1> QED
    BY <1>6, <1>7, <1>8, <1>9, <1>10 DEF IInv

LEMMA NextPreserves ==
  ASSUME IInv, [RegistriesNext]_registries
  PROVE  IInv'
  <1>1. CASE Discovery \/ LoadSeeds \/ UNCHANGED registries
    <2>1. UNCHANGED <<file, beside, holder, infoFile, place, addr, memory>>
      BY <1>1 DEF Discovery, LoadSeeds, registries
    <2> QED
      BY <2>1 DEF IInv, TypeInv, WholeInv, ToldInv, Told, MinerInv, LockInv, LockOf, At, Changed
  <1>2. ASSUME NEW p \in Processes, SettingUp(p) PROVE IInv'
    BY <1>2, SetUpPreserves
  <1>3. ASSUME NEW p \in Processes, Registering(p) PROVE IInv'
    BY <1>3, RegisterPreserves
  <1> QED
    BY <1>1, <1>2, <1>3 DEF RegistriesNext, SettingUp, Registering

-----------------------------------------------------------------------------

\* What the readers have seen, beside the invariant.
SightInv ==
    /\ view # Unknown => Whole(view, ListedIds)
    /\ \A p \in Processes : place[p] = "noDaemon" => PublicIds \subseteq {p[2]}

LEMMA SeenStep ==
  ASSUME IInv, SightInv, [RegistriesNext]_registries
  PROVE  SightInv'
  <1>0. /\ \A f \in Files : Whole(file[f], Prepared(f)) /\ file[f] # Partial
        /\ place \in [Processes -> Places]
    BY RegistryAssumption DEF IInv, WholeInv, TypeInv, Partial
  <1>1. view' # Unknown => Whole(view', ListedIds)
    <2>1. CASE Discovery
      <3>1. view' = file["agents"]
        BY <1>0, <2>1 DEF Discovery, Files
      <3> QED
        BY <1>0, <3>1 DEF Files, Prepared
    <2>2. CASE UNCHANGED view
      BY <2>2 DEF SightInv
    <2>3. \A p \in Processes : SettingUp(p) \/ Registering(p) => UNCHANGED view
      BY DEF SettingUp, Registering, FindDaemon, SetupWallet, PublishInfo, FindAddress,
             PollTimesOut, Enter, ReadEntries, WriteBeside, Rename, RegisterFails
    <2> QED
      BY <2>1, <2>2, <2>3
      DEF RegistriesNext, SettingUp, Registering, LoadSeeds, registries
  <1>2. ASSUME NEW q \in Processes, place'[q] = "noDaemon"
        PROVE  PublicIds \subseteq {q[2]}
    <2>1. CASE place[q] = "noDaemon"
      BY <2>1 DEF SightInv
    <2>2. CASE place[q] # "noDaemon"
      <3>1. PICK p \in Processes : SettingUp(p) \/ Registering(p)
        BY <1>2, <2>2
        DEF RegistriesNext, SettingUp, Registering, Discovery, LoadSeeds, registries
      <3>2. ~Registering(p)
        <4> SUFFICES ASSUME Registering(p) PROVE FALSE
          OBVIOUS
        <4>1. place' = [place EXCEPT ![p] = place'[p]]
              /\ place'[p] \in {"announce", "running"} \cup Inside
          BY RegisterEffect
        <4> QED
          BY <1>0, <1>2, <2>2, <4>1 DEF Inside
      <3>3. CASE FindDaemon(p)
        <4>1. q = p /\ Moves(p, "connect", "noDaemon")
          BY <1>0, <1>2, <2>2, <3>3 DEF FindDaemon, Moves
        <4>2. \A i \in DOMAIN file["public"] : file["public"][i].id = p[2]
          BY <1>0, <1>2, <3>3, <4>1 DEF FindDaemon, Moves, Files
        <4>3. Whole(file["public"], PublicIds)
          BY <1>0 DEF Files, Prepared
        <4> QED
          BY <4>1, <4>2, <4>3 DEF Whole
      <3>4. CASE SetupWallet(p) \/ PublishInfo(p) \/ FindAddress(p) \/ PollTimesOut(p)
        <4>1. \E to \in {"publish", "register", "noAddress"} : place' = [place EXCEPT ![p] = to]
          BY <3>4 DEF SetupWallet, PublishInfo, FindAddress, PollTimesOut, Moves
        <4> QED
          BY <1>0, <1>2, <2>2, <4>1
      <3> QED
        BY <3>1, <3>2, <3>3, <3>4 DEF SettingUp
    <2> QED
      BY <2>1, <2>2
  <1> QED
    BY <1>1, <1>2 DEF SightInv

\* Readers without a lock see whole registries, for any number of agents.
THEOREM ReadersSeeAll == RegistriesSpec => []DiscoverySeesAll
  <1>1. RegistriesInit => SightInv
    BY DEF RegistriesInit, SightInv
  <1>2. SightInv => DiscoverySeesAll
    BY DEF SightInv, DiscoverySeesAll, Whole
  <1> QED
    BY <1>1, <1>2, InitInv, NextPreserves, SeenStep, PTL DEF RegistriesSpec

\* An address that has been registered stays, whoever registers after.
THEOREM RegisteredStays == RegistriesSpec => AddressesStay
  <1>1. IInv /\ [RegistriesNext]_registries =>
           [\A i \in DOMAIN file["agents"] :
               file["agents"][i].address # Unknown =>
                  /\ i \in DOMAIN file'["agents"]
                  /\ file'["agents"][i] = file["agents"][i]]_file
    <2> SUFFICES ASSUME IInv, [RegistriesNext]_registries, file' # file,
                        NEW i \in DOMAIN file["agents"], file["agents"][i].address # Unknown
                 PROVE  i \in DOMAIN file'["agents"] /\ file'["agents"][i] = file["agents"][i]
      OBVIOUS
    <2>1. PICK p \in Processes : SettingUp(p) \/ Registering(p)
      BY DEF RegistriesNext, SettingUp, Registering, Discovery, LoadSeeds, registries
    <2>2. Registering(p)
      BY <2>1, SetUpEffect
    <2>3. file' = [file EXCEPT ![At(p)] = beside[At(p)]] /\ Rename(p)
      BY <2>2, RegisterEffect
    <2>4. file \in [Files -> Contents] /\ "agents" \in Files
      BY DEF IInv, TypeInv, Files
    <2>5. CASE At(p) = "agents"
      BY <2>3, <2>4, <2>5, RenameFacts
    <2>6. CASE At(p) # "agents"
      BY <2>3, <2>4, <2>6
    <2> QED
      BY <2>5, <2>6
  <1> QED
    BY <1>1, InitInv, NextPreserves, PTL DEF RegistriesSpec, AddressesStay

=============================================================================
