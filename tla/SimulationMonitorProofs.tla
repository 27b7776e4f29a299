---------------------- MODULE SimulationMonitorProofs ----------------------
(***************************************************************************)
(* Whole tracking files of the monitor hold a scan without gaps and none   *)
(* falls behind an earlier one of its run, and nobody is credited with a   *)
(* block it did not mine: for any number of daemons, chain and faults.     *)
(***************************************************************************)
EXTENDS SimulationMonitor, FiniteSetTheorems, SequenceTheorems, TLAPS

\* The transactions known are those of the blocks up to the last one scanned;
\* the scan goes on where it stopped, beyond what the files of this run tell.
ScanInv ==
    /\ found = {h \in 2..MaxTop : h <= scanned}
    /\ pc = "scan" => reference # Nobody
    /\ pc = "scan" /\ turn <= highest => turn = StartHeight
    /\ told <= scanned

SInv == TypeOK /\ ScanInv

Constants ==
    /\ MaxTop \in Nat \ {0} /\ NDaemons \in Nat \ {0} /\ MaxFaults \in Nat

LEMMA ConstantsTyped == Constants
  BY TopAssumption, DaemonsAssumption, FaultsAssumption DEF Constants

LEMMA InitSInv == Init => SInv
<1> SUFFICES ASSUME Init PROVE SInv
  OBVIOUS
<1>1. TypeOK
  BY ConstantsTyped DEF Init, TypeOK, Constants, Never, Nobody, Unreadable
<1>2. ScanInv
  BY ConstantsTyped DEF Init, ScanInv, Constants, Never
<1> QED
  BY <1>1, <1>2 DEF SInv

\* The daemons move the chain and their logs, nothing of the monitor.
LEMMA DaemonKeeps ==
    ASSUME SInv, NEW d \in Daemons, DaemonStep(d)
    PROVE  SInv'
<1>1. UNCHANGED monitor
  BY DEF DaemonStep, MineBlock, ReceiveBlock, WriteLine, GoDown, ComeUp
<1>2. /\ top' \in 1..MaxTop /\ tip' \in [Daemons -> 1..MaxTop]
      /\ up' \subseteq Daemons /\ mined' \subseteq Daemons \X (2..MaxTop)
      /\ faults' \in 0..MaxFaults
  <2> USE ConstantsTyped DEF SInv, TypeOK, Constants
  <2>1. CASE MineBlock(d)
    BY <2>1 DEF MineBlock
  <2>2. CASE ReceiveBlock(d)
    BY <2>2 DEF ReceiveBlock
  <2>3. CASE WriteLine(d)
    BY <2>3 DEF WriteLine
  <2>4. CASE GoDown(d)
    BY <2>4 DEF GoDown, Fault
  <2>5. CASE ComeUp(d)
    BY <2>5 DEF ComeUp
  <2> QED
    BY <2>1, <2>2, <2>3, <2>4, <2>5 DEF DaemonStep
<1> QED
  BY <1>1, <1>2 DEF monitor, file, SInv, TypeOK, ScanInv, StartHeight

\* Discovery and reading leave the scan alone.
LEMMA LogStepKeeps ==
    ASSUME SInv, Discover \/ GetSize \/ ReadLog \/ ReadRaises \/ LogsDone
    PROVE  SInv'
<1>1. /\ UNCHANGED <<top, tip, up, mined, reference, scanned, found, saved, told>>
      /\ pc' \in {"size", "read", "poll"}
  BY DEF Discover, GetSize, ReadLog, ReadRaises, LogsDone, NextLog, daemons, file
<1>2. turn' \in {1, turn, turn + 1} /\ highest' \in {0, highest}
  BY DEF Discover, GetSize, ReadLog, ReadRaises, LogsDone, NextLog
<1>3. faults' \in 0..MaxFaults
  <2>1. UNCHANGED faults \/ Fault("read")
    BY DEF Discover, GetSize, ReadLog, ReadRaises, LogsDone, NoFault
  <2> QED
    BY <2>1, ConstantsTyped DEF Fault, SInv, TypeOK, Constants
<1>4. TypeOK'
  BY <1>1, <1>2, <1>3, ConstantsTyped DEF SInv, TypeOK, Constants
<1>5. ScanInv'
  BY <1>1 DEF SInv, ScanInv
<1> QED
  BY <1>4, <1>5 DEF SInv

LEMMA PollKeeps ==
    ASSUME SInv, PollDaemon \/ PollDone
    PROVE  SInv'
<1>1. /\ UNCHANGED <<top, tip, up, mined, scanned, found, saved, told, faults>>
      /\ pc' \in {"poll", "scan", "save"}
  BY DEF PollDaemon, PollDone, daemons, file
<1>2. CASE PollDaemon
  <2>1. turn \in Daemons
    BY <1>2, ConstantsTyped DEF PollDaemon, SInv, TypeOK, Constants, Daemons
  <2>2. HeightOf(turn) \in 0..(MaxTop + 1)
    BY <2>1, ConstantsTyped DEF HeightOf, SInv, TypeOK, Constants
  <2>3. /\ highest' \in 0..(MaxTop + 1) /\ reference' \in Daemons \cup {Nobody}
        /\ turn' \in Nat \ {0}
        /\ pc' = "poll"
    BY <1>2, <2>1, <2>2 DEF PollDaemon, Refer, SInv, TypeOK
  <2>4. TypeOK'
    BY <1>1, <2>3 DEF SInv, TypeOK
  <2> QED
    BY <1>1, <2>3, <2>4 DEF SInv, ScanInv
<1>3. CASE PollDone
  <2>1. scanned \in Nat
    BY ConstantsTyped DEF SInv, TypeOK, Constants
  <2>2. /\ turn' = StartHeight /\ StartHeight \in Nat \ {0} /\ StartHeight' = StartHeight
        /\ UNCHANGED <<highest, reference>>
        /\ pc' = "scan" => reference # Nobody
    BY <1>1, <1>3, <2>1 DEF PollDone, StartHeight
  <2> QED
    BY <1>1, <2>2 DEF SInv, TypeOK, ScanInv
<1> QED
  BY <1>2, <1>3

\* The next block is the one above those known.
LEMMA ScanBlockKeeps ==
    ASSUME SInv, ScanBlock
    PROVE  SInv'
<1>1. /\ UNCHANGED <<top, tip, up, mined, reference, highest, saved, told, faults, pc>>
      /\ pc = "scan" /\ turn <= highest /\ turn <= tip[reference]
      /\ found' = found \cup {turn} /\ scanned' = turn /\ turn' = turn + 1
  BY DEF ScanBlock, daemons, file, NoFault
<1>2. reference \in Daemons
  BY <1>1 DEF SInv, TypeOK, ScanInv
<1>3. scanned \in 0..MaxTop /\ turn \in 2..MaxTop /\ turn = StartHeight
  BY <1>1, <1>2, ConstantsTyped DEF SInv, TypeOK, ScanInv, StartHeight, Constants
<1>4. scanned' \in 0..MaxTop /\ scanned < turn /\ (\A h \in 2..MaxTop : h < turn => h <= scanned)
  BY <1>1, <1>3, ConstantsTyped DEF StartHeight, Constants
<1>5. found' = {h \in 2..MaxTop : h <= scanned'}
  BY <1>1, <1>3, <1>4, ConstantsTyped DEF SInv, ScanInv, Constants
<1>6. turn' = StartHeight' /\ turn' \in Nat \ {0}
  BY <1>1, <1>3, ConstantsTyped DEF StartHeight, Constants
<1>7. told' <= scanned'
  BY <1>1, <1>3, <1>4, ConstantsTyped DEF SInv, TypeOK, ScanInv, Constants, Never
<1> QED
  BY <1>1, <1>4, <1>5, <1>6, <1>7 DEF SInv, TypeOK, ScanInv

LEMMA ScanEndKeeps ==
    ASSUME SInv, ScanRaises \/ ScanDone
    PROVE  SInv'
<1>1. /\ UNCHANGED <<top, tip, up, mined, reference, highest, scanned, found, saved, told>>
      /\ pc' \in {"scan", "save"} /\ pc = "scan"
      /\ \/ turn' = highest + 1
         \/ turn' = turn /\ pc' = "save"
  BY DEF ScanRaises, ScanDone, AfterFailure, daemons, file
<1>2. faults' \in 0..MaxFaults
  <2>1. UNCHANGED faults \/ Fault("block")
    BY DEF ScanRaises, ScanDone, NoFault
  <2> QED
    BY <2>1, ConstantsTyped DEF Fault, SInv, TypeOK, Constants
<1>3. turn' \in Nat \ {0} /\ (pc' = "scan" => ~(turn' <= highest'))
  BY <1>1, ConstantsTyped DEF SInv, TypeOK, Constants
<1> QED
  BY <1>1, <1>2, <1>3 DEF SInv, TypeOK, ScanInv

LEMMA SaveKeeps ==
    ASSUME SInv, Save
    PROVE  SInv'
<1>1. /\ UNCHANGED <<top, tip, up, mined, reference, scanned, found>>
      /\ pc' = "discover" /\ turn' = 1 /\ highest' = 0
      /\ \/ saved' = [scanned |-> scanned, found |-> found] /\ told' = scanned
         \/ saved' \in {saved, Unreadable} /\ told' = told
  BY DEF Save, daemons
<1>2. faults' \in 0..MaxFaults
  <2>1. UNCHANGED faults \/ Fault("save")
    BY DEF Save, NoFault
  <2> QED
    BY <2>1, ConstantsTyped DEF Fault, SInv, TypeOK, Constants
<1>3. /\ saved'.scanned \in Never..MaxTop /\ saved'.found \subseteq 2..MaxTop
      /\ told' \in Never..MaxTop /\ told' <= scanned'
  BY <1>1, ConstantsTyped DEF SInv, TypeOK, ScanInv, Constants, Never, Unreadable
<1> QED
  BY <1>1, <1>2, <1>3, ConstantsTyped DEF SInv, TypeOK, ScanInv, Constants

\* A new run has told nothing yet.
LEMMA RestartKeeps ==
    ASSUME SInv, Restart
    PROVE  SInv'
<1>1. /\ UNCHANGED <<top, tip, up, mined>>
      /\ pc' = "discover" /\ turn' = 1 /\ highest' = 0 /\ reference' = Nobody
      /\ scanned' = 0 /\ found' = {} /\ told' = Never
      /\ saved' \in {saved, Unreadable}
  BY DEF Restart, daemons
<1>2. faults' \in 0..MaxFaults
  BY ConstantsTyped DEF Restart, Fault, SInv, TypeOK, Constants
<1>3. TypeOK'
  BY <1>1, <1>2, ConstantsTyped DEF SInv, TypeOK, Constants, Never, Unreadable
<1>4. ScanInv'
  BY <1>1, ConstantsTyped DEF ScanInv, Constants, Never
<1> QED
  BY <1>3, <1>4 DEF SInv

LEMMA StepKeeps == SInv /\ [Next]_vars => SInv'
<1> SUFFICES ASSUME SInv, [Next]_vars PROVE SInv'
  OBVIOUS
<1>1. CASE UNCHANGED vars
  BY <1>1 DEF vars, daemons, monitor, file, SInv, TypeOK, ScanInv, StartHeight
<1>2. CASE MonitorStep
  BY <1>2, LogStepKeeps, PollKeeps, ScanBlockKeeps, ScanEndKeeps, SaveKeeps DEF MonitorStep
<1> QED
  BY <1>1, <1>2, DaemonKeeps, RestartKeeps DEF Next

\* Type correctness of the chain, the scan and the tracking file.
THEOREM MonitorTypeCorrect == Spec => []TypeOK
<1>1. SInv => TypeOK
  BY DEF SInv
<1> QED
  BY <1>1, InitSInv, StepKeeps, PTL DEF Spec

\* Whatever fails and whoever is down, a whole transaction_tracking.json holds the
\* scan up to a block without gaps and goes as far as the whole ones before it in
\* the same run of the monitor, torn ones in between or not.
THEOREM FileMovesForward == Spec => SavedMovesForward
<1>1. SInv /\ [Next]_vars =>
          [saved' \notin {saved, Unreadable} =>
               /\ saved'.scanned >= told
               /\ saved'.found = {h \in 2..MaxTop : h <= saved'.scanned}]_vars
  <2> SUFFICES ASSUME SInv, Next, saved' \notin {saved, Unreadable}
               PROVE  /\ saved'.scanned >= told
                      /\ saved'.found = {h \in 2..MaxTop : h <= saved'.scanned}
    OBVIOUS
  <2>1. saved' = [scanned |-> scanned, found |-> found]
    <3>1. CASE MonitorStep
      BY <3>1 DEF MonitorStep, Discover, GetSize, ReadLog, ReadRaises, LogsDone, PollDaemon,
         PollDone, ScanBlock, ScanRaises, ScanDone, Save, file
    <3>2. CASE Restart
      BY <3>2 DEF Restart
    <3>3. ASSUME NEW d \in Daemons, DaemonStep(d) PROVE saved' = saved
      BY <3>3 DEF DaemonStep, MineBlock, ReceiveBlock, WriteLine, GoDown, ComeUp, monitor, file
    <3> QED
      BY <3>1, <3>2, <3>3 DEF Next
  <2> QED
    BY <2>1, ConstantsTyped DEF SInv, TypeOK, ScanInv, Constants, Never
<1> QED
  BY <1>1, InitSInv, StepKeeps, PTL DEF Spec, SavedMovesForward

-----------------------------------------------------------------------------
(* Credit. *)

\* A finite set of integers can be listed in order: an element goes to the place
\* given by the number of those below it.
LEMMA InOrder ==
    ASSUME NEW S, \A x \in S : x \in Int, IsFiniteSet(S)
    PROVE  \E r \in [1..Cardinality(S) -> S] : \A i, j \in DOMAIN r : i < j => r[i] < r[j]
<1> DEFINE n == Cardinality(S)
           D == 1..n
           Below(s, i) == {j \in D : s[j] < s[i]}
<1>1. n \in Nat /\ IsFiniteSet(D) /\ Cardinality(D) = n
  BY FS_CardinalityType, FS_Interval
<1>a. \A T : T \subseteq D => /\ IsFiniteSet(T) /\ Cardinality(T) <= n
                              /\ Cardinality(T) = n => T = D
  BY <1>1, FS_Subset
<1> HIDE DEF n
<1>2. PICK s \in [D -> S] : \A i, j \in D : s[i] = s[j] => i = j
  BY FS_CardinalityType DEF ExistsBijection, Bijection, Injection, IsInjective, n
<1>3. \A i \in D : s[i] \in Int
  BY <1>2
<1> DEFINE rank == [i \in D |-> Cardinality(Below(s, i)) + 1]
<1>4. \A i \in D : IsFiniteSet(Below(s, i)) /\ Cardinality(Below(s, i)) \in 0..(n - 1)
  <2> SUFFICES ASSUME NEW i \in D
               PROVE  IsFiniteSet(Below(s, i)) /\ Cardinality(Below(s, i)) \in 0..(n - 1)
    OBVIOUS
  <2>1. Below(s, i) \subseteq D /\ i \notin Below(s, i)
    BY <1>3
  <2>2. /\ IsFiniteSet(Below(s, i)) /\ Cardinality(Below(s, i)) <= n
        /\ Cardinality(Below(s, i)) = n => Below(s, i) = D
    BY <1>a, <2>1
  <2>3. Cardinality(Below(s, i)) \in Nat
    BY <2>2, FS_CardinalityType
  <2> QED
    BY <2>1, <2>2, <2>3, <1>1
<1> HIDE DEF Below
<1>5. rank \in [D -> D]
  <2>1. \A i \in D : Cardinality(Below(s, i)) + 1 \in D
    BY <1>1, <1>4
  <2> QED
    BY <2>1
<1>6. \A i, j \in D : s[i] < s[j] => rank[i] < rank[j]
  <2> SUFFICES ASSUME NEW i \in D, NEW j \in D, s[i] < s[j] PROVE rank[i] < rank[j]
    OBVIOUS
  <2>1. Below(s, i) \subseteq Below(s, j) /\ i \in Below(s, j) /\ i \notin Below(s, i)
    BY <1>3 DEF Below
  <2>2. /\ Cardinality(Below(s, i)) <= Cardinality(Below(s, j))
        /\ Cardinality(Below(s, i)) # Cardinality(Below(s, j))
    BY <1>4, <2>1, FS_Subset
  <2>3. Cardinality(Below(s, i)) \in Int /\ Cardinality(Below(s, j)) \in Int
    BY <1>4
  <2> QED
    BY <2>2, <2>3
<1> HIDE DEF rank
<1>7. \A i, j \in D : rank[i] = rank[j] => i = j
  BY <1>2, <1>3, <1>5, <1>6
<1>8. \A w \in D : \E i \in D : rank[i] = w
  <2>1. rank \in Injection(D, D)
    BY <1>5, <1>7 DEF Injection, IsInjective
  <2>2. rank \in Surjection(D, D)
    BY <2>1, <1>1, FS_Injection
  <2> QED
    BY <2>2 DEF Surjection
<1> DEFINE p == [w \in D |-> CHOOSE i \in D : rank[i] = w]
           r == [w \in D |-> s[p[w]]]
<1>9. p \in [D -> D] /\ \A w \in D : rank[p[w]] = w
  BY <1>8
<1> HIDE DEF p
<1>10. \A i, j \in D : i < j => s[p[i]] < s[p[j]]
  <2>1. \A w \in D : p[w] \in D /\ s[p[w]] \in Int /\ rank[p[w]] = w /\ w \in Int
    BY <1>3, <1>9
  <2> QED
    BY <1>2, <1>6, <2>1, SMTT(30)
<1>11. r \in [D -> S] /\ \A i, j \in DOMAIN r : i < j => r[i] < r[j]
  BY <1>2, <1>9, <1>10
<1> QED
  BY <1>11 DEF n

\* What a daemon writes.
Lines == [kind : LineKinds, height : Nat]

\* Where the lines of a daemon tell the truth about the heights it mined: a block
\* mined with one line is its own, and a marker stands between the line that says
\* where the block is from and the line with its height.
TrueLines(lines, heights) ==
    \A i \in 1..Len(lines) :
        /\ lines[i].kind = "mined" => lines[i].height \in heights
        /\ lines[i].kind = "added" =>
               /\ 1 < i /\ i < Len(lines)
               /\ lines[i + 1].kind = "height"
               /\ \/ lines[i - 1].kind = "notify"
                  \/ lines[i - 1].kind = "generateblocks" /\ lines[i + 1].height \in heights

\* The height found for a marker is the one on the next line, however far ahead
\* the parser may look.
LEMMA FirstHeight ==
    ASSUME NEW t \in Seq(Lines), NEW i \in 1..Len(t), t[i].kind = "added",
           i < Len(t) => t[i + 1].kind = "height", HeightLines(t, i) # {}
    PROVE  i < Len(t) /\ Min(HeightLines(t, i)) = i + 1
<1> DEFINE H == HeightLines(t, i)
<1>1. DOMAIN t = 1..Len(t) /\ Len(t) \in Nat
  OBVIOUS
<1>2. PICK j \in H : TRUE
  OBVIOUS
<1>3. j \in 1..Len(t) /\ i <= j /\ j < i + Ahead /\ t[j].kind = "height"
  BY <1>1, <1>2 DEF HeightLines
<1>4. j # i
  BY <1>3
<1>5. i + 1 \in 1..Len(t) /\ i + 1 < i + Ahead
  BY <1>3, <1>4, <1>1, ContextAssumption
<1>6. i + 1 \in H
  BY <1>1, <1>5 DEF HeightLines
<1>7. \A k \in H : i + 1 <= k /\ k \in Int
  <2> SUFFICES ASSUME NEW k \in H PROVE i + 1 <= k /\ k \in Int
    OBVIOUS
  <2>1. k \in 1..Len(t) /\ i <= k /\ k # i
    BY <1>1 DEF HeightLines
  <2> QED
    BY <2>1
<1>8. \A k \in H : (\A l \in H : k <= l) => k = i + 1
  BY <1>6, <1>7
<1>9. Min(H) = CHOOSE x \in H : \A y \in H : x <= y
  BY DEF Min
<1>10. Min(H) = i + 1
  BY <1>6, <1>7, <1>8, <1>9
<1> QED
  BY <1>5, <1>10

\* Whatever chunk of such lines is read, and however many lines of context are
\* looked at, the parser finds only heights of blocks the daemon mined: where the
\* chunk begins at a marker its context is empty, where it ends at one there is no
\* height.
LEMMA ChunkOfTrueLines ==
    ASSUME NEW lines \in Seq(Lines), NEW heights, TrueLines(lines, heights),
           NEW begin \in Nat, NEW t \in Seq(Lines), begin + Len(t) <= Len(lines),
           \A i \in 1..Len(t) : t[i] = lines[begin + i]
    PROVE  MinedHeights(t) \subseteq heights
<1> SUFFICES ASSUME NEW h \in MinedHeights(t) PROVE h \in heights
  OBVIOUS
<1>1. DOMAIN t = 1..Len(t) /\ Len(t) \in Nat /\ Len(lines) \in Nat
  OBVIOUS
<1>2. \A i \in 1..Len(t) : begin + i \in 1..Len(lines)
  BY <1>1
<1>3. ASSUME NEW i \in DOMAIN t, t[i].kind = "mined", h = t[i].height
      PROVE  h \in heights
  <2>1. begin + i \in 1..Len(lines) /\ t[i] = lines[begin + i]
    BY <1>1, <1>2
  <2> QED
    BY <1>3, <2>1 DEF TrueLines
<1>4. ASSUME NEW i \in DOMAIN t, LocallyAdded(t, i), HeightLines(t, i) # {},
             h = t[Min(HeightLines(t, i))].height
      PROVE  h \in heights
  <2>1. PICK j \in DOMAIN t : i - Back <= j /\ j < i /\ t[j].kind = "generateblocks"
    BY <1>4 DEF LocallyAdded, Context
  <2>2. i - 1 \in DOMAIN t /\ i - Back <= i - 1 /\ i - 1 < i
    BY <1>1, <2>1, ContextAssumption
  <2>3. t[i - 1].kind \in Context(t, i)
    BY <2>2 DEF Context
  <2>4. t[i - 1].kind # "notify"
    BY <2>3, <1>4 DEF LocallyAdded
  <2>5. /\ t[i].kind = "added" /\ lines[begin + i].kind = "added"
        /\ t[i - 1] = lines[begin + i - 1]
    <3>1. t[i - 1] = lines[begin + (i - 1)]
      BY <2>2, <1>1
    <3>2. begin + (i - 1) = begin + i - 1
      BY <1>1
    <3> QED
      BY <1>1, <1>4, <3>1, <3>2 DEF LocallyAdded
  <2>6. lines[begin + i + 1].kind = "height" /\ lines[begin + i + 1].height \in heights
    <3>1. begin + i \in 1..Len(lines)
      BY <1>1, <1>2
    <3> QED
      BY <2>4, <2>5, <3>1, SMTT(30) DEF TrueLines
  <2>7. i < Len(t) => t[i + 1] = lines[begin + i + 1]
    <3> SUFFICES ASSUME i < Len(t) PROVE t[i + 1] = lines[begin + i + 1]
      OBVIOUS
    <3>1. i + 1 \in 1..Len(t) /\ begin + (i + 1) = begin + i + 1
      BY <1>1
    <3> QED
      BY <3>1
  <2>8. i < Len(t) /\ Min(HeightLines(t, i)) = i + 1
    BY <1>1, <1>4, <2>5, <2>6, <2>7, FirstHeight
  <2> QED
    BY <1>4, <2>6, <2>7, <2>8
<1> QED
  BY <1>3, <1>4 DEF MinedHeights

\* The heights of the blocks d mined.
MinedBy(d) == {h \in 2..MaxTop : <<d, h>> \in mined}

\* With the lines it is about to write, each daemon's log tells the truth.
LogInv ==
    /\ log \in [Daemons -> Seq(Lines)] /\ pending \in [Daemons -> Seq(Lines)]
    /\ \A d \in Daemons : TrueLines(log[d] \o pending[d], MinedBy(d))

\* The size was not above the length of the log when it was taken, and the log
\* only grows.
FilesInv ==
    /\ files \in Seq(Daemons) /\ position \in [Daemons -> Nat] /\ size \in Nat
    /\ pc = "read" => /\ turn \in 1..Len(files)
                      /\ position[files[turn]] < size
                      /\ size <= Len(log[files[turn]])

\* The credit goes to daemons and to heights of the chain.
CreditInv ==
    /\ DOMAIN credit \subseteq 2..MaxTop
    /\ credit \in [DOMAIN credit -> Daemons]
    /\ total \in [Daemons -> Nat]
    /\ CreditIsEarned

CInv == SInv /\ LogInv /\ FilesInv /\ CreditInv

\* Blocks of lines that are true one by one are true in a row.
LEMMA TrueConcat ==
    ASSUME NEW s \in Seq(Lines), NEW t \in Seq(Lines), NEW heights, NEW more,
           heights \subseteq more, TrueLines(s, heights), TrueLines(t, more)
    PROVE  s \o t \in Seq(Lines) /\ TrueLines(s \o t, more)
<1> DEFINE u == s \o t
<1>1. /\ u \in Seq(Lines) /\ Len(u) = Len(s) + Len(t)
      /\ \A i \in 1..Len(s) : u[i] = s[i]
      /\ \A i \in 1..Len(t) : u[Len(s) + i] = t[i]
      /\ Len(s) \in Nat /\ Len(t) \in Nat
  OBVIOUS
<1> HIDE DEF u
<1>2. ASSUME NEW i \in 1..Len(s)
      PROVE  /\ u[i].kind = "mined" => u[i].height \in more
             /\ u[i].kind = "added" =>
                    /\ 1 < i /\ i < Len(u)
                    /\ u[i + 1].kind = "height"
                    /\ \/ u[i - 1].kind = "notify"
                       \/ u[i - 1].kind = "generateblocks" /\ u[i + 1].height \in more
  <2>1. u[i] = s[i]
    BY <1>1
  <2>2. 1 < i => u[i - 1] = s[i - 1]
    BY <1>1
  <2>3. i < Len(s) => u[i + 1] = s[i + 1]
    BY <1>1
  <2>4. i < Len(s) => i < Len(u)
    BY <1>1
  <2> QED
    BY <2>1, <2>2, <2>3, <2>4 DEF TrueLines
<1>3. ASSUME NEW j \in 1..Len(t)
      PROVE  LET i == Len(s) + j
             IN  /\ u[i].kind = "mined" => u[i].height \in more
                 /\ u[i].kind = "added" =>
                        /\ 1 < i /\ i < Len(u)
                        /\ u[i + 1].kind = "height"
                        /\ \/ u[i - 1].kind = "notify"
                           \/ u[i - 1].kind = "generateblocks" /\ u[i + 1].height \in more
  <2> DEFINE i == Len(s) + j
  <2>1. u[i] = t[j]
    BY <1>1
  <2>2. 1 < j => u[i - 1] = t[j - 1]
    <3> SUFFICES ASSUME 1 < j PROVE u[i - 1] = t[j - 1]
      OBVIOUS
    <3>1. j - 1 \in 1..Len(t) /\ i - 1 = Len(s) + (j - 1)
      BY <1>1
    <3> QED
      BY <1>1, <3>1
  <2>3. j < Len(t) => u[i + 1] = t[j + 1]
    <3> SUFFICES ASSUME j < Len(t) PROVE u[i + 1] = t[j + 1]
      OBVIOUS
    <3>1. j + 1 \in 1..Len(t) /\ i + 1 = Len(s) + (j + 1)
      BY <1>1
    <3> QED
      BY <1>1, <3>1
  <2>4. (1 < j => 1 < i) /\ (j < Len(t) => i < Len(u))
    BY <1>1
  <2> HIDE DEF i
  <2> QED
    BY <2>1, <2>2, <2>3, <2>4 DEF TrueLines, i
<1>4. ASSUME NEW i \in 1..Len(u)
      PROVE  /\ u[i].kind = "mined" => u[i].height \in more
             /\ u[i].kind = "added" =>
                    /\ 1 < i /\ i < Len(u)
                    /\ u[i + 1].kind = "height"
                    /\ \/ u[i - 1].kind = "notify"
                       \/ u[i - 1].kind = "generateblocks" /\ u[i + 1].height \in more
  <2>1. CASE i \in 1..Len(s)
    BY <1>2, <2>1
  <2>2. CASE i \notin 1..Len(s)
    <3>1. i - Len(s) \in 1..Len(t) /\ i = Len(s) + (i - Len(s))
      BY <1>1, <2>2
    <3> QED
      BY <1>3, <3>1
  <2> QED
    BY <2>1, <2>2
<1> QED
  BY <1>1, <1>4 DEF TrueLines, u

\* What a daemon writes about one block is true.
LEMMA BlockLinesTrue ==
    ASSUME NEW heights, NEW h \in Nat
    PROVE  /\ <<Line("notify", 0), Line("added", 0), Line("height", h)>> \in Seq(Lines)
           /\ TrueLines(<<Line("notify", 0), Line("added", 0), Line("height", h)>>, heights)
           /\ h \in heights =>
                  /\ <<Line("mined", h)>> \in Seq(Lines)
                  /\ TrueLines(<<Line("mined", h)>>, heights)
                  /\ <<Line("generateblocks", 0), Line("added", 0), Line("height", h)>>
                         \in Seq(Lines)
                  /\ TrueLines(<<Line("generateblocks", 0), Line("added", 0),
                                 Line("height", h)>>, heights)
  BY DEF Lines, Line, LineKinds, TrueLines

LEMMA InitCInv == Init => CInv
<1> SUFFICES ASSUME Init PROVE CInv
  OBVIOUS
<1>1. LogInv
  BY DEF Init, LogInv, TrueLines
<1>2. FilesInv
  BY DEF Init, FilesInv
<1>3. credit = <<>> /\ DOMAIN credit = {} /\ total = [d \in Daemons |-> 0]
  BY DEF Init
<1>4. \A d \in Daemons : {h \in DOMAIN credit : credit[h] = d} = {}
  BY <1>3
<1>5. CreditInv
  BY <1>3, <1>4, FS_EmptySet DEF CreditInv, CreditIsEarned
<1> QED
  BY <1>1, <1>2, <1>5, InitSInv DEF CInv

\* Three facts about sequences.
LEMMA PrefixOfConcat ==
    ASSUME NEW S, NEW s \in Seq(S), NEW t \in Seq(S)
    PROVE  /\ s \o t \in Seq(S) /\ Len(s) <= Len(s \o t)
           /\ \A i \in 1..Len(s) : (s \o t)[i] = s[i]
  OBVIOUS

LEMMA ChunkIs ==
    ASSUME NEW S, NEW s \in Seq(S), NEW begin \in Nat, NEW end \in Nat,
           begin < end, end <= Len(s)
    PROVE  /\ SubSeq(s, begin + 1, end) \in Seq(S)
           /\ Len(SubSeq(s, begin + 1, end)) = end - begin
           /\ \A i \in 1..(end - begin) : SubSeq(s, begin + 1, end)[i] = s[begin + i]
<1>1. \A i \in (begin + 1)..end : s[i] \in S
  OBVIOUS
<1>2. begin + 1 \in Int /\ end \in Int /\ begin + 1 <= end /\ end - (begin + 1) + 1 = end - begin
  OBVIOUS
<1>3. \A i \in 1..(end - begin) : (begin + 1) + i - 1 = begin + i
  OBVIOUS
<1> DEFINE b == begin + 1
<1>4. b \in Int /\ \A i \in b..end : s[i] \in S
  BY <1>1
<1> HIDE DEF b
<1>5. /\ SubSeq(s, b, end) \in Seq(S)
      /\ Len(SubSeq(s, b, end)) = IF b <= end THEN end - b + 1 ELSE 0
      /\ \A i \in 1..(end - b + 1) : SubSeq(s, b, end)[i] = s[b + i - 1]
  BY <1>4, SubSeqProperties
<1> QED
  BY <1>2, <1>3, <1>5 DEF b

LEMMA MoveHead ==
    ASSUME NEW S, NEW s \in Seq(S), NEW t \in Seq(S), t # <<>>
    PROVE  /\ Append(s, Head(t)) \in Seq(S) /\ Tail(t) \in Seq(S)
           /\ Append(s, Head(t)) \o Tail(t) = s \o t
<1> DEFINE a == Append(s, Head(t))
           b == Tail(t)
<1>1. Len(t) \in Nat /\ Len(t) > 0 /\ Len(s) \in Nat
  OBVIOUS
<1>2. /\ a \in Seq(S) /\ Len(a) = Len(s) + 1
      /\ \A i \in 1..Len(s) : a[i] = s[i]
      /\ a[Len(s) + 1] = t[1]
  OBVIOUS
<1>3. /\ b \in Seq(S) /\ Len(b) = Len(t) - 1
      /\ \A i \in 1..(Len(t) - 1) : b[i] = t[i + 1]
  OBVIOUS
<1> HIDE DEF a, b
<1>4. /\ a \o b \in Seq(S) /\ Len(a \o b) = Len(a) + Len(b)
      /\ \A i \in 1..(Len(a) + Len(b)) :
             (a \o b)[i] = IF i <= Len(a) THEN a[i] ELSE b[i - Len(a)]
  BY <1>2, <1>3, ConcatProperties
<1>5. /\ s \o t \in Seq(S) /\ Len(s \o t) = Len(s) + Len(t)
      /\ \A i \in 1..(Len(s) + Len(t)) :
             (s \o t)[i] = IF i <= Len(s) THEN s[i] ELSE t[i - Len(s)]
  BY ConcatProperties
<1>6. ASSUME NEW i \in 1..(Len(s) + Len(t)) PROVE (a \o b)[i] = (s \o t)[i]
  <2>1. CASE i <= Len(s)
    BY <2>1, <1>1, <1>2, <1>3, <1>4, <1>5
  <2>2. CASE i = Len(s) + 1
    BY <2>2, <1>1, <1>2, <1>3, <1>4, <1>5
  <2>3. CASE i > Len(s) + 1
    <3>1. (a \o b)[i] = b[i - (Len(s) + 1)] /\ (s \o t)[i] = t[i - Len(s)]
      BY <2>3, <1>1, <1>2, <1>3, <1>4, <1>5
    <3>2. i - (Len(s) + 1) \in 1..(Len(t) - 1) /\ i - (Len(s) + 1) + 1 = i - Len(s)
      BY <2>3, <1>1
    <3> QED
      BY <1>3, <3>1, <3>2
  <2>4. i \in Int /\ Len(s) \in Int
    BY <1>1
  <2> HIDE DEF a, b
  <2>5. i <= Len(s) \/ i = Len(s) + 1 \/ i > Len(s) + 1
    BY <2>4
  <2> QED
    BY <2>1, <2>2, <2>3, <2>5
<1>7. a \o b = s \o t
  <2> DEFINE u == a \o b
             v == s \o t
  <2>1. u \in Seq(S) /\ v \in Seq(S) /\ Len(u) = Len(v)
    BY <1>1, <1>2, <1>3, <1>4, <1>5
  <2>2. \A i \in 1..Len(u) : u[i] = v[i]
    BY <1>1, <1>2, <1>3, <1>4, <1>6
  <2> HIDE DEF u, v
  <2>3. u = v
    BY <2>1, <2>2, SeqEqual
  <2> QED
    BY <2>3 DEF u, v
<1> QED
  BY <1>2, <1>3, <1>7 DEF a, b

\* The list of new logs is a sequence of daemons.
LEMMA NewLogsSeq ==
    ASSUME NDaemons \in Nat
    PROVE  NewLogs \in Seq(Daemons)
<1> DEFINE new == {d \in Daemons : log[d] # <<>>} \ Discovered
<1>1. IsFiniteSet(Daemons)
  BY FS_Interval DEF Daemons
<1>2. new \subseteq Daemons /\ \A d \in new : d \in Int
  BY DEF Daemons
<1>3. IsFiniteSet(new) /\ Cardinality(new) \in Nat
  BY <1>1, <1>2, FS_Subset, FS_CardinalityType
<1>4. NewLogs = CHOOSE s \in [1..Cardinality(new) -> new] :
                    \A i, j \in DOMAIN s : i < j => s[i] < s[j]
  BY DEF NewLogs
<1> HIDE DEF new
<1>5. \E s \in [1..Cardinality(new) -> new] :
          \A i, j \in DOMAIN s : i < j => s[i] < s[j]
  BY <1>2, <1>3, InOrder
<1>6. NewLogs \in [1..Cardinality(new) -> new]
  BY <1>4, <1>5
<1> QED
  BY <1>2, <1>3, <1>6

\* A block of lines is buffered only when the one before it is written.
LEMMA BlockLogged ==
    ASSUME LogInv, NEW d \in Daemons, pending[d] = <<>>,
           NEW lines \in Seq(Lines), TrueLines(lines, MinedBy(d)'),
           log' = log, pending' = [pending EXCEPT ![d] = lines],
           mined \subseteq mined'
    PROVE  LogInv'
<1>1. log[d] \in Seq(Lines) /\ TrueLines(log[d], MinedBy(d))
  <2>1. log[d] \in Seq(Lines) /\ TrueLines(log[d] \o pending[d], MinedBy(d))
    BY DEF LogInv
  <2>2. log[d] \o pending[d] = log[d]
    BY <2>1, ConcatEmptySeq
  <2> QED
    BY <2>1, <2>2
<1>2. \A e \in Daemons : MinedBy(e) \subseteq MinedBy(e)'
  BY DEF MinedBy
<1>3. TrueLines(log[d] \o lines, MinedBy(d)')
  BY <1>1, <1>2, TrueConcat
<1>4. ASSUME NEW e \in Daemons
      PROVE  TrueLines(log'[e] \o pending'[e], MinedBy(e)')
  <2>1. CASE e = d
    BY <1>3, <2>1 DEF LogInv
  <2>2. CASE e # d
    <3>1. log'[e] = log[e] /\ pending'[e] = pending[e]
      BY <2>2 DEF LogInv
    <3>2. TrueLines(log[e] \o pending[e], MinedBy(e))
      BY DEF LogInv
    <3>3. TrueLines(log[e] \o pending[e], MinedBy(e)')
      BY <1>2, <3>2, Zenon DEF TrueLines
    <3> QED
      BY <3>1, <3>3
  <2> QED
    BY <2>1, <2>2
<1>5. log' \in [Daemons -> Seq(Lines)] /\ pending' \in [Daemons -> Seq(Lines)]
  BY DEF LogInv
<1> QED
  BY <1>4, <1>5 DEF LogInv

\* The daemons write the truth, one line at a time.
LEMMA DaemonLogs ==
    ASSUME CInv, NEW d \in Daemons, DaemonStep(d)
    PROVE  LogInv' /\ mined \subseteq mined'
<1> USE DEF CInv
<1>1. CASE MineBlock(d)
  <2> DEFINE h == tip[d] + 1
  <2>1. h \in 2..MaxTop /\ h \in Nat
    BY <1>1, ConstantsTyped DEF MineBlock, SInv, TypeOK, Constants
  <2>2. /\ pending[d] = <<>> /\ log' = log /\ mined' = mined \cup {<<d, h>>}
        /\ pending' = [pending EXCEPT ![d] =
               IF Style[d] = "mined" THEN <<Line("mined", h)>>
               ELSE <<Line("generateblocks", 0), Line("added", 0), Line("height", h)>>]
    BY <1>1 DEF MineBlock, Writes
  <2>3. h \in MinedBy(d)'
    BY <2>1, <2>2 DEF MinedBy
  <2> HIDE DEF h
  <2>4. CASE Style[d] = "mined"
    <3>1. <<Line("mined", h)>> \in Seq(Lines) /\ TrueLines(<<Line("mined", h)>>, MinedBy(d)')
      BY <2>1, <2>3, BlockLinesTrue
    <3> QED
      BY <2>2, <2>4, <3>1, BlockLogged
  <2>5. CASE Style[d] # "mined"
    <3> DEFINE lines == <<Line("generateblocks", 0), Line("added", 0), Line("height", h)>>
    <3>1. lines \in Seq(Lines) /\ TrueLines(lines, MinedBy(d)')
      BY <2>1, <2>3, BlockLinesTrue
    <3>2. pending' = [pending EXCEPT ![d] = lines]
      BY <2>2, <2>5
    <3> HIDE DEF lines
    <3> QED
      BY <2>2, <3>1, <3>2, BlockLogged
  <2> QED
    BY <2>2, <2>4, <2>5
<1>2. CASE ReceiveBlock(d)
  <2> DEFINE lines == <<Line("notify", 0), Line("added", 0), Line("height", tip[d] + 1)>>
  <2>1. tip[d] + 1 \in Nat
    BY ConstantsTyped DEF SInv, TypeOK, Constants
  <2>2. /\ pending[d] = <<>> /\ log' = log /\ mined' = mined
        /\ pending' = [pending EXCEPT ![d] = lines]
    BY <1>2 DEF ReceiveBlock, Writes
  <2>3. lines \in Seq(Lines) /\ TrueLines(lines, MinedBy(d)')
    BY <2>1, BlockLinesTrue
  <2> HIDE DEF lines
  <2> QED
    BY <2>2, <2>3, BlockLogged
<1>3. CASE WriteLine(d)
  <2>1. /\ pending[d] # <<>> /\ mined' = mined
        /\ log' = [log EXCEPT ![d] = Append(@, Head(pending[d]))]
        /\ pending' = [pending EXCEPT ![d] = Tail(pending[d])]
    BY <1>3 DEF WriteLine, Writes
  <2>2. log[d] \in Seq(Lines) /\ pending[d] \in Seq(Lines)
    BY DEF LogInv
  <2>3. /\ Append(log[d], Head(pending[d])) \in Seq(Lines) /\ Tail(pending[d]) \in Seq(Lines)
        /\ Append(log[d], Head(pending[d])) \o Tail(pending[d]) = log[d] \o pending[d]
    BY <2>1, <2>2, MoveHead
  <2>4. log' \in [Daemons -> Seq(Lines)] /\ pending' \in [Daemons -> Seq(Lines)]
    BY <2>1, <2>3 DEF LogInv
  <2>5. \A e \in Daemons : log'[e] \o pending'[e] = log[e] \o pending[e]
    BY <2>1, <2>3 DEF LogInv
  <2> QED
    BY <2>1, <2>4, <2>5 DEF LogInv, MinedBy
<1>4. CASE GoDown(d) \/ ComeUp(d)
  BY <1>4 DEF GoDown, ComeUp, LogInv, MinedBy
<1> QED
  BY <1>1, <1>2, <1>3, <1>4 DEF DaemonStep

LEMMA DaemonKeepsCredit ==
    ASSUME CInv, NEW d \in Daemons, DaemonStep(d)
    PROVE  CInv'
<1> USE DEF CInv
<1>1. UNCHANGED monitor /\ LogInv' /\ mined \subseteq mined' /\ SInv'
  BY DaemonLogs, DaemonKeeps
     DEF DaemonStep, MineBlock, ReceiveBlock, WriteLine, GoDown, ComeUp
<1>2. \A e \in Daemons : Len(log'[e]) \in Nat /\ Len(log'[e]) >= Len(log[e])
  <2>1. CASE log' = log
    BY <2>1 DEF LogInv
  <2>2. CASE WriteLine(d)
    BY <2>2, <1>1 DEF WriteLine, LogInv
  <2> QED
    BY <2>1, <2>2 DEF DaemonStep, MineBlock, ReceiveBlock, GoDown, ComeUp
<1>3. FilesInv'
  <2>1. UNCHANGED <<files, position, size, turn, pc>>
    BY <1>1 DEF monitor
  <2>2. pc = "read" => Len(log'[files[turn]]) >= size
    <3> SUFFICES ASSUME pc = "read" PROVE Len(log'[files[turn]]) >= size
      OBVIOUS
    <3>1. files[turn] \in Daemons
      BY DEF FilesInv
    <3>2. Len(log[files[turn]]) \in Nat
      BY <3>1 DEF LogInv
    <3> QED
      BY <1>2, <3>1, <3>2 DEF FilesInv
  <2> QED
    BY <2>1, <2>2 DEF FilesInv
<1>4. CreditInv'
  BY <1>1 DEF monitor, CreditInv, CreditIsEarned
<1> QED
  BY <1>1, <1>3, <1>4

\* Only ReadLog changes the credit; only Discover and GetSize the rest.
LEMMA OtherMonitorKeeps ==
    ASSUME CInv, MonitorStep, ~ReadLog
    PROVE  CInv'
<1> USE DEF CInv
<1>1. UNCHANGED <<daemons, position, credit, total>>
  BY DEF MonitorStep, Discover, GetSize, ReadLog, ReadRaises, LogsDone, PollDaemon, PollDone,
     ScanBlock, ScanRaises, ScanDone, Save
<1>2. LogInv' /\ CreditInv'
  BY <1>1 DEF daemons, LogInv, MinedBy, CreditInv, CreditIsEarned
<1>3. SInv'
  BY StepKeeps DEF Next
<1>4. CASE Discover
  <2>1. files' \in Seq(Daemons)
    <3>1. NewLogs \in Seq(Daemons)
      BY NewLogsSeq, ConstantsTyped DEF Constants
    <3> QED
      BY <1>4, <3>1 DEF Discover, FilesInv
  <2> QED
    BY <1>1, <1>2, <1>3, <1>4, <2>1 DEF Discover, FilesInv
<1>5. CASE GetSize
  <2> DEFINE d == files[turn]
  <2>1. turn \in 1..Len(files) /\ d \in Daemons
    BY <1>5 DEF GetSize, FilesInv, SInv, TypeOK
  <2>2. Len(log[d]) \in Nat /\ position[d] \in Nat
    BY <2>1 DEF LogInv, FilesInv
  <2>3. UNCHANGED <<files, log>>
    BY <1>5 DEF GetSize, daemons
  <2>4. \/ pc' = "size" /\ size' = 0
        \/ pc' = "read" /\ size' = Len(log[d]) /\ turn' = turn /\ position[d] < size'
    BY <1>5, <2>1, <2>2 DEF GetSize, NextLog
  <2>5. FilesInv'
    BY <1>1, <2>1, <2>2, <2>3, <2>4 DEF FilesInv
  <2> QED
    BY <1>2, <1>3, <2>5
<1>6. CASE ~Discover /\ ~GetSize
  <2>1. UNCHANGED files /\ size' \in {size, 0} /\ pc' # "read"
    BY <1>6 DEF MonitorStep, ReadRaises, LogsDone, PollDaemon, PollDone,
       ScanBlock, ScanRaises, ScanDone, Save, NextLog
  <2> QED
    BY <1>1, <1>2, <1>3, <2>1 DEF FilesInv
<1> QED
  BY <1>4, <1>5, <1>6

\* What is read of the log is credited to the right daemon, once.
LEMMA ReadKeeps ==
    ASSUME CInv, ReadLog
    PROVE  CInv'
<1> USE DEF CInv
<1> DEFINE d == files[turn]
<1>1. PICK end \in size..Len(log[d]) :
          LET new == Fresh(MinedHeights(SubSeq(log[d], position[d] + 1, end)))
          IN  /\ position' = [position EXCEPT ![d] = PositionAfter(d)]
              /\ credit' = [h \in DOMAIN credit \cup new |-> IF h \in new THEN d ELSE credit[h]]
              /\ total' = [total EXCEPT ![d] = @ + Cardinality(new)]
  BY DEF ReadLog
<1> DEFINE chunk == SubSeq(log[d], position[d] + 1, end)
           new == Fresh(MinedHeights(chunk))
<1>2. /\ position' = [position EXCEPT ![d] = size]
      /\ credit' = [h \in DOMAIN credit \cup new |-> IF h \in new THEN d ELSE credit[h]]
      /\ total' = [total EXCEPT ![d] = @ + Cardinality(new)]
  BY <1>1 DEF PositionAfter
<1>3. UNCHANGED <<daemons, files>> /\ pc = "read" /\ pc' = "size" /\ size' = 0
  BY DEF ReadLog, NextLog
<1>4. turn \in 1..Len(files) /\ d \in Daemons /\ position[d] < size /\ size <= Len(log[d])
  BY <1>3 DEF FilesInv
<1>5. /\ log[d] \in Seq(Lines)
      /\ position[d] \in Nat /\ size \in Nat /\ Len(log[d]) \in Nat /\ end \in Nat
      /\ position[d] < end /\ end <= Len(log[d])
  BY <1>4, SMTT(30) DEF FilesInv, LogInv
<1> HIDE DEF d
<1>6. MinedHeights(chunk) \subseteq MinedBy(d)
  <2> DEFINE lines == log[d] \o pending[d]
  <2>1. log[d] \in Seq(Lines) /\ pending[d] \in Seq(Lines)
    BY <1>4 DEF LogInv
  <2>2. /\ lines \in Seq(Lines) /\ Len(log[d]) <= Len(lines)
        /\ \A i \in 1..Len(log[d]) : lines[i] = log[d][i]
    BY <2>1, PrefixOfConcat
  <2>3. TrueLines(lines, MinedBy(d))
    BY <1>4 DEF LogInv
  <2>4. /\ chunk \in Seq(Lines) /\ Len(chunk) = end - position[d]
        /\ \A i \in 1..(end - position[d]) : chunk[i] = log[d][position[d] + i]
    BY <1>5, <2>1, ChunkIs, SMTT(30)
  <2> HIDE DEF lines, chunk
  <2>5. /\ position[d] + Len(chunk) <= Len(lines)
        /\ \A i \in 1..Len(chunk) : chunk[i] = lines[position[d] + i]
    <3>1. Len(lines) \in Nat
      BY <2>2
    <3>2. Len(chunk) \in Nat /\ position[d] + Len(chunk) = end
      BY <1>5, <2>4
    <3>3. \A i \in 1..Len(chunk) : position[d] + i \in 1..Len(log[d]) /\ i \in 1..(end - position[d])
      BY <1>5, <2>4
    <3>4. position[d] + Len(chunk) <= Len(lines)
      BY <1>5, <2>2, <3>1, <3>2
    <3> QED
      BY <2>2, <2>4, <3>3, <3>4
  <2> QED
    BY <1>5, <2>2, <2>3, <2>4, <2>5, ChunkOfTrueLines
<1>7. new \subseteq MinedBy(d) /\ new \cap DOMAIN credit = {} /\ new \subseteq 2..MaxTop
  BY <1>6 DEF Fresh, MinedBy
<1> HIDE DEF new
<1>8. /\ IsFiniteSet(new) /\ Cardinality(new) \in Nat
      /\ \A S : S \subseteq DOMAIN credit => IsFiniteSet(S)
  <2>1. IsFiniteSet(2..MaxTop)
    BY FS_Interval, ConstantsTyped DEF Constants
  <2> QED
    BY <2>1, <1>7, FS_Subset, FS_CardinalityType DEF CreditInv
<1> DEFINE Of(e) == {h \in DOMAIN credit : credit[h] = e}
           OfAfter(e) == {h \in DOMAIN credit' : credit'[h] = e}
<1>9. OfAfter(d) = Of(d) \cup new /\ Of(d) \cap new = {}
  BY <1>2, <1>7
<1>10. \A e \in Daemons \ {d} : OfAfter(e) = Of(e)
  BY <1>2, <1>7
<1>11. Cardinality(OfAfter(d)) = Cardinality(Of(d)) + Cardinality(new)
  <2>1. IsFiniteSet(Of(d)) /\ Cardinality(Of(d)) \in Nat
    BY <1>8, FS_CardinalityType
  <2>2. Cardinality(OfAfter(d)) = Cardinality(Of(d)) + Cardinality(new) - Cardinality({})
    BY <1>8, <1>9, <2>1, FS_Union
  <2> QED
    BY <1>8, <2>1, <2>2, FS_EmptySet
<1>12. \A e \in Daemons : total'[e] = Cardinality(OfAfter(e)) /\ total'[e] \in Nat
  <2>1. \A e \in Daemons : total[e] = Cardinality(Of(e)) /\ total[e] \in Nat
    BY DEF CreditInv, CreditIsEarned
  <2>2. total'[d] = total[d] + Cardinality(new) /\ \A e \in Daemons \ {d} : total'[e] = total[e]
    BY <1>2, <1>4 DEF CreditInv
  <2> HIDE DEF Of, OfAfter
  <2> QED
    BY <1>8, <1>10, <1>11, <2>1, <2>2
<1>13. CreditInv'
  <2>1. DOMAIN credit' \subseteq 2..MaxTop /\ credit' \in [DOMAIN credit' -> Daemons]
    BY <1>2, <1>4, <1>7 DEF CreditInv
  <2>2. total' \in [Daemons -> Nat]
    <3>1. total' \in [Daemons -> {total'[e] : e \in Daemons}]
      BY <1>2 DEF CreditInv
    <3> QED
      BY <1>12, <3>1
  <2>3. \A h \in DOMAIN credit' : <<credit'[h], h>> \in mined'
    BY <1>2, <1>3, <1>7 DEF CreditInv, CreditIsEarned, MinedBy, daemons
  <2> QED
    BY <1>12, <2>1, <2>2, <2>3 DEF CreditInv, CreditIsEarned
<1>14. LogInv' /\ SInv'
  BY <1>3, StepKeeps DEF daemons, LogInv, MinedBy, Next, MonitorStep
<1>15. FilesInv'
  BY <1>2, <1>3, <1>5 DEF FilesInv
<1> QED
  BY <1>13, <1>14, <1>15

\* A new run has read no log and credited nobody.
LEMMA RestartKeepsCredit ==
    ASSUME CInv, Restart
    PROVE  CInv'
<1>1. SInv' /\ LogInv'
  BY RestartKeeps DEF CInv, Restart, daemons, LogInv, MinedBy
<1>2. /\ UNCHANGED daemons /\ files' = <<>> /\ position' = [d \in Daemons |-> 0]
      /\ size' = 0 /\ pc' = "discover" /\ credit' = <<>> /\ DOMAIN credit' = {}
      /\ total' = [d \in Daemons |-> 0]
  BY DEF Restart
<1>3. FilesInv'
  BY <1>2 DEF FilesInv
<1>4. CreditInv'
  BY <1>2, FS_EmptySet DEF CreditInv, CreditIsEarned
<1> QED
  BY <1>1, <1>3, <1>4 DEF CInv

LEMMA CreditStepKeeps == CInv /\ [Next]_vars => CInv'
<1> SUFFICES ASSUME CInv, [Next]_vars PROVE CInv'
  OBVIOUS
<1>1. CASE UNCHANGED vars
  <2>1. SInv'
    BY <1>1, StepKeeps DEF CInv
  <2> QED
    BY <1>1, <2>1 DEF vars, daemons, monitor, CInv, LogInv, MinedBy, FilesInv, CreditInv,
       CreditIsEarned
<1>2. CASE MonitorStep
  BY <1>2, OtherMonitorKeeps, ReadKeeps
<1> QED
  BY <1>1, <1>2, DaemonKeepsCredit, RestartKeepsCredit DEF Next

\* Every block the monitor credits was mined by the daemon it credits, wherever a
\* chunk of the log begins and ends, and the totals of the miners add up to the
\* credits; for any number of daemons, any chain and any extent of the context.
THEOREM CreditCorrect == Spec => []CreditIsEarned
<1>1. CInv => CreditIsEarned
  BY DEF CInv, CreditInv
<1> QED
  BY <1>1, InitCInv, CreditStepKeeps, PTL DEF Spec

=============================================================================
