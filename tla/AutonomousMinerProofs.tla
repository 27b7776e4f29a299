----------------------- MODULE AutonomousMinerProofs -----------------------
(***************************************************************************)
(* Proofs about the difficulty replay of an autonomous miner: for any      *)
(* window, any chain that grows and is rewritten at any time, and any      *)
(* failures, what a replay answers is the recurrence over the chain, and a *)
(* failure holds the answer of the last replay.                            *)
(*                                                                         *)
(* The series of a chain is a recursive function.  That there is one, and  *)
(* that it looks at nothing after its argument, is shown by the least      *)
(* height at which it would fail.                                          *)
(***************************************************************************)
EXTENDS AutonomousMiner, FiniteSetTheorems, NaturalsInduction, TLAPS

-----------------------------------------------------------------------------
(* The series of a chain *)

\* One step of the recurrence.
Turn(c, d, k) ==
    IF k <= Start THEN One
    ELSE LET observed == c[k - 1] - c[k - 1 - Window]
         IN  IF observed <= 0 THEN d[k - 1]
             ELSE Clamp((SumFunction([i \in (k - Window)..(k - 1) |-> d[i]]) * Target)
                            \div observed)

LEMMA ParametersTyped == Window \in Nat /\ Window >= 1 /\ Start \in Nat /\ Start >= Window
  BY WindowAssumption, StartAssumption

\* A step looks at nothing from its height on.
LEMMA TurnLooksBack ==
    ASSUME NEW k \in Nat, NEW b, NEW c, NEW d, NEW e,
           \A i \in 0..(k - 1) : b[i] = c[i] /\ d[i] = e[i]
    PROVE  Turn(b, d, k) = Turn(c, e, k)
<1>1. CASE k <= Start
  BY <1>1 DEF Turn
<1>2. CASE ~(k <= Start)
  <2>1. /\ k - 1 \in 0..(k - 1) /\ k - 1 - Window \in 0..(k - 1)
        /\ \A i \in (k - Window)..(k - 1) : i \in 0..(k - 1)
    BY <1>2, ParametersTyped
  <2>2. b[k - 1] = c[k - 1] /\ b[k - 1 - Window] = c[k - 1 - Window] /\ d[k - 1] = e[k - 1]
    BY <2>1
  <2>3. [i \in (k - Window)..(k - 1) |-> d[i]] = [i \in (k - Window)..(k - 1) |-> e[i]]
    BY <2>1
  <2> QED
    BY <1>2, <2>2, <2>3, Zenon DEF Turn
<1> QED
  BY <1>1, <1>2

\* Numbers have a least one.
LEMMA LeastOf ==
    ASSUME NEW S, S \subseteq Nat, S # {}
    PROVE  \E m \in S : \A l \in S : m <= l
<1> DEFINE R == OpToRel(<, Nat)
<1>1. \A ss \in Nat \X Nat : ss[1] < ss[2] => ss \in R
  BY Zenon DEF OpToRel
<1>2. IsWellFoundedOn(R, Nat)
  BY NatLessThanWellFounded, Zenon
<1> HIDE DEF R
<1>3. PICK m \in S : \A l \in S : ~(<<l, m>> \in R)
  BY <1>2, WFMin
<1>4. ASSUME NEW l \in S, l < m PROVE FALSE
  <2>1. <<l, m>> \in Nat \X Nat /\ <<l, m>>[1] < <<l, m>>[2]
    BY <1>4
  <2> QED
    BY <1>1, <1>3, <2>1
<1> QED
  BY <1>4

\* There is a series up to every height: at the least one without, that of the
\* height before could be extended.
LEMMA SeriesExists ==
    ASSUME NEW c, NEW n \in Nat
    PROVE  \E f : f = [k \in 0..n |-> Turn(c, f, k)]
<1> DEFINE Has(m) == \E f : f = [k \in 0..m |-> Turn(c, f, k)]
           without == {m \in Nat : ~Has(m)}
<1>1. Has(0)
  <2> DEFINE f == [k \in 0..0 |-> One]
  <2>1. \A k \in 0..0 : Turn(c, f, k) = One
    BY ParametersTyped DEF Turn
  <2>2. f = [k \in 0..0 |-> Turn(c, f, k)]
    BY <2>1
  <2> QED
    BY <2>2
<1>2. ASSUME NEW m \in Nat, Has(m) PROVE Has(m + 1)
  <2>1. PICK f : f = [k \in 0..m |-> Turn(c, f, k)]
    BY <1>2
  <2> DEFINE g == [k \in 0..(m + 1) |-> Turn(c, f, k)]
  <2>2. \A i \in 0..m : g[i] = f[i]
    BY <2>1
  <2>3. ASSUME NEW k \in 0..(m + 1) PROVE Turn(c, f, k) = Turn(c, g, k)
    <3>1. k \in Nat /\ \A i \in 0..(k - 1) : c[i] = c[i] /\ f[i] = g[i]
      BY <2>2
    <3> HIDE DEF g
    <3> QED
      BY <3>1, TurnLooksBack
  <2>4. g = [k \in 0..(m + 1) |-> Turn(c, g, k)]
    BY <2>3
  <2> QED
    BY <2>4
<1> HIDE DEF Has
<1>3. without = {}
  <2> SUFFICES ASSUME without # {} PROVE FALSE
    OBVIOUS
  <2>1. PICK m \in without : \A l \in without : m <= l
    BY LeastOf
  <2>2. \A l \in without : ~(l < m)
    BY <2>1
  <2>3. m # 0
    BY <1>1
  <2>4. m - 1 \in Nat /\ m - 1 \notin without
    BY <2>2, <2>3
  <2>5. Has(m - 1)
    BY <2>4
  <2>6. Has((m - 1) + 1)
    BY <1>2, <2>4, <2>5
  <2>7. (m - 1) + 1 = m
    OBVIOUS
  <2>8. Has(m)
    BY <2>6, <2>7
  <2> QED
    BY <2>1, <2>8
<1>4. Has(n)
  BY <1>3
<1> QED
  BY <1>4 DEF Has

\* What the definition of the series says.
LEMMA SeriesUnfolds ==
    ASSUME NEW c, NEW n \in Nat, DOMAIN c = 0..n
    PROVE  SeriesOf(c) = [k \in 0..(n + 1) |-> Turn(c, SeriesOf(c), k)]
<1>1. DOMAIN c \cup {Cardinality(DOMAIN c)} = 0..(n + 1)
  <2>1. Cardinality(0..n) = n + 1
    BY FS_Interval
  <2> QED
    BY <2>1
<1>2. SeriesOf(c) = CHOOSE d : d = [k \in 0..(n + 1) |-> Turn(c, d, k)]
  BY <1>1, Zenon DEF SeriesOf, Turn
<1> QED
  BY <1>2, SeriesExists

\* It is decided by the blocks before.
LEMMA SeriesLooksBack ==
    ASSUME NEW n \in Nat, NEW b, DOMAIN b = 0..n, NEW m \in Nat, NEW c, DOMAIN c = 0..m,
           NEW l \in Nat, l <= n + 1, l <= m + 1,
           \A i \in 0..(l - 1) : b[i] = c[i]
    PROVE  \A k \in 0..l : SeriesOf(b)[k] = SeriesOf(c)[k]
<1> DEFINE d == SeriesOf(b)
           e == SeriesOf(c)
           apart == {k \in 0..l : d[k] # e[k]}
<1>1. /\ \A k \in 0..l : d[k] = Turn(b, d, k)
      /\ \A k \in 0..l : e[k] = Turn(c, e, k)
  <2>1. \A k \in 0..l : k \in 0..(n + 1) /\ k \in 0..(m + 1)
    OBVIOUS
  <2>2. \A k \in 0..(n + 1) : d[k] = Turn(b, d, k)
    BY SeriesUnfolds
  <2>3. \A k \in 0..(m + 1) : e[k] = Turn(c, e, k)
    BY SeriesUnfolds
  <2> QED
    BY <2>1, <2>2, <2>3
<1> HIDE DEF d, e
<1>2. apart = {}
  <2> SUFFICES ASSUME apart # {} PROVE FALSE
    OBVIOUS
  <2>1. apart \subseteq Nat
    OBVIOUS
  <2>2. PICK k \in apart : \A j \in apart : k <= j
    BY <2>1, LeastOf
  <2>3. k \in Nat /\ k <= l /\ \A i \in 0..(k - 1) : i \in 0..(l - 1) /\ i \in 0..l /\ i \notin apart
    BY <2>1, <2>2
  <2>4. \A i \in 0..(k - 1) : b[i] = c[i] /\ d[i] = e[i]
    BY <2>3
  <2>5. Turn(b, d, k) = Turn(c, e, k)
    BY <2>3, <2>4, TurnLooksBack
  <2> QED
    BY <1>1, <2>2, <2>5
<1> QED
  BY <1>2 DEF d, e

-----------------------------------------------------------------------------
(* The inductive invariant *)

\* SeriesAt and NextMultiplier, of any series.
At(d, h) == IF h \in DOMAIN d THEN d[h] ELSE One

NextOf(d, k, observed) ==
    IF observed <= 0 THEN At(d, k - 1)
    ELSE Clamp((SumFunction([i \in (k - Window)..(k - 1) |-> At(d, i)]) * Target) \div observed)

\* What the multiplier of k takes from the series has not been pruned.
Reaches(d, k) == \A i \in (k - Window)..(k - 1) : i > Start => i \in DOMAIN d

\* The caches have everything of which the multiplier of k was made.
Computed(s, d, k) ==
    /\ k - 1 \in DOMAIN s /\ k - 1 - Window \in DOMAIN s
    /\ k \in DOMAIN d
    /\ Reaches(d, k)
    /\ d[k] = NextOf(d, k, s[k - 1] - s[k - 1 - Window])

\* The height a replay starts from.
First == (IF last = NoHeight THEN Start ELSE last) + 1

ChainInv == Top \in Nat /\ Top >= Window /\ DOMAIN chain = 0..Top

QueryInv ==
    query = "replay" =>
        /\ top \in Nat /\ top > Start /\ height \in Nat
        /\ First <= height /\ height <= top + 2 /\ First <= top + 1

CachesInv ==
    /\ DOMAIN stamps \subseteq Nat
    /\ DOMAIN series \subseteq Nat /\ \A h \in DOMAIN series : h > Start
    /\ last = NoHeight \/ (last \in Nat /\ last > Start)
    /\ \A h \in DOMAIN series :
          h - 1 \in DOMAIN stamps \/ (last # NoHeight /\ h <= last)

\* What a failure falls back to is still in the caches.
SettledInv ==
    IF last = NoHeight THEN settled = One
    ELSE Computed(stamps, series, last + 1) /\ settled = series[last + 1]

LoopInv == query = "replay" /\ height > First => Computed(stamps, series, height - 1)

\* While no cached block has been replaced, the caches are parts of the chain
\* and of its series.
SameInv ==
    ~stale =>
        /\ \A h \in DOMAIN stamps : h <= Top /\ stamps[h] = chain[h]
        /\ \A h \in DOMAIN series : h <= Top + 1 /\ series[h] = SeriesOf(chain)[h]

ReplayInv == ChainInv /\ QueryInv /\ CachesInv /\ SettledInv /\ LoopInv /\ SameInv

-----------------------------------------------------------------------------
(* Lemmas on the caches *)

\* The multipliers before the warm-up's end are One.
LEMMA SeriesStarts ==
    ASSUME NEW n \in Nat, NEW c, DOMAIN c = 0..n, NEW k \in 0..(n + 1)
    PROVE  /\ SeriesOf(c)[k] = Turn(c, SeriesOf(c), k)
           /\ k <= Start => SeriesOf(c)[k] = One
<1>1. SeriesOf(c)[k] = Turn(c, SeriesOf(c), k)
  <2> DEFINE d == SeriesOf(c)
  <2>1. d = [j \in 0..(n + 1) |-> Turn(c, d, j)]
    BY SeriesUnfolds
  <2> HIDE DEF d
  <2>2. d[k] = Turn(c, d, k)
    BY <2>1
  <2> QED
    BY <2>2 DEF d
<1> QED
  BY <1>1 DEF Turn

\* A multiplier depends on the window before it only.
LEMMA NextLooksBack ==
    ASSUME NEW d, NEW e, NEW k \in Nat, NEW observed,
           \A i \in (k - Window)..(k - 1) : At(d, i) = At(e, i)
    PROVE  NextOf(d, k, observed) = NextOf(e, k, observed)
<1>1. At(d, k - 1) = At(e, k - 1)
  <2>1. k - 1 \in (k - Window)..(k - 1)
    BY ParametersTyped
  <2> QED
    BY <2>1
<1>2. [i \in (k - Window)..(k - 1) |-> At(d, i)] = [i \in (k - Window)..(k - 1) |-> At(e, i)]
  OBVIOUS
<1> QED
  BY <1>1, <1>2, Zenon DEF NextOf

\* Caches that keep what the multiplier of k was made of.
LEMMA ComputedStays ==
    ASSUME NEW s, NEW r, NEW d, NEW e, NEW k \in Nat, Computed(s, d, k),
           \A h \in {k - 1, k - 1 - Window} : h \in DOMAIN r /\ r[h] = s[h],
           \A h \in (k - Window)..k : h \in DOMAIN d => h \in DOMAIN e /\ e[h] = d[h],
           \A h \in DOMAIN d : h > Start,
           \A h \in DOMAIN e : h > Start
    PROVE  Computed(r, e, k) /\ e[k] = d[k]
<1>1. k \in (k - Window)..k
  BY ParametersTyped
<1>2. k \in DOMAIN e /\ e[k] = d[k]
  BY <1>1 DEF Computed
<1>3. ASSUME NEW i \in (k - Window)..(k - 1)
      PROVE  At(d, i) = At(e, i) /\ (i > Start => i \in DOMAIN e)
  <2>1. i \in (k - Window)..k
    BY <1>3
  <2>2. CASE i > Start
    <3>1. i \in DOMAIN d
      BY <2>2 DEF Computed, Reaches
    <3> QED
      BY <2>1, <3>1 DEF At
  <2>3. CASE ~(i > Start)
    <3>1. i \notin DOMAIN d /\ i \notin DOMAIN e
      BY <2>3
    <3> QED
      BY <2>3, <3>1 DEF At
  <2> QED
    BY <2>2, <2>3
<1>4. r[k - 1] = s[k - 1] /\ r[k - 1 - Window] = s[k - 1 - Window]
      /\ k - 1 \in DOMAIN r /\ k - 1 - Window \in DOMAIN r
  OBVIOUS
<1>5. NextOf(d, k, s[k - 1] - s[k - 1 - Window]) = NextOf(e, k, s[k - 1] - s[k - 1 - Window])
  BY <1>3, NextLooksBack
<1> QED
  BY <1>2, <1>3, <1>4, <1>5 DEF Computed, Reaches

\* On caches that agree with a chain, the next multiplier is the chain's.
LEMMA NextIsTurn ==
    ASSUME NEW n \in Nat, NEW c, DOMAIN c = 0..n, NEW k \in 0..(n + 1), k > Start,
           NEW d, Reaches(d, k), \A h \in DOMAIN d : h > Start,
           \A h \in DOMAIN d : d[h] = SeriesOf(c)[h]
    PROVE  NextOf(d, k, c[k - 1] - c[k - 1 - Window]) = SeriesOf(c)[k]
<1> DEFINE e == SeriesOf(c)
           observed == c[k - 1] - c[k - 1 - Window]
<1>1. ASSUME NEW i \in (k - Window)..(k - 1) PROVE At(d, i) = e[i]
  <2>1. i \in 0..(n + 1)
    BY <1>1, ParametersTyped
  <2>2. CASE i > Start
    BY <2>2 DEF Reaches, At
  <2>3. CASE ~(i > Start)
    <3>1. i \notin DOMAIN d /\ i <= Start
      BY <2>1, <2>3, ParametersTyped
    <3>2. e[i] = One
      BY <2>1, <3>1, SeriesStarts
    <3> QED
      BY <3>1, <3>2 DEF At
  <2> QED
    BY <2>2, <2>3
<1>2. e[k] = Turn(c, e, k)
  BY SeriesStarts
<1> HIDE DEF e
<1>3. At(d, k - 1) = e[k - 1]
  <2>1. k - 1 \in (k - Window)..(k - 1)
    BY ParametersTyped
  <2> QED
    BY <1>1, <2>1
<1>4. [i \in (k - Window)..(k - 1) |-> At(d, i)] = [i \in (k - Window)..(k - 1) |-> e[i]]
  BY <1>1
<1>5. ~(k <= Start)
  BY ParametersTyped
<1>6. NextOf(d, k, observed) = Turn(c, e, k)
  BY <1>3, <1>4, <1>5, Zenon DEF NextOf, Turn
<1> QED
  BY <1>2, <1>6 DEF e

LEMMA NextIsNextOf ==
    ASSUME NEW k, NEW observed
    PROVE  NextMultiplier(k, observed) = NextOf(series, k, observed)
BY Zenon DEF NextMultiplier, NextOf, SeriesAt, At

-----------------------------------------------------------------------------
(* The initial states, and the steps other than those of the replay *)

LEMMA InitReplayInv == ReplayInit => ReplayInv
<1> SUFFICES ASSUME ReplayInit PROVE ReplayInv
  OBVIOUS
<1> USE ParametersTyped
<1>1. Cardinality(0..Start) = Start + 1
  BY FS_Interval
<1>2. DOMAIN chain = 0..Start /\ Top = Start
  BY <1>1 DEF ReplayInit, Top
<1>3. DOMAIN stamps = {} /\ DOMAIN series = {}
  BY DEF ReplayInit
<1>4. ChainInv
  BY <1>2 DEF ChainInv
<1>5. QueryInv /\ LoopInv
  BY DEF ReplayInit, QueryInv, LoopInv
<1>6. CachesInv /\ SettledInv
  BY <1>3 DEF ReplayInit, CachesInv, SettledInv
<1>7. SameInv
  BY <1>3 DEF SameInv
<1> QED
  BY <1>4, <1>5, <1>6, <1>7 DEF ReplayInv

LEMMA UntouchedKeeps == ReplayInv /\ UNCHANGED <<daemon, replay>> => ReplayInv'
<1> SUFFICES ASSUME ReplayInv, UNCHANGED <<daemon, replay>> PROVE ReplayInv'
  OBVIOUS
<1>1. /\ chain' = chain /\ query' = query /\ top' = top /\ height' = height
      /\ stamps' = stamps /\ series' = series /\ last' = last
      /\ stale' = stale /\ settled' = settled
  BY DEF daemon, replay
<1> QED
  BY <1>1, Zenon DEF ReplayInv, ChainInv, QueryInv, CachesInv, SettledInv, LoopInv, SameInv,
                     Top, First

\* A question is asked, or answered with the caches as they are.
LEMMA QuietKeeps ==
    ASSUME ReplayInv, query' # "replay",
           UNCHANGED <<chain, stamps, series, last, stale, settled>>
    PROVE  ReplayInv'
<1>1. /\ chain' = chain /\ stamps' = stamps /\ series' = series /\ last' = last
      /\ stale' = stale /\ settled' = settled
  OBVIOUS
<1>2. QueryInv' /\ LoopInv'
  BY DEF QueryInv, LoopInv
<1>3. ChainInv' /\ SameInv'
  BY <1>1 DEF ReplayInv, ChainInv, SameInv, Top
<1>4. CachesInv' /\ SettledInv'
  BY <1>1 DEF ReplayInv, CachesInv, SettledInv
<1> QED
  BY <1>2, <1>3, <1>4 DEF ReplayInv

LEMMA ExtendKeeps == ReplayInv /\ Extend /\ UNCHANGED replay => ReplayInv'
<1> SUFFICES ASSUME ReplayInv, Extend, UNCHANGED replay PROVE ReplayInv'
  OBVIOUS
<1> USE ParametersTyped
<1>1. /\ query' = query /\ top' = top /\ height' = height
      /\ stamps' = stamps /\ series' = series /\ last' = last
      /\ stale' = stale /\ settled' = settled
  BY DEF replay
<1>2. Top \in Nat /\ Top >= Window /\ DOMAIN chain = 0..Top
  BY DEF ReplayInv, ChainInv
<1>3. PICK gap : chain' = Put(chain, Top + 1, chain[Top] + gap)
  BY DEF Extend
<1>4. DOMAIN chain' = 0..(Top + 1)
  BY <1>2, <1>3 DEF Put
<1>5. \A h \in 0..Top : chain'[h] = chain[h]
  BY <1>2, <1>3 DEF Put
<1>6. Top' = Top + 1
  <2>1. Cardinality(0..(Top + 1)) = Top + 2
    BY <1>2, FS_Interval
  <2>2. Top' = Cardinality(DOMAIN chain') - 1
    BY DEF Top
  <2> QED
    BY <1>2, <1>4, <2>1, <2>2
<1>7. ChainInv'
  BY <1>2, <1>4, <1>6 DEF ChainInv
<1>8. QueryInv' /\ CachesInv' /\ SettledInv' /\ LoopInv'
  BY <1>1, Zenon DEF ReplayInv, QueryInv, CachesInv, SettledInv, LoopInv, First
<1>9. SameInv'
  <2> SUFFICES ASSUME ~stale
               PROVE  /\ \A h \in DOMAIN stamps : h <= Top' /\ stamps[h] = chain'[h]
                      /\ \A h \in DOMAIN series : h <= Top' + 1 /\ series[h] = SeriesOf(chain')[h]
    BY <1>1 DEF SameInv
  <2>1. ASSUME NEW h \in DOMAIN stamps PROVE h <= Top' /\ stamps[h] = chain'[h]
    <3>1. h \in 0..Top /\ stamps[h] = chain[h]
      BY <1>2 DEF ReplayInv, CachesInv, SameInv
    <3> QED
      BY <1>2, <1>5, <1>6, <3>1
  <2>2. ASSUME NEW h \in DOMAIN series PROVE h <= Top' + 1 /\ series[h] = SeriesOf(chain')[h]
    <3>1. h \in 0..(Top + 1) /\ series[h] = SeriesOf(chain)[h]
      BY <1>2 DEF ReplayInv, CachesInv, SameInv
    <3> DEFINE n == Top
               c == chain'
               b == chain
    <3>2. /\ n \in Nat /\ DOMAIN b = 0..n /\ n + 1 \in Nat /\ DOMAIN c = 0..(n + 1)
          /\ \A i \in 0..((n + 1) - 1) : b[i] = c[i]
          /\ n + 1 <= n + 1 /\ n + 1 <= (n + 1) + 1
      BY <1>2, <1>4, <1>5
    <3> HIDE DEF n, c, b
    <3>3. \A k \in 0..(n + 1) : SeriesOf(b)[k] = SeriesOf(c)[k]
      BY <3>2, SeriesLooksBack, SMTT(30)
    <3> QED
      BY <1>2, <1>6, <3>1, <3>3 DEF n, c, b
  <2> QED
    BY <2>1, <2>2
<1> QED
  BY <1>7, <1>8, <1>9 DEF ReplayInv

LEMMA PopBlockKeeps == ReplayInv /\ PopBlock => ReplayInv'
<1> SUFFICES ASSUME ReplayInv, PopBlock PROVE ReplayInv'
  OBVIOUS
<1> USE ParametersTyped
<1>1. /\ query' = query /\ top' = top /\ height' = height
      /\ stamps' = stamps /\ series' = series /\ last' = last
      /\ settled' = settled
  BY DEF PopBlock
<1>2. Top \in Nat /\ Top > Window /\ DOMAIN chain = 0..Top
  BY DEF ReplayInv, ChainInv, PopBlock
<1>3. chain' = [h \in 0..(Top - 1) |-> chain[h]]
  BY DEF PopBlock
<1>4. DOMAIN chain' = 0..(Top - 1) /\ \A h \in 0..(Top - 1) : chain'[h] = chain[h]
  BY <1>3
<1>5. Top' = Top - 1
  <2>1. Cardinality(0..(Top - 1)) = Top
    BY <1>2, FS_Interval
  <2>2. Top' = Cardinality(DOMAIN chain') - 1
    BY DEF Top
  <2> QED
    BY <1>2, <1>4, <2>1, <2>2
<1>6. ChainInv'
  BY <1>2, <1>4, <1>5 DEF ChainInv
<1>7. QueryInv' /\ CachesInv' /\ SettledInv' /\ LoopInv'
  BY <1>1, Zenon DEF ReplayInv, QueryInv, CachesInv, SettledInv, LoopInv, First
<1>8. SameInv'
  <2> SUFFICES ASSUME ~stale'
               PROVE  /\ \A h \in DOMAIN stamps : h <= Top' /\ stamps[h] = chain'[h]
                      /\ \A h \in DOMAIN series : h <= Top' + 1 /\ series[h] = SeriesOf(chain')[h]
    BY <1>1 DEF SameInv
  <2>1. ~stale /\ Top \notin DOMAIN stamps
    BY DEF PopBlock
  <2>2. ASSUME NEW h \in DOMAIN stamps
        PROVE  h \in 0..(Top - 1) /\ h <= Top' /\ stamps[h] = chain'[h]
    <3>1. h \in 0..Top /\ stamps[h] = chain[h]
      BY <1>2, <2>1 DEF ReplayInv, CachesInv, SameInv
    <3>2. h # Top
      BY <2>1
    <3> QED
      BY <1>2, <1>4, <1>5, <3>1, <3>2
  <2>3. last # NoHeight => last \in 0..(Top - 1)
    <3> SUFFICES ASSUME last # NoHeight PROVE last \in 0..(Top - 1)
      OBVIOUS
    <3>1. last \in Nat /\ (last + 1) - 1 \in DOMAIN stamps
      BY DEF ReplayInv, CachesInv, SettledInv, Computed
    <3> QED
      BY <2>2, <3>1
  <2>4. ASSUME NEW h \in DOMAIN series PROVE h <= Top' + 1 /\ series[h] = SeriesOf(chain')[h]
    <3>1. h \in Nat /\ series[h] = SeriesOf(chain)[h]
      BY <1>2, <2>1 DEF ReplayInv, CachesInv, SameInv
    <3>2. h \in 0..Top
      <4>1. h - 1 \in DOMAIN stamps \/ (last # NoHeight /\ h <= last)
        BY DEF ReplayInv, CachesInv
      <4> QED
        BY <1>2, <2>2, <2>3, <3>1, <4>1
    <3> DEFINE n == Top
               c == chain'
               b == chain
    <3>3. /\ n \in Nat /\ DOMAIN b = 0..n /\ n - 1 \in Nat /\ DOMAIN c = 0..(n - 1)
          /\ \A i \in 0..(n - 1) : b[i] = c[i]
          /\ n <= n + 1 /\ n <= (n - 1) + 1
      BY <1>2, <1>4
    <3> HIDE DEF n, c, b
    <3>4. \A k \in 0..n : SeriesOf(b)[k] = SeriesOf(c)[k]
      BY <3>3, SeriesLooksBack, SMTT(30)
    <3> QED
      BY <1>2, <1>5, <3>1, <3>2, <3>4 DEF n, c, b
  <2> QED
    BY <2>2, <2>4
<1> QED
  BY <1>6, <1>7, <1>8 DEF ReplayInv

-----------------------------------------------------------------------------
(* The steps of the replay *)

LEMMA StartKeeps == ReplayInv /\ StartReplay => ReplayInv'
<1> SUFFICES ASSUME ReplayInv, StartReplay PROVE ReplayInv'
  OBVIOUS
<1> USE ParametersTyped
<1>1. chain' = chain /\ query' = "replay" /\ top' = Top /\ Top' = Top
      /\ height' = (IF last' = NoHeight THEN Start ELSE last') + 1
      /\ stale' = (stale /\ ~Shortened)
  BY DEF StartReplay, daemon, Top, Shortened
<1>2. Top \in Nat /\ Top > Start
  BY DEF StartReplay, ReplayInv, ChainInv
<1>3. ChainInv'
  BY <1>1 DEF ReplayInv, ChainInv
<1>4. CASE Shortened
  <2>1. stamps' = <<>> /\ series' = <<>> /\ last' = NoHeight /\ settled' = One
    BY <1>4 DEF StartReplay
  <2>2. DOMAIN stamps' = {} /\ DOMAIN series' = {}
    BY <2>1
  <2>3. height' = Start + 1 /\ First' = Start + 1
    BY <1>1, <2>1 DEF First
  <2>4. QueryInv' /\ LoopInv'
    BY <1>1, <1>2, <2>3 DEF QueryInv, LoopInv
  <2>5. CachesInv' /\ SettledInv' /\ SameInv'
    BY <2>1, <2>2 DEF CachesInv, SettledInv, SameInv
  <2> QED
    BY <1>3, <2>4, <2>5 DEF ReplayInv
<1>5. CASE ~Shortened
  <2>1. /\ stamps' = stamps /\ series' = series /\ last' = last /\ settled' = settled
        /\ (stale' <=> stale)
    BY <1>1, <1>5 DEF StartReplay
  <2>2. height' = First /\ First' = First
    BY <1>1, <2>1 DEF First
  <2>3. First \in Nat /\ First <= Top + 1
    BY <1>2, <1>5 DEF First, Shortened, ReplayInv, CachesInv
  <2>4. QueryInv' /\ LoopInv'
    BY <1>1, <1>2, <2>2, <2>3 DEF QueryInv, LoopInv
  <2>5. CachesInv' /\ SettledInv'
    BY <2>1 DEF ReplayInv, CachesInv, SettledInv
  <2>6. SameInv'
    BY <1>1, <2>1 DEF ReplayInv, SameInv
  <2> QED
    BY <1>3, <2>4, <2>5, <2>6 DEF ReplayInv
<1> QED
  BY <1>4, <1>5

\* Two headers are read into the cache.
LEMMA KnownKeeps ==
    ASSUME NEW s, NEW h
    PROVE  /\ DOMAIN Known(s, h) = DOMAIN s \cup {h}
           /\ \A g \in DOMAIN s : Known(s, h)[g] = s[g]
           /\ h \notin DOMAIN s => Known(s, h)[h] = chain[h]
BY DEF Known, Put

\* A longer cache of time stamps of the same chain, after a failure.
LEMMA HeaderRaisesKeeps == ReplayInv /\ HeaderRaises => ReplayInv'
<1> SUFFICES ASSUME ReplayInv, HeaderRaises PROVE ReplayInv'
  OBVIOUS
<1> USE ParametersTyped
<1>1. /\ chain' = chain /\ Top' = Top /\ query' = "none" /\ query = "replay"
      /\ series' = series /\ last' = last /\ stale' = stale /\ settled' = settled
  BY DEF HeaderRaises, Answer, daemon, Top
<1>2. Newest \in Nat
  BY <1>1 DEF ReplayInv, QueryInv, First, CachesInv, Newest
<1>3. stamps' = stamps \/ (Readable(Newest) /\ stamps' = Known(stamps, Newest))
  BY DEF HeaderRaises
<1>4. /\ DOMAIN stamps \subseteq DOMAIN stamps' /\ DOMAIN stamps' \subseteq Nat
      /\ \A g \in DOMAIN stamps : stamps'[g] = stamps[g]
      /\ \A g \in DOMAIN stamps' : g \notin DOMAIN stamps => g <= Top /\ stamps'[g] = chain[g]
  <2>1. DOMAIN stamps \subseteq Nat
    BY DEF ReplayInv, CachesInv
  <2>2. CASE stamps' = stamps
    BY <2>1, <2>2
  <2>3. CASE Readable(Newest) /\ stamps' = Known(stamps, Newest)
    <3>1. /\ DOMAIN stamps' = DOMAIN stamps \cup {Newest}
          /\ \A g \in DOMAIN stamps : stamps'[g] = stamps[g]
          /\ Newest \notin DOMAIN stamps => stamps'[Newest] = chain[Newest]
      BY <2>3, KnownKeeps, ZenonT(40)
    <3> QED
      BY <1>2, <2>1, <2>3, <3>1 DEF Readable
  <2> QED
    BY <1>3, <2>2, <2>3
<1>5. ChainInv' /\ QueryInv' /\ LoopInv'
  BY <1>1 DEF ReplayInv, ChainInv, QueryInv, LoopInv
<1>6. CachesInv'
  BY <1>1, <1>4 DEF ReplayInv, CachesInv
<1>7. SettledInv'
  BY <1>1, <1>4 DEF ReplayInv, SettledInv, Computed
<1>8. SameInv'
  BY <1>1, <1>4 DEF ReplayInv, SameInv
<1> QED
  BY <1>5, <1>6, <1>7, <1>8 DEF ReplayInv

\* What the loop finds in the caches.
LEMMA LoopFinds ==
    ASSUME ReplayInv, query = "replay"
    PROVE  /\ height \in Nat /\ height > Start /\ top \in Nat
           /\ Newest = height - 1 /\ Newest \in Nat
           /\ Oldest = height - 1 - Window /\ Oldest \in Nat
           /\ last # NoHeight => /\ last \in Nat /\ last > Start
                                 /\ last + 1 <= height /\ last <= top
           /\ Reaches(series, height)
<1> USE ParametersTyped
<1>1. /\ height \in Nat /\ top \in Nat
      /\ First <= height /\ First <= top + 1
      /\ last = NoHeight \/ (last \in Nat /\ last > Start)
  BY DEF ReplayInv, QueryInv, CachesInv
<1>2. /\ last = NoHeight => First = Start + 1
      /\ last # NoHeight => First = last + 1
  BY <1>1 DEF First
<1>3. height > Start
  BY <1>1, <1>2
<1>4. Reaches(series, height)
  <2>1. CASE height > First
    <3>1. Reaches(series, height - 1) /\ height - 1 \in DOMAIN series
      BY <2>1 DEF ReplayInv, LoopInv, Computed
    <3>2. ASSUME NEW i \in (height - Window)..(height - 1), i > Start PROVE i \in DOMAIN series
      <4>1. i = height - 1 \/ i \in ((height - 1) - Window)..((height - 1) - 1)
        BY <1>1
      <4> QED
        BY <3>1, <3>2, <4>1 DEF Reaches
    <3> QED
      BY <3>2 DEF Reaches
  <2>2. CASE height = First /\ last = NoHeight
    BY <1>1, <1>2, <2>2 DEF Reaches
  <2>3. CASE height = First /\ last # NoHeight
    BY <1>2, <2>3 DEF ReplayInv, SettledInv, Computed
  <2> QED
    BY <1>1, <1>2, <2>1, <2>2, <2>3
<1> QED
  BY <1>1, <1>2, <1>3, <1>4 DEF Newest, Oldest

LEMMA ReplayHeightKeeps == ReplayInv /\ ReplayHeight => ReplayInv'
<1> SUFFICES ASSUME ReplayInv, ReplayHeight PROVE ReplayInv'
  OBVIOUS
<1> USE ParametersTyped
<1>1. /\ chain' = chain /\ Top' = Top /\ query' = query /\ query = "replay"
      /\ top' = top /\ last' = last /\ stale' = stale /\ settled' = settled
      /\ height' = height + 1 /\ height <= top + 1 /\ First' = First
  BY DEF ReplayHeight, daemon, Top, First
<1>2. /\ height \in Nat /\ height > Start /\ top \in Nat
      /\ Newest = height - 1 /\ Newest \in Nat
      /\ Oldest = height - 1 - Window /\ Oldest \in Nat
      /\ last # NoHeight => last \in Nat /\ last > Start /\ last + 1 <= height /\ last <= top
      /\ Reaches(series, height)
  BY <1>1, LoopFinds
<1>3. Readable(Newest) /\ Readable(Oldest)
  BY DEF ReplayHeight
\* The stamps.
<1>4. /\ DOMAIN stamps' = DOMAIN stamps \cup {Newest, Oldest}
      /\ \A g \in DOMAIN stamps : stamps'[g] = stamps[g]
      /\ \A g \in DOMAIN stamps' : g \notin DOMAIN stamps => g <= Top /\ stamps'[g] = chain[g]
  <2> DEFINE s == Known(stamps, Newest)
             r == Known(s, Oldest)
  <2>1. stamps' = r
    BY DEF ReplayHeight
  <2>2. /\ DOMAIN s = DOMAIN stamps \cup {Newest}
        /\ \A g \in DOMAIN stamps : s[g] = stamps[g]
        /\ Newest \notin DOMAIN stamps => s[Newest] = chain[Newest]
    BY KnownKeeps
  <2> HIDE DEF s
  <2>3. /\ DOMAIN r = DOMAIN s \cup {Oldest}
        /\ \A g \in DOMAIN s : r[g] = s[g]
        /\ Oldest \notin DOMAIN s => r[Oldest] = chain[Oldest]
    BY KnownKeeps
  <2> HIDE DEF r
  <2> QED
    BY <1>3, <2>1, <2>2, <2>3 DEF Readable
\* The series.
<1> DEFINE m == NextOf(series, height, stamps'[Newest] - stamps'[Oldest])
<1>5. series' = Put(series, height, m)
  BY NextIsNextOf DEF ReplayHeight
<1> HIDE DEF m
<1>6. /\ DOMAIN series' = DOMAIN series \cup {height}
      /\ series'[height] = m
      /\ \A h \in DOMAIN series : h # height => series'[h] = series[h]
  BY <1>5 DEF Put
<1>7. /\ DOMAIN series \subseteq Nat /\ DOMAIN stamps \subseteq Nat
      /\ \A h \in DOMAIN series : h > Start
      /\ \A h \in DOMAIN series' : h > Start
  BY <1>2, <1>6 DEF ReplayInv, CachesInv
<1>8. Computed(stamps', series', height)
  <2>1. ASSUME NEW i \in (height - Window)..(height - 1)
        PROVE  At(series, i) = At(series', i) /\ (i > Start => i \in DOMAIN series')
    <3>1. i # height
      BY <1>2
    <3>2. i > Start => i \in DOMAIN series'
      BY <1>2, <1>6 DEF Reaches
    <3>3. At(series, i) = At(series', i)
      BY <1>6, <3>1 DEF At
    <3> QED
      BY <3>2, <3>3
  <2>2. m = NextOf(series', height, stamps'[Newest] - stamps'[Oldest])
    BY <1>2, <2>1, NextLooksBack DEF m
  <2> QED
    BY <1>2, <1>4, <1>6, <2>1, <2>2 DEF Computed, Reaches
<1>9. ChainInv' /\ QueryInv'
  <2>1. First \in Nat
    BY <1>2 DEF First
  <2>2. QueryInv'
    BY <1>1, <1>2, <2>1 DEF ReplayInv, QueryInv
  <2>3. ChainInv'
    BY <1>1 DEF ReplayInv, ChainInv
  <2> QED
    BY <2>2, <2>3
<1>10. LoopInv'
  <2>1. height' - 1 = height
    BY <1>1, <1>2
  <2> QED
    BY <1>8, <2>1 DEF LoopInv
<1>11. CachesInv'
  BY <1>1, <1>2, <1>4, <1>6, <1>7 DEF ReplayInv, CachesInv
<1>12. SettledInv'
  <2>1. CASE last = NoHeight
    BY <1>1, <2>1 DEF ReplayInv, SettledInv
  <2>2. CASE last # NoHeight
    <3>1. Computed(stamps, series, last + 1) /\ settled = series[last + 1]
      BY <2>2 DEF ReplayInv, SettledInv
    <3>2. /\ (last + 1) - 1 \in DOMAIN stamps /\ (last + 1) - 1 - Window \in DOMAIN stamps
          /\ series[last + 1] = NextOf(series, last + 1,
                                       stamps[(last + 1) - 1] - stamps[(last + 1) - 1 - Window])
      BY <3>1 DEF Computed
    <3>3. CASE last + 1 = height
      <4>1. stamps'[Newest] = stamps[Newest] /\ stamps'[Oldest] = stamps[Oldest]
        BY <1>2, <1>4, <3>2, <3>3
      <4>2. m = NextOf(series, height, stamps[height - 1] - stamps[height - 1 - Window])
        BY <1>2, <4>1 DEF m
      <4>3. m = settled
        BY <3>1, <3>2, <3>3, <4>2
      <4> QED
        BY <1>1, <1>6, <1>8, <2>2, <3>3, <4>3 DEF SettledInv
    <3>4. CASE last + 1 # height
      <4> DEFINE k == last + 1
      <4>1. k \in Nat /\ k < height
        BY <1>2, <2>2, <3>4
      <4>2. \A h \in {k - 1, k - 1 - Window} : h \in DOMAIN stamps' /\ stamps'[h] = stamps[h]
        BY <1>4, <3>2
      <4>3. \A h \in (k - Window)..k :
               h \in DOMAIN series => h \in DOMAIN series' /\ series'[h] = series[h]
        BY <1>6, <4>1
      <4>4. Computed(stamps, series, k)
        BY <3>1
      <4> HIDE DEF k
      <4>5. Computed(stamps', series', k) /\ series'[k] = series[k]
        BY <1>7, <4>1, <4>2, <4>3, <4>4, ComputedStays
      <4> QED
        BY <1>1, <2>2, <3>1, <4>5 DEF SettledInv, k
    <3> QED
      BY <3>3, <3>4
  <2> QED
    BY <2>1, <2>2
<1>13. SameInv'
  <2> SUFFICES ASSUME ~stale
               PROVE  /\ \A h \in DOMAIN stamps' : h <= Top /\ stamps'[h] = chain[h]
                      /\ \A h \in DOMAIN series' : h <= Top + 1 /\ series'[h] = SeriesOf(chain)[h]
    BY <1>1 DEF SameInv
  <2>1. \A h \in DOMAIN stamps' : h <= Top /\ stamps'[h] = chain[h]
    BY <1>4 DEF ReplayInv, SameInv
  <2>2. height <= Top + 1 /\ Top \in Nat /\ DOMAIN chain = 0..Top
    <3>1. Top \in Nat /\ DOMAIN chain = 0..Top
      BY DEF ReplayInv, ChainInv
    <3>2. Newest <= Top
      BY <1>4, <2>1
    <3> QED
      BY <1>2, <3>1, <3>2
  <2>3. m = SeriesOf(chain)[height]
    <3>1. \A h \in DOMAIN series : series[h] = SeriesOf(chain)[h]
      BY DEF ReplayInv, SameInv
    <3>2. height \in 0..(Top + 1)
      BY <1>2, <2>2
    <3>3. NextOf(series, height, chain[height - 1] - chain[height - 1 - Window])
             = SeriesOf(chain)[height]
      BY <1>2, <1>7, <2>2, <3>1, <3>2, NextIsTurn
    <3>4. stamps'[Newest] = chain[height - 1] /\ stamps'[Oldest] = chain[height - 1 - Window]
      BY <1>2, <1>4, <2>1
    <3> QED
      BY <3>3, <3>4 DEF m
  <2>4. ASSUME NEW h \in DOMAIN series'
        PROVE  h <= Top + 1 /\ series'[h] = SeriesOf(chain)[h]
    BY <1>6, <2>2, <2>3 DEF ReplayInv, SameInv
  <2> QED
    BY <2>1, <2>4
<1> QED
  BY <1>9, <1>10, <1>11, <1>12, <1>13 DEF ReplayInv

\* Pruning keeps what the last multipliers were made of.
LEMMA KeptKeeps ==
    ASSUME NEW cache
    PROVE  /\ DOMAIN Kept(cache) \subseteq DOMAIN cache
           /\ \A h \in DOMAIN Kept(cache) : Kept(cache)[h] = cache[h]
           /\ \A h \in DOMAIN cache : h >= top - 2 * Window - 2 => h \in DOMAIN Kept(cache)
BY DEF Kept

LEMMA EndKeeps == ReplayInv /\ EndReplay => ReplayInv'
<1> SUFFICES ASSUME ReplayInv, EndReplay PROVE ReplayInv'
  OBVIOUS
<1> USE ParametersTyped
<1>1. /\ chain' = chain /\ Top' = Top /\ query' = "none" /\ query = "replay"
      /\ stale' = stale /\ last' = top /\ height = top + 2
      /\ stamps' = Kept(stamps) /\ series' = Kept(series) /\ settled' = SeriesAt(top + 1)
  BY DEF EndReplay, Answer, daemon, Top
<1>2. /\ top \in Nat /\ top > Start /\ height > First /\ top # NoHeight
      /\ last # NoHeight => last \in Nat /\ last <= top
  <2>1. First \in Nat /\ top \in Nat /\ top > Start /\ First <= top + 1
    BY <1>1, LoopFinds DEF ReplayInv, QueryInv, First
  <2> QED
    BY <1>1, <2>1, LoopFinds DEF NoHeight
<1>3. Computed(stamps, series, top + 1)
  <2>1. height - 1 = top + 1
    BY <1>1, <1>2
  <2> QED
    BY <1>1, <1>2, <2>1 DEF ReplayInv, LoopInv
<1>4. /\ DOMAIN stamps' \subseteq DOMAIN stamps /\ DOMAIN series' \subseteq DOMAIN series
      /\ \A h \in DOMAIN stamps' : stamps'[h] = stamps[h]
      /\ \A h \in DOMAIN series' : series'[h] = series[h]
      /\ \A h \in DOMAIN stamps : h >= top - 2 * Window - 2 => h \in DOMAIN stamps'
      /\ \A h \in DOMAIN series : h >= top - 2 * Window - 2 => h \in DOMAIN series'
  BY <1>1, KeptKeeps
<1>5. /\ DOMAIN stamps \subseteq Nat /\ DOMAIN series \subseteq Nat
      /\ \A h \in DOMAIN series : h > Start
      /\ \A h \in DOMAIN series : h - 1 \in DOMAIN stamps \/ (last # NoHeight /\ h <= last)
  BY DEF ReplayInv, CachesInv
<1>6. ChainInv' /\ QueryInv' /\ LoopInv'
  BY <1>1 DEF ReplayInv, ChainInv, QueryInv, LoopInv
<1>7. CachesInv'
  <2>1. ASSUME NEW h \in DOMAIN series'
        PROVE  h - 1 \in DOMAIN stamps' \/ h <= top
    <3>1. h \in DOMAIN series /\ h \in Nat
      BY <1>4, <1>5
    <3>2. CASE h - 1 \in DOMAIN stamps
      BY <1>2, <1>4, <3>1, <3>2
    <3>3. CASE last # NoHeight /\ h <= last
      BY <1>2, <3>1, <3>3
    <3> QED
      BY <1>5, <3>1, <3>2, <3>3
  <2>2. /\ DOMAIN stamps' \subseteq Nat /\ DOMAIN series' \subseteq Nat
        /\ \A h \in DOMAIN series' : h > Start
    BY <1>4, <1>5
  <2> QED
    BY <1>1, <1>2, <2>1, <2>2 DEF CachesInv
<1>8. SettledInv'
  <2> DEFINE k == top + 1
  <2>1. k \in Nat /\ Computed(stamps, series, k)
    BY <1>2, <1>3
  <2>2. \A h \in {k - 1, k - 1 - Window} : h \in DOMAIN stamps' /\ stamps'[h] = stamps[h]
    <3>1. k - 1 \in DOMAIN stamps /\ k - 1 - Window \in DOMAIN stamps
      BY <1>3 DEF Computed
    <3>2. k - 1 >= top - 2 * Window - 2 /\ k - 1 - Window >= top - 2 * Window - 2
      BY <1>2
    <3> QED
      BY <1>4, <3>1, <3>2
  <2>3. \A h \in (k - Window)..k :
           h \in DOMAIN series => h \in DOMAIN series' /\ series'[h] = series[h]
    BY <1>2, <1>4
  <2>4. (\A h \in DOMAIN series : h > Start) /\ \A h \in DOMAIN series' : h > Start
    BY <1>4, <1>5
  <2>5. settled' = series[k]
    BY <1>1, <2>1 DEF SeriesAt, Computed
  <2> HIDE DEF k
  <2>6. Computed(stamps', series', k) /\ series'[k] = series[k]
    <3> DEFINE s == stamps
               r == stamps'
               d == series
               e == series'
    <3>1. /\ k \in Nat /\ Computed(s, d, k)
          /\ \A h \in {k - 1, k - 1 - Window} : h \in DOMAIN r /\ r[h] = s[h]
          /\ \A h \in (k - Window)..k : h \in DOMAIN d => h \in DOMAIN e /\ e[h] = d[h]
          /\ \A h \in DOMAIN d : h > Start
          /\ \A h \in DOMAIN e : h > Start
      BY <2>1, <2>2, <2>3, <2>4, Zenon
    <3> HIDE DEF s, r, d, e
    <3>2. Computed(r, e, k) /\ e[k] = d[k]
      BY <3>1, ComputedStays
    <3> QED
      BY <3>2 DEF r, d, e
  <2> QED
    BY <1>1, <1>2, <2>5, <2>6 DEF SettledInv, k
<1>9. SameInv'
  BY <1>1, <1>4 DEF ReplayInv, SameInv
<1> QED
  BY <1>6, <1>7, <1>8, <1>9 DEF ReplayInv

-----------------------------------------------------------------------------
(* The theorems *)

\* Each step extends or shortens the chain, asks, is one of the replay, or
\* leaves both sides alone.
LEMMA StepKinds ==
    ASSUME [Next]_vars
    PROVE  \/ UNCHANGED <<daemon, replay>>
           \/ Extend /\ UNCHANGED replay
           \/ PopBlock
           \/ Ask
           \/ ReplayStep
<1>1. CASE UNCHANGED vars
  BY <1>1 DEF vars
<1>2. CASE Replaying
  BY <1>2 DEF Replaying
<1>3. CASE MinerStep /\ ~Replaying
  <2>1. CASE DaemonReady \/ DaemonNeverReady \/ AddressFound \/ AddressMissing \/ AddressTimeout
    BY <2>1 DEF DaemonReady, DaemonNeverReady, AddressFound, AddressMissing, AddressTimeout, Goto
  <2>2. CASE Iterate \/ SleepSlice
    BY <2>2 DEF Iterate, SleepSlice
  <2>3. CASE DrawWait \/ Rescale \/ WaitOver \/ WaitCut \/ Detect
    BY <2>3 DEF DrawWait, Rescale, WaitOver, WaitCut, Detect, Goto
  <2>4. CASE StartMining \/ StartMiningFails \/ GenerateFails \/ AnswerMisread
    BY <2>4 DEF StartMining, StartMiningFails, GenerateFails, AnswerMisread, Goto
  <2>5. CASE GenerateBlock
    BY <2>5 DEF GenerateBlock
  <2> QED
    BY <1>3, <2>1, <2>2, <2>3, <2>4, <2>5 DEF MinerStep
<1>4. CASE NetworkExtends \/ NetworkPops
  BY <1>4 DEF NetworkExtends, NetworkPops
<1>5. CASE WalletAnnounces \/ Stop
  BY <1>5 DEF WalletAnnounces, Stop
<1> QED
  BY <1>1, <1>2, <1>3, <1>4, <1>5 DEF Next

LEMMA StepKeeps == ReplayInv /\ [Next]_vars => ReplayInv'
<1> SUFFICES ASSUME ReplayInv, [Next]_vars PROVE ReplayInv'
  OBVIOUS
<1>1. CASE UNCHANGED <<daemon, replay>>
  BY <1>1, UntouchedKeeps
<1>2. CASE Extend /\ UNCHANGED replay
  BY <1>2, ExtendKeeps
<1>3. CASE PopBlock
  BY <1>3, PopBlockKeeps
<1>4. CASE Ask
  BY <1>4, QuietKeeps DEF Ask, daemon
<1>5. CASE InfoRaises \/ WarmUp
  BY <1>5, QuietKeeps DEF InfoRaises, WarmUp, Answer, daemon
<1>6. CASE StartReplay
  BY <1>6, StartKeeps
<1>7. CASE ReplayHeight
  BY <1>7, ReplayHeightKeeps
<1>8. CASE HeaderRaises
  BY <1>8, HeaderRaisesKeeps
<1>9. CASE EndReplay
  BY <1>9, EndKeeps
<1> QED
  BY <1>1, <1>2, <1>3, <1>4, <1>5, <1>6, <1>7, <1>8, <1>9, StepKinds DEF ReplayStep

LEMMA AlwaysReplayInv == Spec => []ReplayInv
<1>1. Init => ReplayInv
  BY InitReplayInv DEF Init
<1> QED
  BY <1>1, StepKeeps, PTL DEF Spec

\* Whatever was cached, pruned, interrupted or dropped before, what a replay
\* answers is the recurrence over the daemon's chain (_get_daa_multiplier_inner),
\* unless a block it had cached was replaced behind its back.
THEOREM ReplayAnswersSeries == Spec => ReplayIsSeries
<1>1. ASSUME ReplayInv, [Next]_vars, Replayed, ~stale
      PROVE  multiplier' = SeriesOf(chain)[top + 1]
  <2>1. query = "replay" /\ query' = "none" /\ height = top + 2
    BY <1>1 DEF Replayed
  <2>2. EndReplay
    <3>1. ~(UNCHANGED <<daemon, replay>>) /\ ~(UNCHANGED replay) /\ ~PopBlock /\ ~Ask
      BY <2>1 DEF replay, PopBlock, Ask
    <3>2. ~InfoRaises /\ ~WarmUp /\ ~StartReplay
      BY <2>1 DEF InfoRaises, WarmUp, StartReplay
    <3>3. ~ReplayHeight /\ ~HeaderRaises
      <4>1. top \in Nat /\ height \in Nat
        BY <1>1, <2>1 DEF ReplayInv, QueryInv
      <4> QED
        BY <2>1, <4>1 DEF ReplayHeight, HeaderRaises
    <3> QED
      BY <1>1, <3>1, <3>2, <3>3, StepKinds DEF ReplayStep
  <2>3. multiplier' = SeriesAt(top + 1)
    BY <2>2 DEF EndReplay, Answer
  <2>4. top + 1 \in DOMAIN series
    <3>1. height \in Nat /\ top \in Nat /\ First <= top + 1 /\ First \in Nat
      BY <1>1, <2>1, LoopFinds, ParametersTyped DEF ReplayInv, QueryInv, First
    <3>2. height > First /\ height - 1 = top + 1
      BY <2>1, <3>1
    <3> QED
      BY <1>1, <2>1, <3>2 DEF ReplayInv, LoopInv, Computed
  <2> QED
    BY <1>1, <2>3, <2>4 DEF ReplayInv, SameInv, SeriesAt
<1>2. ReplayInv /\ [Next]_vars
         => [Replayed /\ ~stale => multiplier' = SeriesOf(chain)[top + 1]]_vars
  BY <1>1
<1> QED
  BY <1>2, AlwaysReplayInv, PTL DEF Spec, ReplayIsSeries

\* A replay that fails holds the multiplier of the last that did not, although
\* it has overwritten a part of the series; a failed get_info answers a value of
\* the chain's series that pruning has not taken away.
THEOREM FailureAnswersHeld == Spec => FailureHolds
<1>1. ASSUME ReplayInv, [Next]_vars, Interrupted PROVE multiplier' = settled
  <2>1. query = "replay" /\ query' = "none" /\ height # top + 2
    BY <1>1 DEF Interrupted
  <2>2. HeaderRaises
    <3>1. ~(UNCHANGED <<daemon, replay>>) /\ ~(UNCHANGED replay) /\ ~PopBlock /\ ~Ask
      BY <2>1 DEF replay, PopBlock, Ask
    <3>2. ~InfoRaises /\ ~WarmUp /\ ~StartReplay /\ ~ReplayHeight /\ ~EndReplay
      BY <2>1 DEF InfoRaises, WarmUp, StartReplay, ReplayHeight, EndReplay
    <3> QED
      BY <1>1, <3>1, <3>2, StepKinds DEF ReplayStep
  <2>3. multiplier' = Held
    BY <2>2 DEF HeaderRaises, Answer
  <2>4. last # NoHeight => last + 1 \in DOMAIN series
    BY <1>1 DEF ReplayInv, SettledInv, Computed
  <2> QED
    BY <1>1, <2>3, <2>4 DEF Held, SeriesAt, ReplayInv, SettledInv
<1>2. ASSUME ReplayInv, [Next]_vars, query = "info", query' = "none", faults' # faults, ~stale
      PROVE  multiplier' = SeriesOf(chain)[IF last = NoHeight THEN 0 ELSE last]
  <2>1. InfoRaises
    <3>1. ~(UNCHANGED <<daemon, replay>>) /\ ~(UNCHANGED replay) /\ ~PopBlock /\ ~Ask
      BY <1>2 DEF replay, PopBlock, Ask
    <3>2. ~WarmUp /\ ~StartReplay /\ ~ReplayHeight /\ ~HeaderRaises /\ ~EndReplay
      BY <1>2 DEF WarmUp, StartReplay, ReplayHeight, HeaderRaises, EndReplay
    <3> QED
      BY <1>2, <3>1, <3>2, StepKinds DEF ReplayStep
  <2>2. multiplier' = SeriesAt(IF last = NoHeight THEN 0 ELSE last)
    BY <2>1 DEF InfoRaises, Answer
  <2>3. CASE last = NoHeight
    <3>1. 0 \notin DOMAIN series
      BY <1>2, ParametersTyped DEF ReplayInv, CachesInv
    <3>2. SeriesOf(chain)[0] = One
      <4> DEFINE n == Top
                 c == chain
      <4>1. n \in Nat /\ DOMAIN c = 0..n /\ 0 \in 0..(n + 1)
        BY <1>2 DEF ReplayInv, ChainInv
      <4> HIDE DEF n, c
      <4>2. SeriesOf(c)[0] = One
        BY <4>1, SeriesStarts, ParametersTyped
      <4> QED
        BY <4>2 DEF c
    <3> QED
      BY <2>2, <2>3, <3>1, <3>2 DEF SeriesAt
  <2>4. CASE last # NoHeight
    <3>1. last \in Nat /\ last > Start /\ Reaches(series, last + 1)
      BY <1>2, <2>4 DEF ReplayInv, CachesInv, SettledInv, Computed
    <3>2. last \in ((last + 1) - Window)..((last + 1) - 1)
      BY <3>1, ParametersTyped
    <3>3. last \in DOMAIN series
      BY <3>1, <3>2 DEF Reaches
    <3> QED
      BY <1>2, <2>2, <2>4, <3>3 DEF ReplayInv, SameInv, SeriesAt
  <2> QED
    BY <2>3, <2>4
<1>3. ReplayInv /\ [Next]_vars
         => [/\ Interrupted => multiplier' = settled
             /\ query = "info" /\ faults' # faults /\ query' = "none" /\ ~stale =>
                   multiplier' = SeriesOf(chain)[IF last = NoHeight THEN 0 ELSE last]]_vars
  BY <1>1, <1>2
<1> QED
  BY <1>3, AlwaysReplayInv, PTL DEF Spec, FailureHolds
=============================================================================
