----------------------------- MODULE EtlJobsProofs -----------------------------
(***************************************************************************)
(* Proofs about four jobs: the exporter of the metrics (WikidataMetrics),  *)
(* the spine of legal acts (LegalActs), the tables of the statistics store *)
(* (StatsStore) and the mirror of EU legislation (CellarMirror).           *)
(***************************************************************************)
EXTENDS WikidataMetrics, LegalActs, StatsStore, CellarMirror,
        FiniteSetTheorems, WellFoundedInduction, TLAPS

----------------------------------------------------------------------------
(* Metrics.                                                                *)

(* The inductive invariant: how far a poll has counted, and that a row is  *)
(* counted a second time only after a fault.                               *)

MetricsTypes ==
  /\ consumerRuns \in 0..MaxBatches /\ metricsState \in 0..consumerRuns
  /\ counter \in Nat /\ pollFaults \in Nat
  /\ folded \in [1..MaxBatches -> Nat]
  /\ poll \in [pc : {"sleeps", "rows", "count"}, lastSeen : Nat, maxId : Nat, rows : Nat]

\* The cursor of the poll that runs: the only poller is the one that moves it.
PollCursor ==
  /\ poll.pc # "sleeps" => poll.lastSeen = metricsState
  /\ poll.pc = "rows" => poll.maxId = poll.lastSeen
  /\ poll.pc = "count" => /\ metricsState <= poll.maxId /\ poll.maxId <= poll.rows
                          /\ poll.rows <= consumerRuns

\* The rows that this poll, or one whose cursor was stored, has counted.
PollPassed(n) == n <= metricsState \/ (poll.pc = "count" /\ n <= poll.maxId)

FoldedSoFar ==
  \A n \in 1..MaxBatches :
    /\ PollPassed(n) => folded[n] > 0
    /\ ~PollPassed(n) => folded[n] <= pollFaults
    /\ folded[n] <= 1 + pollFaults

MetricsInv == MetricsTypes /\ PollCursor /\ FoldedSoFar

----------------------------------------------------------------------------

LEMMA MetricsInitInv == ASSUME MetricsInit PROVE MetricsInv
  BY MetricsAssumption DEF MetricsInit, PollSleeps, MetricsInv, MetricsTypes, PollCursor,
         FoldedSoFar, PollPassed

\* Of the steps, one counts a row.
LEMMA CountRunInv ==
  ASSUME MetricsInv, CountRun
  PROVE  MetricsInv'
<1>. DEFINE n == poll.maxId + 1
<1>1. /\ n \in 1..MaxBatches /\ ~PollPassed(n)
      /\ folded[n] \in Nat /\ folded[n] <= pollFaults
  <2>1. /\ poll.pc = "count" /\ poll.maxId < poll.rows /\ poll.rows <= consumerRuns
        /\ metricsState <= poll.maxId /\ poll.maxId \in Nat /\ poll.rows \in Nat
        /\ consumerRuns \in 0..MaxBatches /\ metricsState \in Nat
    BY MetricsAssumption DEF CountRun, MetricsInv, MetricsTypes, PollCursor
  <2>2. n \in 1..MaxBatches /\ ~PollPassed(n)
    BY <2>1, MetricsAssumption DEF PollPassed
  <2>. QED  BY <2>2 DEF MetricsInv, MetricsTypes, FoldedSoFar
<1>2. /\ poll' = [poll EXCEPT !.maxId = n] /\ poll.pc = "count" /\ n <= poll.rows
      /\ folded' = [folded EXCEPT ![n] = folded[n] + 1]
      /\ counter' = counter + 1 /\ UNCHANGED <<consumerRuns, metricsState, pollFaults>>
  BY DEF CountRun, MetricsInv, MetricsTypes
<1>3. MetricsTypes'
  BY <1>1, <1>2, SMTT(40) DEF MetricsInv, MetricsTypes
<1>4. PollCursor'
  BY <1>1, <1>2, SMTT(40) DEF MetricsInv, MetricsTypes, PollCursor
<1>5. ASSUME NEW k \in 1..MaxBatches
      PROVE  /\ PollPassed(k)' => folded'[k] > 0
             /\ ~PollPassed(k)' => folded'[k] <= pollFaults'
             /\ folded'[k] <= 1 + pollFaults'
  <2>1. PollPassed(k)' <=> PollPassed(k) \/ k = n
    BY <1>2 DEF MetricsInv, MetricsTypes, PollPassed, PollCursor
  <2>2. CASE k = n
    <3>1. folded'[k] = folded[n] + 1
      BY <1>1, <1>2, <2>2 DEF MetricsInv, MetricsTypes
    <3>. QED  BY <1>1, <1>2, <2>1, <2>2, <3>1 DEF MetricsInv, MetricsTypes
  <2>3. CASE k # n
    <3>1. folded'[k] = folded[k]
      BY <1>2, <2>3 DEF MetricsInv, MetricsTypes
    <3>. QED  BY <1>2, <2>1, <2>3, <3>1 DEF MetricsInv, FoldedSoFar
  <2>. QED  BY <2>2, <2>3
<1>. QED  BY <1>3, <1>4, <1>5 DEF MetricsInv, FoldedSoFar

\* After a fault the rows that no cursor passed may be counted once more.
LEMMA FaultInv ==
  ASSUME MetricsInv, PollFails \/ RelayRestarts
  PROVE  MetricsInv'
<1>1. /\ pollFaults' = pollFaults + 1 /\ poll' = PollSleeps
      /\ counter' \in {0, counter} /\ UNCHANGED <<consumerRuns, metricsState, folded>>
  BY DEF PollFails, RelayRestarts
<1>2. MetricsTypes' /\ PollCursor'
  BY <1>1 DEF MetricsInv, MetricsTypes, PollCursor, PollSleeps
<1>3. FoldedSoFar'
  BY <1>1 DEF MetricsInv, MetricsTypes, FoldedSoFar, PollPassed, PollSleeps
<1>. QED  BY <1>2, <1>3 DEF MetricsInv

\* The cursor is stored: it stands at the last row that was counted.
LEMMA MetricsStateInv ==
  ASSUME MetricsInv, StoreMetricsState
  PROVE  MetricsInv'
<1>1. /\ metricsState' = poll.maxId /\ poll' = PollSleeps /\ poll.pc = "count"
      /\ UNCHANGED <<consumerRuns, counter, folded, pollFaults>>
  BY DEF StoreMetricsState, Passed, MetricsInv, MetricsTypes, PollCursor
<1>2. MetricsTypes' /\ PollCursor'
  BY <1>1 DEF MetricsInv, MetricsTypes, PollCursor, PollSleeps
<1>3. FoldedSoFar'
  BY <1>1 DEF MetricsInv, MetricsTypes, PollCursor, FoldedSoFar, PollPassed, PollSleeps
<1>. QED  BY <1>2, <1>3 DEF MetricsInv

LEMMA MetricsNextInv ==
  ASSUME MetricsInv, [MetricsNext]_metricsVars
  PROVE  MetricsInv'
<1>1. CASE LogRun
  BY <1>1, MetricsAssumption DEF LogRun, MetricsInv, MetricsTypes, PollCursor, FoldedSoFar, PollPassed
<1>2. CASE ReadMetricsState
  BY <1>2 DEF ReadMetricsState, MetricsInv, MetricsTypes, PollCursor, FoldedSoFar, PollPassed
<1>3. CASE ReadRuns
  <2>1. /\ poll' = [poll EXCEPT !.pc = "count", !.rows = consumerRuns]
        /\ poll.pc = "rows" /\ poll.maxId = metricsState
        /\ UNCHANGED <<consumerRuns, metricsState, counter, folded, pollFaults>>
    BY <1>3 DEF ReadRuns, MetricsInv, PollCursor
  <2>2. consumerRuns \in Nat /\ metricsState \in Nat /\ metricsState <= consumerRuns
    BY MetricsAssumption DEF MetricsInv, MetricsTypes
  <2>3. poll' = [pc |-> "count", lastSeen |-> poll.lastSeen, maxId |-> poll.maxId,
                 rows |-> consumerRuns]
        /\ poll.lastSeen = metricsState
    BY <2>1 DEF MetricsInv, MetricsTypes, PollCursor
  <2>4. MetricsTypes'
    BY <2>1, <2>2, <2>3 DEF MetricsInv, MetricsTypes
  <2>5. PollCursor'
    BY <2>1, <2>2, <2>3 DEF PollCursor
  <2>6. FoldedSoFar'
    BY <2>1, <2>2 DEF MetricsInv, MetricsTypes, FoldedSoFar, PollPassed
  <2>. QED  BY <2>4, <2>5, <2>6 DEF MetricsInv
<1>4. CASE CountRun  BY <1>4, CountRunInv
<1>5. CASE StoreMetricsState  BY <1>5, MetricsStateInv
<1>6. CASE PollFails \/ RelayRestarts  BY <1>6, FaultInv
<1>7. CASE UNCHANGED metricsVars
  BY <1>7 DEF metricsVars, MetricsInv, MetricsTypes, PollCursor, FoldedSoFar, PollPassed
<1>. QED  BY <1>1, <1>2, <1>3, <1>4, <1>5, <1>6, <1>7 DEF MetricsNext

----------------------------------------------------------------------------
(* The theorem.                                                            *)

\* A batch that the cursor of metrics.py has passed was counted, and none more
\* often than the faults of the poller allow, for any numbers of batches and faults.
THEOREM BatchesAreFolded == MetricsSpec => []EveryBatchIsFolded
<1>1. MetricsInit => MetricsInv  BY MetricsInitInv
<1>2. MetricsInv /\ [MetricsNext]_metricsVars => MetricsInv'  BY MetricsNextInv
<1>3. MetricsInv => EveryBatchIsFolded
  BY DEF MetricsInv, FoldedSoFar, PollPassed, EveryBatchIsFolded
<1>. QED  BY <1>1, <1>2, <1>3, PTL DEF MetricsSpec

----------------------------------------------------------------------------
(* Sets of naturals.                                                       *)

\* A set of naturals has a least element.
LEMMA LeastOf ==
  ASSUME NEW T, T \subseteq Nat, T # {}
  PROVE  \E x \in T : \A y \in T : x <= y
<1>. DEFINE Less == {ss \in Nat \X Nat : ss[1] < ss[2]}
<1>1. IsWellFoundedOn(Less, Nat)
  BY NatLessThanWellFounded DEF OpToRel
<1>2. ASSUME NEW x \in Nat, NEW y \in Nat, x < y PROVE <<x, y>> \in Less
  BY <1>2
<1>. HIDE DEF Less
<1>3. PICK x \in T : \A y \in T : ~(<<y, x>> \in Less)
  BY <1>1, WFMin, Zenon
<1>4. ASSUME NEW y \in T PROVE x <= y
  <2>1. x \in Nat /\ y \in Nat
    OBVIOUS
  <2>2. ~(y < x)
    BY <1>2, <1>3, <2>1, Zenon
  <2>. QED  BY <2>1, <2>2
<1>. QED  BY <1>4

\* A set that has a bound has a greatest element.
LEMMA GreatestOf ==
  ASSUME NEW bound \in Nat, NEW T, T \subseteq 1..bound, T # {}
  PROVE  \E x \in T : \A y \in T : y <= x
<1>. DEFINE Above == {n \in Nat : \A y \in T : y <= n}
<1>1. bound \in Above /\ Above \subseteq Nat
  OBVIOUS
<1>2. PICK n \in Above : \A m \in Above : n <= m
  BY <1>1, LeastOf
<1>3. n \in T
  <2>1. SUFFICES ASSUME n \notin T PROVE FALSE
    OBVIOUS
  <2>2. n \in Nat /\ \A y \in T : y \in Nat /\ y >= 1 /\ y <= n /\ y # n
    BY <1>2, <2>1
  <2>3. n - 1 \in Nat /\ \A y \in T : y <= n - 1
    <3>1. PICK y \in T : TRUE
      OBVIOUS
    <3>2. n - 1 \in Nat
      BY <2>2, <3>1
    <3>3. \A z \in T : z <= n - 1
      BY <2>2
    <3>. QED  BY <3>2, <3>3
  <2>4. n - 1 \in Above
    BY <2>3
  <2>. QED  BY <1>2, <2>2, <2>4
<1>. QED  BY <1>2, <1>3

----------------------------------------------------------------------------
(* A page of the keyset.                                                   *)

\* The acts of a page follow the position; an act that the mirror has behind it
\* is on the page, or behind all of it, and then the page is full.
LEMMA PageIsAPrefix ==
  ASSUME NEW after \in Nat,
         NEW a \in KeysAfter(after), a \notin Page(after)
  PROVE  /\ ActPage <= Cardinality(Page(after))
         /\ \A b \in Page(after) : b < a
<1>. DEFINE Before(x) == {b \in KeysAfter(after) : b < x}
<1>1. KeysAfter(after) \subseteq Act /\ IsFiniteSet(KeysAfter(after))
  <2>1. IsFiniteSet(Act)
    BY FS_Interval, SpineAssumption DEF Act
  <2>. QED  BY <2>1, FS_Subset DEF KeysAfter
<1>2. \A x \in KeysAfter(after) : IsFiniteSet(Before(x)) /\ Cardinality(Before(x)) \in Nat
  BY <1>1, FS_Subset, FS_CardinalityType
<1>3. \A x \in KeysAfter(after) : x \in Page(after) <=> Cardinality(Before(x)) < ActPage
  BY DEF Page
<1>4. Page(after) \subseteq KeysAfter(after) /\ IsFiniteSet(Page(after))
  BY <1>1, FS_Subset DEF Page
<1>. HIDE DEF Before
\* What comes before an act of the page is on the page.
<1>5. ASSUME NEW x \in KeysAfter(after), NEW y \in Page(after), x <= y
      PROVE  x \in Page(after)
  <2>1. Before(x) \subseteq Before(y)
    BY <1>1, <1>4, <1>5 DEF Before, Act
  <2>2. Cardinality(Before(x)) <= Cardinality(Before(y))
    BY <1>2, <1>4, <2>1, FS_Subset
  <2>. QED  BY <1>2, <1>3, <1>4, <2>2, SpineAssumption
<1>6. \A b \in Page(after) : b < a
  BY <1>1, <1>4, <1>5 DEF Act
\* The first act that is not on the page has the whole page before it.
<1>7. ActPage <= Cardinality(Page(after))
  <2>. DEFINE Left == KeysAfter(after) \ Page(after)
  <2>1. Left \subseteq Nat /\ Left # {}
    BY <1>1 DEF Act
  <2>2. PICK x \in Left : \A y \in Left : x <= y
    BY <2>1, LeastOf
  <2>3. Before(x) \subseteq Page(after)
    BY <1>1, <2>2 DEF Before, Act
  <2>4. Cardinality(Before(x)) <= Cardinality(Page(after)) /\ Cardinality(Page(after)) \in Nat
    BY <1>4, <2>3, FS_Subset, FS_CardinalityType
  <2>5. ActPage <= Cardinality(Before(x))
    BY <1>2, <1>3, <2>2, SpineAssumption
  <2>. QED  BY <1>2, <2>2, <2>4, <2>5, SpineAssumption
<1>. QED  BY <1>6, <1>7

----------------------------------------------------------------------------
(* The inductive invariant: up to its position a sweep has merged what the *)
(* mirror had when it began.                                               *)

Versions == SUBSET (Nat \ {0})

SpineTypes ==
  /\ inMirror \in [Act -> Versions] /\ inGraph \in [Act -> Nat]
  /\ sweep = [pc |-> sweep.pc, after |-> sweep.after, page |-> sweep.page,
              before |-> sweep.before, todo |-> sweep.todo, rows |-> sweep.rows]
  /\ sweep.pc \in {"idle", "keys", "merge", "answers", "link"}
  /\ sweep.after \in Nat /\ sweep.page \subseteq Act /\ sweep.before \in [Act -> Versions]
  /\ sweep.rows \in [Act -> Versions]

MirrorGrowsOnly ==
  \A a \in Act : sweep.before[a] \subseteq inMirror[a] /\ sweep.rows[a] \subseteq inMirror[a]

\* What the mirror had of a when the sweep began is merged.
Merged(a) == sweep.before[a] # {} => inGraph[a] # 0

SweptSoFar ==
  sweep.pc \in {"keys", "merge"} => \A a \in Act : a <= sweep.after => Merged(a)

PageIsNext ==
  sweep.pc = "merge" =>
    /\ sweep.page # {}
    /\ \A a \in Act : a > sweep.after /\ sweep.before[a] # {} =>
         \/ a \in sweep.page
         \/ ~LastPage(sweep.page) /\ \A b \in sweep.page : b < a

SpineInv == SpineTypes /\ MirrorGrowsOnly /\ SweptSoFar /\ PageIsNext /\ SweepIsComplete

----------------------------------------------------------------------------

LEMMA SpineInitInv == SpineInit => SpineInv
<1>. SUFFICES ASSUME SpineInit PROVE SpineInv
  OBVIOUS
<1>1. /\ sweep.pc = "idle" /\ sweep.before = [a \in Act |-> {}]
      /\ sweep.rows = [a \in Act |-> {}] /\ inGraph = [a \in Act |-> 0]
  BY DEF SpineInit, SweepIdle
<1>2. inMirror \in [Act -> Versions]
  <2>1. inMirror \in [Act -> {{}, {1}}]
    BY DEF SpineInit
  <2>2. {{}, {1}} \subseteq Versions
    BY DEF Versions
  <2>. QED  BY <2>1, <2>2
<1>3. SpineTypes
  BY <1>1, <1>2 DEF SpineInit, SweepIdle, SpineTypes, Versions
<1>. QED
  BY <1>1, <1>3 DEF SpineInv, MirrorGrowsOnly, SweptSoFar, PageIsNext, SweepIsComplete

\* The mirror grows; the sweep goes back to its start or is left as it is.
LEMMA MirrorLoadsInv == SpineInv /\ MirrorLoads => SpineInv'
<1>. SUFFICES ASSUME SpineInv, MirrorLoads PROVE SpineInv'
  OBVIOUS
<1>1. inMirror \in [Act -> Versions]
  BY DEF SpineInv, SpineTypes
<1>2. PICK b \in Act, v \in 1..MaxActVersion :
        inMirror' = [inMirror EXCEPT ![b] = inMirror[b] \union {v}]
  BY DEF MirrorLoads
<1>3. v \in Nat \ {0}
  BY SpineAssumption
<1>4. inMirror[b] \union {v} \in Versions
  BY <1>1, <1>3 DEF Versions
<1>5. inMirror' \in [Act -> Versions] /\ \A a \in Act : inMirror[a] \subseteq inMirror'[a]
  BY <1>1, <1>2, <1>4
<1>6. UNCHANGED <<inGraph, sweep>>
  BY DEF MirrorLoads
<1>7. SpineTypes' /\ MirrorGrowsOnly'
  BY <1>5, <1>6 DEF SpineInv, SpineTypes, MirrorGrowsOnly
<1>8. SweepIsComplete'
  BY <1>5, <1>6 DEF SpineInv, SpineTypes, SweepIsComplete
<1>. QED
  BY <1>6, <1>7, <1>8 DEF SpineInv, SweptSoFar, Merged, PageIsNext, LastPage

LEMMA QuietSpineInv ==
  ASSUME SpineInv, sweep' = SweepIdle, UNCHANGED <<inMirror, inGraph>>
  PROVE  SpineInv'
<1>1. /\ sweep'.pc = "idle" /\ sweep'.before = [a \in Act |-> {}]
      /\ sweep'.rows = [a \in Act |-> {}]
  BY DEF SweepIdle
<1>2. SpineTypes'
  BY <1>1 DEF SpineInv, SpineTypes, SweepIdle, Versions
<1>. QED
  BY <1>1, <1>2 DEF SpineInv, SpineTypes, MirrorGrowsOnly, SweptSoFar, PageIsNext, SweepIsComplete

LEMMA StartSweepInv == SpineInv /\ StartSweep => SpineInv'
<1>. SUFFICES ASSUME SpineInv, StartSweep PROVE SpineInv'
  OBVIOUS
<1>1. /\ sweep' = [SweepIdle EXCEPT !.pc = "keys", !.before = inMirror]
      /\ UNCHANGED <<inMirror, inGraph>>
  BY DEF StartSweep
<1>2. /\ sweep'.pc = "keys" /\ sweep'.before = inMirror /\ sweep'.after = 0
      /\ sweep'.rows = [a \in Act |-> {}]
  BY <1>1 DEF SweepIdle
<1>3. SpineTypes'
  BY <1>1, <1>2 DEF SpineInv, SpineTypes, SweepIdle, Versions
<1>4. MirrorGrowsOnly' /\ SweptSoFar'
  <2>1. \A a \in Act : ~(a <= 0)
    BY SpineAssumption DEF Act
  <2>. QED  BY <1>1, <1>2, <2>1 DEF SpineInv, SpineTypes, MirrorGrowsOnly, SweptSoFar
<1>. QED  BY <1>1, <1>2, <1>3, <1>4 DEF SpineInv, PageIsNext, SweepIsComplete

LEMMA ReadKeysInv == SpineInv /\ ReadKeys => SpineInv'
<1>. SUFFICES ASSUME SpineInv, ReadKeys PROVE SpineInv'
  OBVIOUS
<1>. DEFINE page == Page(sweep.after)
<1>1. /\ sweep.pc = "keys" /\ UNCHANGED <<inMirror, inGraph>>
      /\ sweep' = IF page = {} THEN [sweep EXCEPT !.pc = "answers"]
                  ELSE [sweep EXCEPT !.pc = "merge", !.page = page]
  BY DEF ReadKeys
<1>2. sweep.after \in Nat /\ page \subseteq Act
  BY DEF SpineInv, SpineTypes, Page, KeysAfter
<1>3. /\ sweep'.before = sweep.before /\ sweep'.after = sweep.after
      /\ sweep'.rows = sweep.rows
  BY <1>1 DEF SpineInv, SpineTypes
<1>4. SpineTypes'
  BY <1>1, <1>2 DEF SpineInv, SpineTypes
<1>5. MirrorGrowsOnly' /\ SweptSoFar'
  BY <1>1, <1>3 DEF SpineInv, MirrorGrowsOnly, SweptSoFar, Merged
\* What was there when the sweep began still is.
<1>6. \A a \in Act : a > sweep.after /\ sweep.before[a] # {} => a \in KeysAfter(sweep.after)
  BY <1>2 DEF SpineInv, MirrorGrowsOnly, KeysAfter
<1>7. \A a \in Act : a > sweep.after /\ sweep.before[a] # {} /\ a \notin page =>
        ActPage <= Cardinality(page) /\ \A b \in page : b < a
  BY <1>2, <1>6, PageIsAPrefix
<1>. HIDE DEF page
<1>8. CASE page = {}
  <2>1. sweep'.pc = "answers"
    BY <1>1, <1>8 DEF SpineInv, SpineTypes
  <2>2. \A a \in Act : a > sweep.after => sweep.before[a] = {}
    BY <1>2, <1>7, <1>8, FS_EmptySet, SpineAssumption
  <2>3. \A a \in Act : Merged(a)
    BY <1>1, <1>2, <2>2 DEF SpineInv, SweptSoFar, Merged, Act
  <2>. QED
    BY <1>1, <1>3, <1>4, <1>5, <2>1, <2>3 DEF SpineInv, PageIsNext, SweepIsComplete, Merged
<1>9. CASE page # {}
  <2>1. sweep'.pc = "merge" /\ sweep'.page = page
    BY <1>1, <1>9 DEF SpineInv, SpineTypes
  <2>2. Cardinality(page) \in Nat
    <3>1. IsFiniteSet(Act)
      BY FS_Interval, SpineAssumption DEF Act
    <3>. QED  BY <1>2, <3>1, FS_Subset, FS_CardinalityType
  <2>3. PageIsNext'
    BY <1>3, <1>7, <1>9, <2>1, <2>2, SpineAssumption DEF PageIsNext, LastPage
  <2>. QED  BY <1>1, <1>4, <1>5, <2>1, <2>3 DEF SpineInv, SweepIsComplete
<1>. QED  BY <1>8, <1>9

LEMMA MergePageInv == SpineInv /\ MergePage => SpineInv'
<1>. SUFFICES ASSUME SpineInv, MergePage PROVE SpineInv'
  OBVIOUS
<1>. DEFINE last == CHOOSE a \in sweep.page : \A b \in sweep.page : b <= a
<1>1. PICK seen \in Sampled(sweep.page) :
        inGraph' = [a \in Act |-> IF a \in sweep.page THEN seen[a] ELSE inGraph[a]]
  BY DEF MergePage
<1>2. /\ sweep.pc = "merge" /\ UNCHANGED inMirror
      /\ sweep' = [sweep EXCEPT !.pc = IF LastPage(sweep.page) THEN "answers" ELSE "keys",
                                !.page = {}, !.after = last]
  BY DEF MergePage
<1>3. last \in sweep.page /\ \A b \in sweep.page : b <= last
  <2>1. \E a \in sweep.page : \A b \in sweep.page : b <= a
    BY <1>2, GreatestOf, SpineAssumption DEF SpineInv, SpineTypes, PageIsNext, Act
  <2>. QED  BY <2>1
<1>. HIDE DEF last
<1>4. /\ sweep'.pc = IF LastPage(sweep.page) THEN "answers" ELSE "keys"
      /\ sweep'.after = last /\ sweep'.before = sweep.before /\ sweep'.rows = sweep.rows
      /\ sweep'.page = {}
  BY <1>2 DEF SpineInv, SpineTypes
<1>5. /\ inMirror \in [Act -> Versions] /\ inGraph \in [Act -> Nat]
      /\ sweep.after \in Nat /\ sweep.page \subseteq Act /\ last \in Act /\ last \in Nat
  BY <1>3, SpineAssumption DEF SpineInv, SpineTypes, Act
\* A version of each act of the page, none of which is 0.
<1>6. \A a \in sweep.page : seen[a] \in inMirror[a] /\ seen[a] \in Nat \ {0}
  BY <1>5 DEF Sampled, Versions
<1>7. inGraph' \in [Act -> Nat] /\ \A a \in sweep.page : inGraph'[a] # 0
  BY <1>1, <1>5, <1>6
<1>8. SpineTypes'
  <2>1. sweep' = [pc |-> sweep'.pc, after |-> sweep'.after, page |-> sweep'.page,
                  before |-> sweep'.before, todo |-> sweep'.todo, rows |-> sweep'.rows]
    BY <1>2 DEF SpineInv, SpineTypes
  <2>. QED  BY <1>2, <1>4, <1>5, <1>7, <2>1 DEF SpineInv, SpineTypes
<1>9. MirrorGrowsOnly'
  BY <1>2, <1>4 DEF SpineInv, MirrorGrowsOnly
<1>10. ASSUME NEW a \in Act, a <= last \/ LastPage(sweep.page), sweep.before[a] # {}
       PROVE  inGraph'[a] # 0
  <2>1. CASE a \in sweep.page
    BY <1>7, <2>1
  <2>2. CASE a \notin sweep.page /\ a <= sweep.after
    BY <1>1, <1>2, <1>10, <2>2 DEF SpineInv, SweptSoFar, Merged
  <2>3. CASE a \notin sweep.page /\ a > sweep.after
    <3>1. ~LastPage(sweep.page) /\ \A b \in sweep.page : b < a
      BY <1>2, <1>10, <2>3 DEF SpineInv, PageIsNext
    <3>2. last < a /\ a \in Nat
      BY <1>3, <3>1, SpineAssumption DEF Act
    <3>. QED  BY <1>5, <1>10, <3>1, <3>2
  <2>. QED  BY <1>5, <2>1, <2>2, <2>3 DEF Act
<1>11. \A a \in Act : inGraph'[a] \in inMirror[a] \union {0}
  BY <1>1, <1>6 DEF SpineInv, SweepIsComplete
<1>12. SweepIsComplete' /\ SweptSoFar'
  BY <1>2, <1>4, <1>10, <1>11 DEF SweepIsComplete, SweptSoFar, Merged
<1>. QED
  BY <1>4, <1>8, <1>9, <1>12 DEF SpineInv, PageIsNext

\* Links only add nodes, of a version that the mirror had when they were resolved.
LEMMA LinksInv == SpineInv /\ (ResolveLinks \/ WriteLink) => SpineInv'
<1>. SUFFICES ASSUME SpineInv, ResolveLinks \/ WriteLink PROVE SpineInv'
  OBVIOUS
<1>1. inMirror \in [Act -> Versions] /\ inGraph \in [Act -> Nat] /\ UNCHANGED inMirror
  BY DEF ResolveLinks, WriteLink, SpineInv, SpineTypes
<1>2. CASE ResolveLinks
  <2>1. PICK edges :
          sweep' = [sweep EXCEPT !.pc = "link", !.todo = edges,
                      !.rows = [a \in Act |-> IF \E edge \in edges : edge[3] = a
                                                THEN inMirror[a] ELSE {}]]
    BY <1>2 DEF ResolveLinks
  <2>. DEFINE rows == [a \in Act |-> IF \E edge \in edges : edge[3] = a
                                       THEN inMirror[a] ELSE {}]
  <2>2. rows \in [Act -> Versions] /\ \A a \in Act : rows[a] \subseteq inMirror[a]
    BY <1>1 DEF Versions
  <2>. HIDE DEF rows
  <2>3. sweep' = [sweep EXCEPT !.pc = "link", !.todo = edges, !.rows = rows]
    BY <2>1 DEF rows
  <2>4. /\ sweep.pc = "answers" /\ sweep'.pc = "link" /\ sweep'.before = sweep.before
        /\ sweep'.rows = rows /\ UNCHANGED inGraph
    BY <1>2, <2>3 DEF ResolveLinks, SpineInv, SpineTypes
  <2>5. SpineTypes'
    BY <1>1, <2>2, <2>3, <2>4 DEF SpineInv, SpineTypes
  <2>6. MirrorGrowsOnly'
    BY <1>1, <2>2, <2>4 DEF SpineInv, MirrorGrowsOnly
  <2>. QED
    BY <1>1, <2>4, <2>5, <2>6 DEF SpineInv, SweptSoFar, PageIsNext, SweepIsComplete
<1>3. CASE WriteLink
  <2>1. PICK edge \in sweep.todo : \E v \in sweep.rows[edge[3]] :
          /\ inGraph' = [inGraph EXCEPT ![edge[3]] = IF @ = 0 THEN v ELSE @]
          /\ sweep' = [sweep EXCEPT !.todo = @ \ {edge}]
    BY <1>3 DEF WriteLink
  <2>. DEFINE act == edge[3]
  <2>2. PICK v \in sweep.rows[act] :
          inGraph' = [inGraph EXCEPT ![act] = IF inGraph[act] = 0 THEN v ELSE inGraph[act]]
    BY <2>1
  <2>. HIDE DEF act
  <2>3. act \in Act => v \in inMirror[act] /\ v \in Nat \ {0}
    BY <1>1, <2>2 DEF SpineInv, MirrorGrowsOnly, Versions
  <2>4. /\ inGraph' \in [Act -> Nat]
        /\ \A a \in Act : /\ inGraph[a] # 0 => inGraph'[a] # 0
                          /\ inGraph'[a] \in {inGraph[a]} \union inMirror[a]
    BY <1>1, <2>2, <2>3
  <2>5. /\ sweep.pc = "link" /\ sweep'.pc = "link" /\ sweep'.before = sweep.before
        /\ sweep'.rows = sweep.rows
    BY <1>3, <2>1 DEF WriteLink, SpineInv, SpineTypes
  <2>6. SpineTypes'
    BY <1>1, <2>1, <2>4, <2>5 DEF SpineInv, SpineTypes
  <2>7. MirrorGrowsOnly'
    BY <1>1, <2>5 DEF SpineInv, MirrorGrowsOnly
  <2>8. SweepIsComplete'
    BY <1>1, <2>4, <2>5 DEF SpineInv, SweepIsComplete
  <2>. QED  BY <2>5, <2>6, <2>7, <2>8 DEF SpineInv, SweptSoFar, PageIsNext
<1>. QED  BY <1>2, <1>3

LEMMA SpineNextInv == SpineInv /\ [SpineNext]_spineVars => SpineInv'
<1>. SUFFICES ASSUME SpineInv, [SpineNext]_spineVars PROVE SpineInv'
  OBVIOUS
<1>1. CASE UNCHANGED spineVars
  BY <1>1 DEF spineVars, SpineInv, SpineTypes, MirrorGrowsOnly, SweptSoFar, Merged, PageIsNext,
              SweepIsComplete, LastPage
<1>2. CASE SweepEnds \/ SweepFails
  BY <1>2, QuietSpineInv DEF SweepEnds, SweepFails
<1>. QED
  BY <1>1, <1>2, MirrorLoadsInv, StartSweepInv, ReadKeysInv, MergePageInv, LinksInv DEF SpineNext

\* A sweep that has reached its end has merged every act the mirror had when it
\* began, and a node shows a version that the mirror has, for any number of acts and
\* versions, any page size, and whatever is loaded meanwhile.
THEOREM SweepsAreComplete == SpineSpec => []SweepIsComplete
<1>1. SpineInv => SweepIsComplete
  BY DEF SpineInv
<1>. QED  BY <1>1, SpineInitInv, SpineNextInv, PTL DEF SpineSpec

----------------------------------------------------------------------------
(* The statistics store.                                                   *)

(* The inductive invariant: while nothing has failed, what is derived from *)
(* the observations of a dataset differs from them only in the years that  *)
(* a job at this dataset has yet to recompute.                             *)

AtDataset == {"load", "stats", "availability"}

JobRecord(r) ==
  /\ r = [pc |-> r.pc, file |-> r.file, seeds |-> r.seeds, due |-> r.due,
          code |-> r.code, since |-> r.since]
  /\ r.seeds \subseteq Dataset /\ r.due \subseteq Dataset
  /\ r.pc \in AtDataset => r.code \in Dataset
  /\ r.pc \notin AtDataset => r.code = NoCodes

JobTypes(j) == JobRecord(cronJob[j])

ByYear == [Dataset -> [ObservedYear -> Int]]

StoreTypes ==
  /\ observed \in ByYear /\ statistics \in ByYear /\ availability \in ByYear
  /\ enabled \subseteq Dataset /\ statsFailures \in Nat
  /\ cronJob = [j \in Cadence |-> cronJob[j]] /\ \A j \in Cadence : JobTypes(j)

\* A job that will compute the statistics of d, and one that will compute the
\* availability of d in year y.
WillCount(d) == \E j \in Cadence : cronJob[j].code = d /\ cronJob[j].pc \in {"load", "stats"}
WillCover(d, y) == \E j \in Cadence : cronJob[j].code = d /\ y >= cronJob[j].since

DerivedSoFar ==
  statsFailures = 0 =>
    \A d \in Dataset :
      /\ ~WillCount(d) => statistics[d] = observed[d]
      /\ \A y \in ObservedYear : ~WillCover(d, y) => availability[d][y] = observed[d][y]

StoreInv == StoreTypes /\ DerivedSoFar

----------------------------------------------------------------------------

LEMMA JobIdleTypes == JobRecord(JobIdle)
  BY DEF JobRecord, JobIdle, AtDataset

LEMMA StoreInitInv == StoreInit => StoreInv
<1>. SUFFICES ASSUME StoreInit PROVE StoreInv
  OBVIOUS
<1>1. NoYears \in [ObservedYear -> Int]
  BY DEF NoYears
<1>2. observed \in ByYear /\ statistics = observed /\ availability = observed
  BY <1>1 DEF StoreInit, ByYear
<1>3. cronJob = [j \in Cadence |-> cronJob[j]] /\ \A j \in Cadence : JobTypes(j)
  BY JobIdleTypes DEF StoreInit, JobTypes
<1>4. StoreTypes
  BY <1>2, <1>3 DEF StoreInit, StoreTypes
<1>. QED  BY <1>2, <1>4 DEF StoreInv, DerivedSoFar

\* A job that is at no dataset and goes on to none.
LEMMA ElsewhereInv ==
  ASSUME StoreInv, NEW j \in Cadence, NEW r, JobRecord(r),
         cronJob' = [cronJob EXCEPT ![j] = r], cronJob[j].pc \notin AtDataset,
         enabled' \subseteq Dataset,
         UNCHANGED <<observed, statistics, availability, statsFailures>>
  PROVE  StoreInv'
<1>1. /\ cronJob'[j] = r /\ \A k \in Cadence \ {j} : cronJob'[k] = cronJob[k]
      /\ cronJob' = [k \in Cadence |-> cronJob'[k]]
  BY DEF StoreInv, StoreTypes
<1>2. \A k \in Cadence : JobTypes(k)'
  BY <1>1 DEF StoreInv, StoreTypes, JobTypes
<1>3. StoreTypes'
  BY <1>1, <1>2 DEF StoreInv, StoreTypes
<1>4. cronJob[j].code \notin Dataset
  BY StoreAssumption DEF StoreInv, StoreTypes, JobTypes, JobRecord
\* The other job is still where it was.
<1>5. ASSUME NEW d \in Dataset PROVE WillCount(d) => WillCount(d)'
  BY <1>1, <1>4 DEF WillCount
<1>6. ASSUME NEW d \in Dataset, NEW y \in ObservedYear PROVE WillCover(d, y) => WillCover(d, y)'
  BY <1>1, <1>4 DEF WillCover
<1>. QED  BY <1>3, <1>5, <1>6 DEF StoreInv, DerivedSoFar

LEMMA SeedInv ==
  ASSUME StoreInv, NEW j \in Cadence,
         CronFires(j) \/ RegisterSeed(j) \/ DisableOthers(j) \/ ListDue(j) \/ JobEnds(j)
  PROVE  StoreInv'
<1>. DEFINE job == cronJob[j]
<1>1. JobRecord(job) /\ enabled \subseteq Dataset
  BY DEF StoreInv, StoreTypes, JobTypes
<1>2. CASE CronFires(j)
  <2>1. PICK file : cronJob' = [cronJob EXCEPT ![j] =
                      [@ EXCEPT !.pc = "seed", !.file = file,
                                 !.seeds = Seeded(file) \intersect Dataset]]
    BY <1>2 DEF CronFires
  <2>2. PICK r : r = [job EXCEPT !.pc = "seed", !.file = file,
                                 !.seeds = Seeded(file) \intersect Dataset]
    OBVIOUS
  <2>4. JobRecord(r)
    BY <1>1, <1>2, <2>2 DEF CronFires, JobRecord, AtDataset
  <2>5. cronJob' = [cronJob EXCEPT ![j] = r]
    BY <2>1, <2>2
  <2>3. job.pc \notin AtDataset
    BY <1>2 DEF CronFires, AtDataset
  <2>. QED  BY <1>1, <1>2, <2>3, <2>4, <2>5, ElsewhereInv DEF CronFires
<1>3. CASE RegisterSeed(j)
  <2>1. PICK d \in job.seeds :
          /\ enabled' = enabled \union {d}
          /\ cronJob' = [cronJob EXCEPT ![j] = [job EXCEPT !.seeds = job.seeds \ {d}]]
    BY <1>3 DEF RegisterSeed
  <2>2. JobRecord([job EXCEPT !.seeds = job.seeds \ {d}]) /\ d \in Dataset
    BY <1>1, <2>1 DEF JobRecord
  <2>3. job.pc \notin AtDataset
    BY <1>3 DEF RegisterSeed, AtDataset
  <2>. QED  BY <1>1, <1>3, <2>1, <2>2, <2>3, ElsewhereInv DEF RegisterSeed
<1>4. CASE DisableOthers(j)
  <2>1. cronJob' = [cronJob EXCEPT ![j] = [job EXCEPT !.pc = "list"]]
    BY <1>4 DEF DisableOthers
  <2>2. JobRecord([job EXCEPT !.pc = "list"]) /\ job.pc \notin AtDataset
    BY <1>1, <1>4 DEF DisableOthers, JobRecord, AtDataset
  <2>. QED  BY <1>1, <1>4, <2>1, <2>2, ElsewhereInv DEF DisableOthers
<1>5. CASE ListDue(j)
  <2>1. PICK due \in SUBSET enabled :
          cronJob' = [cronJob EXCEPT ![j] = [job EXCEPT !.pc = "next", !.due = due]]
    BY <1>5 DEF ListDue
  <2>2. PICK r : r = [job EXCEPT !.pc = "next", !.due = due]
    OBVIOUS
  <2>3. JobRecord(r) /\ job.pc \notin AtDataset
    BY <1>1, <1>5, <2>1, <2>2 DEF ListDue, JobRecord, AtDataset
  <2>. QED  BY <1>1, <1>5, <2>1, <2>2, <2>3, ElsewhereInv DEF ListDue
<1>6. CASE JobEnds(j)
  <2>1. job.pc \notin AtDataset
    BY <1>6 DEF JobEnds, AtDataset
  <2>. QED  BY <1>1, <1>6, <2>1, JobIdleTypes, ElsewhereInv DEF JobEnds
<1>. QED  BY <1>2, <1>3, <1>4, <1>5, <1>6

LEMMA NextDatasetInv ==
  ASSUME StoreInv, NEW j \in Cadence, NextDataset(j)
  PROVE  StoreInv'
<1>. DEFINE job == cronJob[j]
<1>1. JobRecord(job) /\ enabled \subseteq Dataset
  BY DEF StoreInv, StoreTypes, JobTypes
<1>2. PICK d \in job.due :
        \/ cronJob' = [cronJob EXCEPT ![j] =
             [job EXCEPT !.pc = "load", !.due = job.due \ {d}, !.code = d, !.since = SyncSince(j, d)]]
        \/ cronJob' = [cronJob EXCEPT ![j].due = @ \ {d}]
  BY DEF NextDataset
<1>3. job.pc = "next" /\ job.pc \notin AtDataset
      /\ UNCHANGED <<enabled, observed, statistics, availability, statsFailures>>
  BY DEF NextDataset, AtDataset
<1>4. CASE cronJob' = [cronJob EXCEPT ![j] =
             [job EXCEPT !.pc = "load", !.due = job.due \ {d}, !.code = d, !.since = SyncSince(j, d)]]
  <2>1. PICK r : r = [job EXCEPT !.pc = "load", !.due = job.due \ {d}, !.code = d,
                                 !.since = SyncSince(j, d)]
    OBVIOUS
  <2>2. JobRecord(r)
    BY <1>1, <1>2, <2>1 DEF JobRecord, AtDataset
  <2>3. cronJob' = [cronJob EXCEPT ![j] = r]
    BY <1>4, <2>1
  <2>. QED  BY <1>1, <1>3, <2>2, <2>3, ElsewhereInv
<1>5. CASE cronJob' = [cronJob EXCEPT ![j].due = @ \ {d}]
  <2>1. PICK r : r = [job EXCEPT !.due = job.due \ {d}]
    OBVIOUS
  <2>2. JobRecord(r)
    BY <1>1, <2>1 DEF JobRecord
  <2>3. cronJob' = [cronJob EXCEPT ![j] = r]
    BY <1>5, <2>1
  <2>. QED  BY <1>1, <1>3, <2>2, <2>3, ElsewhereInv
<1>. QED  BY <1>2, <1>4, <1>5

LEMMA LoadBatchInv ==
  ASSUME StoreInv, NEW j \in Cadence, LoadBatch(j)
  PROVE  StoreInv'
<1>. DEFINE code == cronJob[j].code
            since == cronJob[j].since
<1>1. /\ cronJob[j].pc = "load" /\ code \in Dataset
      /\ UNCHANGED <<enabled, statistics, availability, cronJob, statsFailures>>
  BY DEF LoadBatch, StoreInv, StoreTypes, JobTypes, JobRecord, AtDataset
<1>2. PICK file \in [{y \in ObservedYear : y >= since} -> -1..MaxRegions] :
        observed' = [observed EXCEPT ![code] =
          [y \in ObservedYear |->
             IF y >= since /\ file[y] >= 0 THEN file[y] ELSE observed[code][y]]]
  BY DEF LoadBatch
<1>3. ASSUME NEW y \in ObservedYear, y >= since PROVE file[y] \in Int
  BY <1>2, <1>3
<1>4. [y \in ObservedYear |->
             IF y >= since /\ file[y] >= 0 THEN file[y] ELSE observed[code][y]]
        \in [ObservedYear -> Int]
  BY <1>1, <1>3 DEF StoreInv, StoreTypes, ByYear
<1>5. StoreTypes'
  <2>1. observed' \in ByYear
    BY <1>1, <1>2, <1>4 DEF StoreInv, StoreTypes, ByYear
  <2>. QED  BY <1>1, <2>1 DEF StoreInv, StoreTypes, JobTypes
<1>6. ASSUME NEW d \in Dataset, d # code PROVE observed'[d] = observed[d]
  BY <1>2, <1>6 DEF StoreInv, StoreTypes, ByYear
<1>7. ASSUME NEW y \in ObservedYear, ~(y >= since) PROVE observed'[code][y] = observed[code][y]
  BY <1>1, <1>2, <1>7 DEF StoreInv, StoreTypes, ByYear
<1>8. WillCount(code) /\ \A y \in ObservedYear : y >= since => WillCover(code, y)
  BY <1>1 DEF WillCount, WillCover
<1>9. ASSUME statsFailures = 0, NEW d \in Dataset
      PROVE  /\ ~WillCount(d)' => statistics'[d] = observed'[d]
             /\ \A y \in ObservedYear : ~WillCover(d, y)' => availability'[d][y] = observed'[d][y]
  <2>1. (WillCount(d)' <=> WillCount(d)) /\ \A y \in ObservedYear : WillCover(d, y)' <=> WillCover(d, y)
    BY <1>1 DEF WillCount, WillCover
  <2>. QED  BY <1>1, <1>6, <1>7, <1>8, <1>9, <2>1 DEF StoreInv, DerivedSoFar
<1>. QED  BY <1>1, <1>5, <1>9 DEF StoreInv, DerivedSoFar

LEMMA FinishSyncInv ==
  ASSUME StoreInv, NEW j \in Cadence, FinishSync(j) \/ RecomputeStats(j)
  PROVE  StoreInv'
<1>. DEFINE code == cronJob[j].code
<1>1. /\ cronJob[j].pc \in {"load", "stats"} /\ code \in Dataset /\ JobTypes(j)
      /\ UNCHANGED <<enabled, observed, availability, statsFailures>>
  BY DEF FinishSync, RecomputeStats, StoreInv, StoreTypes, JobTypes, JobRecord, AtDataset
<1>2. PICK pc \in {"stats", "availability"} : cronJob' = [cronJob EXCEPT ![j] = [@ EXCEPT !.pc = pc]]
  BY DEF FinishSync, RecomputeStats
<1>3. \/ UNCHANGED statistics /\ pc = "stats"
      \/ statistics' = [statistics EXCEPT ![code] = observed[code]]
  <2>1. CASE FinishSync(j)
    BY <1>1, <1>2, <2>1 DEF FinishSync, StoreInv, StoreTypes, JobTypes, JobRecord
  <2>2. CASE RecomputeStats(j)
    BY <2>2 DEF RecomputeStats
  <2>. QED  BY <2>1, <2>2
<1>4. /\ cronJob'[j] = [cronJob[j] EXCEPT !.pc = pc]
      /\ \A k \in Cadence \ {j} : cronJob'[k] = cronJob[k]
      /\ cronJob' = [k \in Cadence |-> cronJob'[k]]
  BY <1>2 DEF StoreInv, StoreTypes
<1>5. /\ cronJob'[j].pc = pc /\ cronJob'[j].code = code /\ cronJob'[j].since = cronJob[j].since
      /\ JobTypes(j)'
  BY <1>1, <1>4 DEF JobTypes, JobRecord, AtDataset
<1>6. StoreTypes'
  <2>1. statistics' \in ByYear
    BY <1>1, <1>3 DEF StoreInv, StoreTypes, ByYear
  <2>2. \A k \in Cadence : JobTypes(k)'
    BY <1>4, <1>5 DEF StoreInv, StoreTypes, JobTypes
  <2>. QED  BY <1>1, <1>4, <2>1, <2>2 DEF StoreInv, StoreTypes
<1>7. \A d \in Dataset, y \in ObservedYear : WillCover(d, y)' <=> WillCover(d, y)
  BY <1>4, <1>5 DEF WillCover
<1>8. ASSUME NEW d \in Dataset, statsFailures = 0, ~WillCount(d)' PROVE statistics'[d] = observed'[d]
  <2>1. CASE d = code /\ statistics' = [statistics EXCEPT ![code] = observed[code]]
    BY <1>1, <2>1 DEF StoreInv, StoreTypes, ByYear
  <2>2. CASE d = code /\ pc = "stats"
    BY <1>5, <1>8, <2>2 DEF WillCount
  <2>3. CASE d # code
    <3>1. ~WillCount(d)
      BY <1>4, <1>8, <2>3 DEF WillCount
    <3>. QED  BY <1>1, <1>3, <1>8, <2>3, <3>1 DEF StoreInv, StoreTypes, ByYear, DerivedSoFar
  <2>. QED  BY <1>3, <2>1, <2>2, <2>3
<1>. QED  BY <1>1, <1>6, <1>7, <1>8 DEF StoreInv, DerivedSoFar

LEMMA RecomputeAvailabilityInv ==
  ASSUME StoreInv, NEW j \in Cadence, RecomputeAvailability(j)
  PROVE  StoreInv'
<1>. DEFINE code == cronJob[j].code
            since == cronJob[j].since
<1>1. /\ cronJob[j].pc = "availability" /\ code \in Dataset /\ JobTypes(j)
      /\ UNCHANGED <<enabled, observed, statistics, statsFailures>>
  BY DEF RecomputeAvailability, StoreInv, StoreTypes, JobTypes, JobRecord, AtDataset
<1>2. availability' = [availability EXCEPT ![code] =
        [y \in ObservedYear |-> IF y >= since THEN observed[code][y] ELSE availability[code][y]]]
  BY DEF RecomputeAvailability, Rewritten
<1>3. cronJob' = [cronJob EXCEPT ![j] =
        [cronJob[j] EXCEPT !.pc = "next", !.code = NoCodes, !.since = 0]]
  BY DEF RecomputeAvailability
<1>4. /\ cronJob'[j] = [cronJob[j] EXCEPT !.pc = "next", !.code = NoCodes, !.since = 0]
      /\ \A k \in Cadence \ {j} : cronJob'[k] = cronJob[k]
      /\ cronJob' = [k \in Cadence |-> cronJob'[k]]
  BY <1>3 DEF StoreInv, StoreTypes
<1>5. cronJob'[j].code = NoCodes /\ JobTypes(j)'
  BY <1>1, <1>4 DEF JobTypes, JobRecord, AtDataset
<1>6. /\ \A d \in Dataset \ {code} : availability'[d] = availability[d]
      /\ \A y \in ObservedYear :
           availability'[code][y] = IF y >= since THEN observed[code][y] ELSE availability[code][y]
  BY <1>1, <1>2 DEF StoreInv, StoreTypes, ByYear
<1>7. StoreTypes'
  <2>1. availability' \in ByYear
    BY <1>1, <1>2 DEF StoreInv, StoreTypes, ByYear
  <2>2. \A k \in Cadence : JobTypes(k)'
    BY <1>4, <1>5 DEF StoreInv, StoreTypes, JobTypes
  <2>. QED  BY <1>1, <1>4, <2>1, <2>2 DEF StoreInv, StoreTypes
<1>8. ASSUME NEW d \in Dataset PROVE WillCount(d) => WillCount(d)'
  BY <1>1, <1>4, <1>8 DEF WillCount
<1>9. ASSUME NEW d \in Dataset, NEW y \in ObservedYear, statsFailures = 0, ~WillCover(d, y)'
      PROVE  availability'[d][y] = observed'[d][y]
  <2>1. CASE d = code /\ y >= since
    BY <1>1, <1>6, <2>1
  <2>2. CASE d # code \/ ~(y >= since)
    <3>1. ~WillCover(d, y)
      BY <1>4, <1>9, <2>2 DEF WillCover
    <3>. QED  BY <1>1, <1>6, <1>9, <2>2, <3>1 DEF StoreInv, DerivedSoFar
  <2>. QED  BY <2>1, <2>2
<1>. QED  BY <1>1, <1>7, <1>8, <1>9 DEF StoreInv, DerivedSoFar

\* After a failure nothing is claimed.
LEMMA StatsFailureInv ==
  ASSUME StoreInv, NEW j \in Cadence, StatsFailure(j)
  PROVE  StoreInv'
<1>1. PICK r \in After(j) \union {JobIdle} : cronJob' = [cronJob EXCEPT ![j] = r]
  BY DEF StatsFailure
<1>2. statsFailures' = statsFailures + 1 /\ UNCHANGED <<enabled, observed, statistics, availability>>
  BY DEF StatsFailure
<1>3. JobTypes(j)
  BY DEF StoreInv, StoreTypes
<1>4. /\ cronJob'[j] = r /\ \A k \in Cadence \ {j} : cronJob'[k] = cronJob[k]
      /\ cronJob' = [k \in Cadence |-> cronJob'[k]]
  BY <1>1 DEF StoreInv, StoreTypes
<1>5. \/ r = JobIdle
      \/ r = [cronJob[j] EXCEPT !.pc = "availability"] /\ cronJob[j].pc = "stats"
      \/ r = [cronJob[j] EXCEPT !.pc = "next", !.code = NoCodes, !.since = 0]
  BY <1>1 DEF After
<1>6. JobTypes(j)'
  <2>1. CASE r = [cronJob[j] EXCEPT !.pc = "availability"] /\ cronJob[j].pc = "stats"
    BY <1>3, <1>4, <2>1 DEF JobTypes, JobRecord, AtDataset
  <2>2. CASE r = [cronJob[j] EXCEPT !.pc = "next", !.code = NoCodes, !.since = 0]
    <3>. DEFINE was == cronJob[j]
    <3>1. /\ was = [pc |-> was.pc, file |-> was.file, seeds |-> was.seeds, due |-> was.due,
                    code |-> was.code, since |-> was.since]
          /\ was.seeds \subseteq Dataset /\ was.due \subseteq Dataset
      BY <1>3 DEF JobTypes, JobRecord
    <3>. HIDE DEF was
    <3>2. /\ r.pc = "next" /\ r.code = NoCodes
          /\ r.seeds \subseteq Dataset /\ r.due \subseteq Dataset
          /\ r = [pc |-> r.pc, file |-> r.file, seeds |-> r.seeds, due |-> r.due,
                  code |-> r.code, since |-> r.since]
      <4>1. r = [was EXCEPT !.pc = "next", !.code = NoCodes, !.since = 0]
        BY <2>2 DEF was
      <4>. QED  BY <3>1, <4>1
    <3>3. JobRecord(r)
      BY <3>2 DEF JobRecord, AtDataset
    <3>. QED  BY <1>4, <3>3 DEF JobTypes
  <2>. QED  BY <1>4, <1>5, <2>1, <2>2, JobIdleTypes DEF JobTypes
<1>7. StoreTypes'
  BY <1>2, <1>4, <1>6 DEF StoreInv, StoreTypes, JobTypes
<1>8. statsFailures' # 0
  BY <1>2 DEF StoreInv, StoreTypes
<1>. QED  BY <1>7, <1>8 DEF StoreInv, DerivedSoFar

LEMMA StoreNextInv == StoreInv /\ [StoreNext]_storeVars => StoreInv'
<1>. SUFFICES ASSUME StoreInv, [StoreNext]_storeVars PROVE StoreInv'
  OBVIOUS
<1>1. CASE UNCHANGED storeVars
  BY <1>1 DEF storeVars, StoreInv, StoreTypes, JobTypes, DerivedSoFar, WillCount, WillCover
<1>. QED
  BY <1>1, SeedInv, NextDatasetInv, LoadBatchInv, FinishSyncInv, RecomputeAvailabilityInv,
     StatsFailureInv DEF StoreNext

\* As long as nothing failed, what is derived from the observations of a dataset is
\* theirs whenever no job is at it, for any datasets, years and values, and however
\* the daily and the weekly job interleave.
THEOREM DerivedStaysCurrent == StoreSpec => []DerivedIsCurrent
<1>1. StoreInv => DerivedIsCurrent
  <2>. SUFFICES ASSUME StoreInv, statsFailures = 0, NEW d \in Dataset, ~Unsettled(d)
                PROVE  statistics[d] = observed[d] /\ availability[d] = observed[d]
    BY DEF DerivedIsCurrent
  <2>1. ~WillCount(d) /\ \A y \in ObservedYear : ~WillCover(d, y)
    BY DEF Unsettled, WillCount, WillCover
  <2>2. \A y \in ObservedYear : availability[d][y] = observed[d][y]
    BY <2>1 DEF StoreInv, DerivedSoFar
  <2>3. availability[d] \in [ObservedYear -> Int] /\ observed[d] \in [ObservedYear -> Int]
    BY DEF StoreInv, StoreTypes, ByYear
  <2>4. availability[d] = observed[d]
    BY <2>2, <2>3
  <2>. QED  BY <2>1, <2>4 DEF StoreInv, DerivedSoFar
<1>. QED  BY <1>1, StoreInitInv, StoreNextInv, PTL DEF StoreSpec

----------------------------------------------------------------------------
(* The mirror of EU legislation.                                           *)

(* The inductive invariant: the works of the month that CELLAR had when    *)
(* its export began and that are ahead of the export's offset in the list, *)
(* as it is by now, are in the file; a file that agrees with its manifest  *)
(* has them all.                                                           *)

ArtifactRecord(a) ==
  /\ a = [file |-> a.file, readable |-> a.readable, manifest |-> a.manifest,
          matches |-> a.matches, asOf |-> a.asOf]
  /\ a.asOf \in [Work -> 0..MaxVersion]

RunRecord(r) ==
  /\ r = [pc |-> r.pc, months |-> r.months, recent |-> r.recent, known |-> r.known,
          offset |-> r.offset, loaded |-> r.loaded]
  /\ r.months \subseteq Month /\ r.offset \in Nat
  /\ r.pc = "idle" => r.months = {}
  /\ r.pc \in {"export", "load"} => r.months # {}

MirrorTypes ==
  /\ currentMonth \in Month
  /\ available \in [Month -> [Work -> 0..MaxVersion]]
  /\ artifact = [m \in Month |-> artifact[m]] /\ \A m \in Month : ArtifactRecord(artifact[m])
  /\ RunRecord(mirrorRun)

\* The works before w in the list of month m.
Ahead(m, w) == {v \in WorkList(m) : v < w}

HasWork(m, w) ==
  artifact[m].asOf[w] > 0 => Mirrored(artifact[m].file, m, w, artifact[m].asOf[w])

NothingWithdrawn == \A m \in Month, w \in Work : artifact[m].asOf[w] <= available[m][w]

KeptIsWhole == \A m \in Month : artifact[m].matches => \A w \in Work : HasWork(m, w)

ExportedSoFar ==
  mirrorRun.pc = "export" =>
    \A w \in Work : Cardinality(Ahead(ThisMonth, w)) < mirrorRun.offset => HasWork(ThisMonth, w)

LoadedSoFar ==
  mirrorRun.pc = "load" =>
    /\ mirrorRun.loaded \subseteq graph
    /\ artifact[ThisMonth].readable => artifact[ThisMonth].matches

MirrorInv ==
  MirrorTypes /\ NothingWithdrawn /\ KeptIsWhole /\ ExportedSoFar /\ LoadedSoFar

----------------------------------------------------------------------------
(* Positions in the list.                                                  *)

LEMMA AheadIsFinite ==
  ASSUME NEW m, NEW w
  PROVE  IsFiniteSet(Ahead(m, w)) /\ Cardinality(Ahead(m, w)) \in Nat
<1>1. IsFiniteSet(Work) /\ Ahead(m, w) \subseteq Work
  BY FS_Interval, MirrorAssumption DEF Work, Ahead, WorkList
<1>. QED  BY <1>1, FS_Subset, FS_CardinalityType

\* Of two works of the list, the later one is at the later position.
LEMMA PositionsDiffer ==
  ASSUME NEW m, NEW v \in WorkList(m), NEW w \in WorkList(m), v < w
  PROVE  Cardinality(Ahead(m, v)) < Cardinality(Ahead(m, w))
<1>1. v \in Int /\ w \in Int /\ WorkList(m) \subseteq Int
  BY DEF WorkList, Work
<1>2. Ahead(m, v) \subseteq Ahead(m, w) /\ v \in Ahead(m, w) /\ v \notin Ahead(m, v)
  BY <1>1 DEF Ahead
<1>3. Cardinality(Ahead(m, v) \union {v}) = Cardinality(Ahead(m, v)) + 1
  BY <1>2, AheadIsFinite, FS_AddElement
<1>4. Cardinality(Ahead(m, v) \union {v}) <= Cardinality(Ahead(m, w))
  BY <1>2, AheadIsFinite, FS_Subset
<1>. QED  BY <1>3, <1>4, AheadIsFinite

\* If no work is at a position, all are before it.
LEMMA ListEnds ==
  ASSUME NEW m, NEW n \in Nat, Listed(m, n) = {}, NEW w \in WorkList(m)
  PROVE  Cardinality(Ahead(m, w)) < n
<1>. DEFINE High == {v \in WorkList(m) : ~(Cardinality(Ahead(m, v)) < n)}
<1>1. WorkList(m) \subseteq 1..MaxWork /\ WorkList(m) \subseteq Nat
  BY MirrorAssumption DEF WorkList, Work
<1>2. SUFFICES ASSUME w \in High PROVE FALSE
  OBVIOUS
<1>3. High \subseteq Nat /\ High # {}
  BY <1>1, <1>2
<1>. HIDE DEF High
<1>4. PICK x \in High : \A y \in High : x <= y
  BY <1>3, LeastOf
<1>5. x \in WorkList(m) /\ ~(Cardinality(Ahead(m, x)) < n)
  BY <1>4 DEF High
<1>6. Cardinality(Ahead(m, x)) > n
  BY <1>5, AheadIsFinite DEF Listed, Ahead
<1>7. Ahead(m, x) # {}
  BY <1>6, FS_EmptySet
<1>8. PICK p \in Ahead(m, x) : \A y \in Ahead(m, x) : y <= p
  <2>1. Ahead(m, x) \subseteq 1..MaxWork
    BY <1>1 DEF Ahead
  <2>. QED  BY <1>7, <2>1, GreatestOf, MirrorAssumption
<1>9. p \in WorkList(m) /\ p < x /\ p \notin High
  BY <1>1, <1>4, <1>5, <1>8 DEF Ahead
<1>10. Cardinality(Ahead(m, p)) < n
  BY <1>9 DEF High
<1>11. Ahead(m, x) = Ahead(m, p) \union {p} /\ p \notin Ahead(m, p)
  BY <1>1, <1>5, <1>8, <1>9 DEF Ahead
<1>12. Cardinality(Ahead(m, x)) = Cardinality(Ahead(m, p)) + 1
  BY <1>11, AheadIsFinite, FS_AddElement
<1>. QED  BY <1>6, <1>10, <1>12, AheadIsFinite

LEMMA ThisMonthIs ==
  ASSUME mirrorRun.months \subseteq Month, mirrorRun.months # {}
  PROVE  ThisMonth \in mirrorRun.months
<1>1. mirrorRun.months \subseteq Nat
  BY MirrorAssumption DEF Month
<1>2. \E m \in mirrorRun.months : \A n \in mirrorRun.months : m <= n
  BY <1>1, LeastOf
<1>. QED  BY <1>2 DEF ThisMonth

----------------------------------------------------------------------------

LEMMA MirrorInitInv == MirrorInit => MirrorInv
<1>. SUFFICES ASSUME MirrorInit PROVE MirrorInv
  OBVIOUS
<1>1. available \in [Month -> [Work -> 0..MaxVersion]]
  BY MirrorAssumption DEF MirrorInit
<1>2. ArtifactRecord(NoFile) /\ NoFile.matches = FALSE /\ \A w \in Work : NoFile.asOf[w] = 0
  BY MirrorAssumption DEF ArtifactRecord, NoFile
<1>3. RunRecord(mirrorRun) /\ mirrorRun.pc = "idle"
  BY DEF MirrorInit, RunIdle, RunRecord
<1>4. \A m \in Month : artifact[m] = NoFile
  BY DEF MirrorInit
<1>5. MirrorTypes
  <2>1. currentMonth \in Month
    BY MirrorAssumption DEF MirrorInit, Month
  <2>2. artifact = [m \in Month |-> artifact[m]]
    BY DEF MirrorInit
  <2>. QED  BY <1>1, <1>2, <1>3, <1>4, <2>1, <2>2 DEF MirrorTypes
<1>6. NothingWithdrawn
  BY <1>1, <1>2, <1>4 DEF NothingWithdrawn
<1>. QED
  BY <1>2, <1>3, <1>4, <1>5, <1>6 DEF MirrorInv, KeptIsWhole, ExportedSoFar, LoadedSoFar

\* The list of a month grows only, so its works move to later positions.
LEMMA PublishInv == MirrorInv /\ (Publish \/ MonthEnds) => MirrorInv'
<1>. SUFFICES ASSUME MirrorInv, Publish \/ MonthEnds PROVE MirrorInv'
  OBVIOUS
<1>1. UNCHANGED <<artifact, graph, mirrorRun>>
  BY DEF Publish, MonthEnds
<1>2. /\ available' \in [Month -> [Work -> 0..MaxVersion]]
      /\ \A m \in Month, w \in Work : available[m][w] <= available'[m][w]
  <2>1. CASE MonthEnds
    BY <2>1 DEF MonthEnds, MirrorInv, MirrorTypes
  <2>2. CASE Publish
    <3>1. PICK m \in 1..currentMonth, w \in Work :
            /\ available[m][w] < MaxVersion
            /\ available' = [available EXCEPT ![m][w] = available[m][w] + 1]
      BY <2>2 DEF Publish
    <3>2. m \in Month
      BY MirrorAssumption DEF MirrorInv, MirrorTypes, Month
    <3>. QED  BY <3>1, <3>2, MirrorAssumption DEF MirrorInv, MirrorTypes
  <2>. QED  BY <2>1, <2>2
<1>3. MirrorTypes' /\ ThisMonth' = ThisMonth
  <2>1. currentMonth' \in Month
    BY MirrorAssumption DEF Publish, MonthEnds, MirrorInv, MirrorTypes, Month
  <2>. QED  BY <1>1, <1>2, <2>1 DEF MirrorInv, MirrorTypes, ThisMonth
<1>4. NothingWithdrawn'
  BY <1>1, <1>2 DEF MirrorInv, MirrorTypes, NothingWithdrawn, ArtifactRecord
<1>5. KeptIsWhole' /\ LoadedSoFar'
  BY <1>1, <1>3 DEF MirrorInv, KeptIsWhole, LoadedSoFar, HasWork
<1>6. ExportedSoFar'
  <2>. SUFFICES ASSUME mirrorRun.pc = "export", NEW w \in Work,
                       Cardinality(Ahead(ThisMonth, w))' < mirrorRun.offset
                PROVE  HasWork(ThisMonth, w)
    BY <1>1, <1>3 DEF ExportedSoFar, HasWork
  <2>. DEFINE m == ThisMonth
  <2>1. m \in Month
    BY ThisMonthIs DEF MirrorInv, MirrorTypes, RunRecord
  <2>2. Ahead(m, w) \subseteq Ahead(m, w)'
    BY <1>2, <1>3, <2>1 DEF MirrorInv, MirrorTypes, Ahead, WorkList
  <2>3. IsFiniteSet(Ahead(m, w)') /\ Cardinality(Ahead(m, w)') \in Nat
    <3>1. IsFiniteSet(Work) /\ Ahead(m, w)' \subseteq Work
      BY FS_Interval, MirrorAssumption DEF Work, Ahead, WorkList
    <3>. QED  BY <3>1, FS_Subset, FS_CardinalityType
  <2>4. Cardinality(Ahead(m, w)) <= Cardinality(Ahead(m, w)')
    BY <2>2, <2>3, FS_Subset
  <2>. QED
    BY <2>3, <2>4, AheadIsFinite DEF MirrorInv, ExportedSoFar, MirrorTypes, RunRecord
<1>. QED  BY <1>3, <1>4, <1>5, <1>6 DEF MirrorInv

\* A file that is damaged agrees with no manifest.
LEMMA DamageFileInv == MirrorInv /\ DamageFile => MirrorInv'
<1>. SUFFICES ASSUME MirrorInv, DamageFile PROVE MirrorInv'
  OBVIOUS
<1>1. UNCHANGED <<currentMonth, available, graph, mirrorRun>> /\ ThisMonth' = ThisMonth
  BY DEF DamageFile, ThisMonth
<1>2. PICK m \in Month :
        artifact' = [artifact EXCEPT ![m].readable = FALSE, ![m].matches = FALSE]
  BY DEF DamageFile
<1>3. /\ artifact' = [n \in Month |-> artifact'[n]]
      /\ \A n \in Month \ {m} : artifact'[n] = artifact[n]
  BY <1>2 DEF MirrorInv, MirrorTypes
<1>4. /\ artifact'[m].file = artifact[m].file /\ artifact'[m].asOf = artifact[m].asOf
      /\ artifact'[m].readable = FALSE /\ artifact'[m].matches = FALSE
      /\ ArtifactRecord(artifact'[m])
  <2>1. artifact'[m] = [artifact[m] EXCEPT !.readable = FALSE, !.matches = FALSE]
    BY <1>2 DEF MirrorInv, MirrorTypes
  <2>. QED  BY <2>1 DEF MirrorInv, MirrorTypes, ArtifactRecord
<1>5. MirrorTypes'
  BY <1>1, <1>3, <1>4 DEF MirrorInv, MirrorTypes
<1>6. \A n \in Month, w \in Work : HasWork(n, w)' <=> HasWork(n, w)
  BY <1>3, <1>4 DEF HasWork
<1>7. NothingWithdrawn'
  BY <1>1, <1>3, <1>4 DEF MirrorInv, NothingWithdrawn
<1>8. KeptIsWhole'
  BY <1>3, <1>4, <1>6 DEF MirrorInv, KeptIsWhole
<1>9. \A n, w : Ahead(n, w)' = Ahead(n, w)
  BY <1>1 DEF Ahead, WorkList
<1>10. mirrorRun.months # {} => ThisMonth \in Month
  BY ThisMonthIs DEF MirrorInv, MirrorTypes, RunRecord
<1>11. ExportedSoFar'
  BY <1>1, <1>6, <1>9, <1>10 DEF MirrorInv, MirrorTypes, RunRecord, ExportedSoFar
<1>12. LoadedSoFar'
  BY <1>1, <1>3, <1>4, <1>10 DEF MirrorInv, MirrorTypes, RunRecord, LoadedSoFar
<1>. QED  BY <1>5, <1>7, <1>8, <1>11, <1>12 DEF MirrorInv

\* A run that begins, is over, or has died, is at no month.
LEMMA NoMonthInHand ==
  ASSUME MirrorInv, UNCHANGED <<currentMonth, available, artifact, graph>>,
         RunRecord(mirrorRun'), mirrorRun'.pc \in {"idle", "month"}
  PROVE  MirrorInv'
  BY DEF MirrorInv, MirrorTypes, NothingWithdrawn, KeptIsWhole, HasWork, ExportedSoFar, LoadedSoFar

LEMMA RunIdleTypes == RunRecord(RunIdle) /\ RunIdle.pc = "idle"
  BY DEF RunRecord, RunIdle

LEMMA BetweenMonthsInv ==
  MirrorInv /\ (StartMirrorRun \/ MonthLoaded \/ MirrorRunEnds \/ MirrorRunDies) => MirrorInv'
<1>. SUFFICES ASSUME MirrorInv,
                     StartMirrorRun \/ MonthLoaded \/ MirrorRunEnds \/ MirrorRunDies
              PROVE  MirrorInv'
  OBVIOUS
<1>1. UNCHANGED <<currentMonth, available, artifact, graph>>
  BY DEF StartMirrorRun, MonthLoaded, MirrorRunEnds, MirrorRunDies
<1>2. CASE StartMirrorRun
  <2>1. PICK recent \in BOOLEAN, from \in Month, to \in 1..currentMonth :
       /\ from <= to
       /\ recent => from = currentMonth - 1 /\ to = currentMonth
       /\ mirrorRun' = [RunIdle EXCEPT !.pc = "month", !.months = from..to, !.recent = recent,
            !.known = [m \in Month |-> IF m >= from THEN available[m] ELSE NoFile.asOf]]
    BY <1>2, Zenon DEF StartMirrorRun
  <2>2. from..to \subseteq Month
    BY MirrorAssumption DEF MirrorInv, MirrorTypes, Month
  <2>3. RunRecord(mirrorRun') /\ mirrorRun'.pc = "month"
    <3>1. PICK known :
            mirrorRun' = [RunIdle EXCEPT !.pc = "month", !.months = from..to, !.recent = recent,
                                         !.known = known]
      BY <2>1
    <3>. QED  BY <2>2, <3>1 DEF RunRecord, RunIdle
  <2>. QED  BY <1>1, <2>3, NoMonthInHand
<1>3. CASE MonthLoaded
  <2>1. /\ mirrorRun'.pc = "month" /\ RunRecord(mirrorRun')
    BY <1>3 DEF MonthLoaded, MirrorInv, MirrorTypes, RunRecord
  <2>. QED  BY <1>1, <2>1, NoMonthInHand
<1>4. CASE MirrorRunEnds \/ MirrorRunDies
  BY <1>1, <1>4, RunIdleTypes, NoMonthInHand DEF MirrorRunEnds, MirrorRunDies
<1>. QED  BY <1>2, <1>3, <1>4

\* A month is taken in hand: its file is whole, or begun anew.
LEMMA NextMonthInv == MirrorInv /\ NextMonth => MirrorInv'
<1>. SUFFICES ASSUME MirrorInv, NextMonth PROVE MirrorInv'
  OBVIOUS
<1>. DEFINE m == ThisMonth
<1>1. /\ mirrorRun.pc = "month" /\ mirrorRun.months # {} /\ mirrorRun.months \subseteq Month
      /\ UNCHANGED <<currentMonth, available, graph>>
  BY DEF NextMonth, MirrorInv, MirrorTypes, RunRecord
<1>2. m \in Month
  BY <1>1, ThisMonthIs
<1>3. CASE Verified(artifact[m])
  <2>1. /\ mirrorRun' = [mirrorRun EXCEPT !.pc = "load", !.loaded = {}]
        /\ UNCHANGED artifact
    BY <1>3 DEF NextMonth
  <2>2. /\ RunRecord(mirrorRun') /\ mirrorRun'.pc = "load" /\ mirrorRun'.loaded = {}
        /\ ThisMonth' = m
    BY <1>1, <2>1 DEF MirrorInv, MirrorTypes, RunRecord, ThisMonth
  <2>3. LoadedSoFar'
    BY <1>3, <2>1, <2>2 DEF LoadedSoFar, Verified
  <2>. QED
    BY <1>1, <2>1, <2>2, <2>3
    DEF MirrorInv, MirrorTypes, NothingWithdrawn, KeptIsWhole, HasWork, ExportedSoFar
<1>4. CASE ~Verified(artifact[m])
  <2>1. /\ mirrorRun' = [mirrorRun EXCEPT !.pc = "export", !.offset = 0]
        /\ artifact' = [artifact EXCEPT ![m] =
             [NoFile EXCEPT !.manifest = artifact[m].manifest, !.asOf = available[m]]]
    BY <1>4 DEF NextMonth
  <2>2. /\ RunRecord(mirrorRun') /\ mirrorRun'.pc = "export" /\ mirrorRun'.offset = 0
    BY <1>1, <2>1 DEF MirrorInv, MirrorTypes, RunRecord
  <2>3. /\ artifact' = [n \in Month |-> artifact'[n]]
        /\ \A n \in Month \ {m} : artifact'[n] = artifact[n]
        /\ artifact'[m] = [NoFile EXCEPT !.manifest = artifact[m].manifest, !.asOf = available[m]]
    BY <1>2, <2>1 DEF MirrorInv, MirrorTypes
  <2>4. /\ artifact'[m].asOf = available[m] /\ artifact'[m].matches = FALSE
        /\ ArtifactRecord(artifact'[m])
    BY <1>2, <2>3 DEF NoFile, ArtifactRecord, MirrorInv, MirrorTypes
  <2>5. MirrorTypes'
    BY <1>1, <2>2, <2>3, <2>4 DEF MirrorInv, MirrorTypes
  <2>6. NothingWithdrawn'
    <3>1. \A w \in Work : available[m][w] <= available[m][w]
      BY <1>2, MirrorAssumption DEF MirrorInv, MirrorTypes
    <3>. QED  BY <1>1, <2>3, <2>4, <3>1 DEF MirrorInv, NothingWithdrawn
  <2>7. KeptIsWhole'
    BY <2>3, <2>4 DEF MirrorInv, KeptIsWhole, HasWork
  <2>8. \A n, w : Cardinality(Ahead(n, w)') \in Nat
    <3>1. \A n, w : IsFiniteSet(Ahead(n, w)) /\ Ahead(n, w)' = Ahead(n, w)
      BY <1>1, AheadIsFinite DEF Ahead, WorkList
    <3>. QED  BY <3>1, FS_CardinalityType
  <2>9. ExportedSoFar'
    BY <2>2, <2>8 DEF ExportedSoFar
  <2>. QED  BY <2>2, <2>5, <2>6, <2>7, <2>9 DEF MirrorInv, LoadedSoFar
<1>. QED  BY <1>3, <1>4

\* A month that is in hand stays so: only its artifact may change.
LEMMA InHand ==
  ASSUME MirrorInv, mirrorRun.pc \in {"export", "load"},
         UNCHANGED <<currentMonth, available>>, mirrorRun'.months = mirrorRun.months
  PROVE  /\ ThisMonth \in Month /\ ThisMonth' = ThisMonth
         /\ \A n, w : Ahead(n, w)' = Ahead(n, w)
<1>1. ThisMonth \in Month
  BY ThisMonthIs DEF MirrorInv, MirrorTypes, RunRecord
<1>. QED  BY <1>1 DEF ThisMonth, Ahead, WorkList

\* The work at the offset is written, at its version or a later one.
LEMMA ExportPageInv == MirrorInv /\ ExportPage => MirrorInv'
<1>. SUFFICES ASSUME MirrorInv, ExportPage PROVE MirrorInv'
  OBVIOUS
<1>0. mirrorRun.pc = "export" /\ mirrorRun.offset \in Nat /\ ThisMonth \in Month
  BY ThisMonthIs DEF ExportPage, MirrorInv, MirrorTypes, RunRecord
<1>. PICK m \in Month, n \in Nat : m = ThisMonth /\ n = mirrorRun.offset
  BY <1>0
<1>1. /\ mirrorRun.pc = "export" /\ UNCHANGED <<currentMonth, available, graph>>
      /\ mirrorRun' = [mirrorRun EXCEPT !.offset = n + 1]
  BY DEF ExportPage
<1>2. /\ RunRecord(mirrorRun') /\ mirrorRun'.pc = "export" /\ mirrorRun'.offset = n + 1
      /\ mirrorRun'.months = mirrorRun.months
  BY <1>1 DEF MirrorInv, MirrorTypes, RunRecord
<1>3. ThisMonth' = m /\ \A k, w : Ahead(k, w)' = Ahead(k, w)
  BY <1>1, <1>2, InHand
<1>4. PICK w \in Listed(m, n) :
        artifact' = [artifact EXCEPT ![m].file = artifact[m].file \union {<<m, w, available[m][w]>>}]
  BY DEF ExportPage
<1>5. /\ artifact' = [k \in Month |-> artifact'[k]]
      /\ \A k \in Month \ {m} : artifact'[k] = artifact[k]
      /\ artifact'[m] = [artifact[m] EXCEPT !.file = artifact[m].file \union {<<m, w, available[m][w]>>}]
  BY <1>3, <1>4 DEF MirrorInv, MirrorTypes
<1>6. /\ artifact'[m].file = artifact[m].file \union {<<m, w, available[m][w]>>}
      /\ artifact'[m].asOf = artifact[m].asOf /\ artifact'[m].matches = artifact[m].matches
      /\ ArtifactRecord(artifact'[m])
  BY <1>3, <1>5 DEF MirrorInv, MirrorTypes, ArtifactRecord
<1>7. MirrorTypes'
  BY <1>1, <1>2, <1>5, <1>6 DEF MirrorInv, MirrorTypes
<1>8. NothingWithdrawn'
  BY <1>1, <1>5, <1>6 DEF MirrorInv, NothingWithdrawn
<1>9. \A k \in Month, v \in Work : HasWork(k, v) => HasWork(k, v)'
  BY <1>5, <1>6 DEF HasWork, Mirrored
<1>10. KeptIsWhole'
  BY <1>5, <1>6, <1>9 DEF MirrorInv, KeptIsWhole
<1>11. HasWork(m, w)'
  <2>1. w \in Work /\ available[m][w] \in 0..MaxVersion /\ artifact[m].asOf[w] \in 0..MaxVersion
    BY <1>3 DEF Listed, WorkList, MirrorInv, MirrorTypes, ArtifactRecord
  <2>2. available[m][w] \in artifact[m].asOf[w]..MaxVersion
    BY <1>3, <2>1, MirrorAssumption DEF MirrorInv, NothingWithdrawn
  <2>3. <<m, w, available[m][w]>> \in artifact'[m].file
    BY <1>6
  <2>. QED  BY <1>6, <2>2, <2>3 DEF HasWork, Mirrored
<1>12. ASSUME NEW v \in Work, Cardinality(Ahead(m, v)) < n + 1 PROVE HasWork(m, v)'
  <2>1. CASE Cardinality(Ahead(m, v)) < n
    BY <1>1, <1>3, <1>9, <2>1 DEF MirrorInv, ExportedSoFar
  <2>2. CASE ~(Cardinality(Ahead(m, v)) < n) /\ artifact[m].asOf[v] > 0
    <3>1. Cardinality(Ahead(m, v)) = n /\ Cardinality(Ahead(m, w)) = n /\ w \in WorkList(m)
      BY <1>1, <1>4, <1>12, <2>2, AheadIsFinite, SMTT(40) DEF Listed, Ahead
    <3>2. v \in WorkList(m)
      BY <1>3, <2>2, MirrorAssumption DEF MirrorInv, MirrorTypes, NothingWithdrawn, ArtifactRecord, WorkList
    <3>3. v \in Int /\ w \in Int
      BY <3>1, <3>2 DEF WorkList, Work
    <3>4. ~(v < w) /\ ~(w < v)
      BY <3>1, <3>2, PositionsDiffer, AheadIsFinite
    <3>. QED  BY <1>11, <3>3, <3>4
  <2>3. CASE ~(artifact[m].asOf[v] > 0)
    BY <1>6, <2>3 DEF HasWork
  <2>. QED  BY <2>1, <2>2, <2>3
<1>13. ExportedSoFar'
  BY <1>2, <1>3, <1>12 DEF ExportedSoFar
<1>. QED  BY <1>2, <1>7, <1>8, <1>10, <1>13 DEF MirrorInv, LoadedSoFar

\* The list has ended, so the file is whole.
LEMMA CloseArtifactInv == MirrorInv /\ CloseArtifact => MirrorInv'
<1>. SUFFICES ASSUME MirrorInv, CloseArtifact PROVE MirrorInv'
  OBVIOUS
<1>0. mirrorRun.pc = "export" /\ mirrorRun.offset \in Nat /\ ThisMonth \in Month
  BY ThisMonthIs DEF CloseArtifact, MirrorInv, MirrorTypes, RunRecord
<1>. PICK m \in Month, n \in Nat : m = ThisMonth /\ n = mirrorRun.offset
  BY <1>0
<1>1. /\ mirrorRun.pc = "export" /\ UNCHANGED <<currentMonth, available, graph>>
      /\ mirrorRun' = [mirrorRun EXCEPT !.pc = "load", !.loaded = {}]
      /\ Listed(m, n) = {}
  BY DEF CloseArtifact
<1>2. /\ RunRecord(mirrorRun') /\ mirrorRun'.pc = "load" /\ mirrorRun'.loaded = {}
      /\ mirrorRun'.months = mirrorRun.months
  BY <1>1 DEF MirrorInv, MirrorTypes, RunRecord
<1>3. ThisMonth' = m
  BY <1>1, <1>2, InHand
<1>4. /\ artifact' = [k \in Month |-> artifact'[k]]
      /\ \A k \in Month \ {m} : artifact'[k] = artifact[k]
      /\ artifact'[m] = [artifact[m] EXCEPT !.readable = TRUE, !.manifest = TRUE, !.matches = TRUE]
  BY <1>3 DEF CloseArtifact, MirrorInv, MirrorTypes
<1>5. /\ artifact'[m].file = artifact[m].file /\ artifact'[m].asOf = artifact[m].asOf
      /\ artifact'[m].matches = TRUE /\ ArtifactRecord(artifact'[m])
  BY <1>3, <1>4 DEF MirrorInv, MirrorTypes, ArtifactRecord
<1>6. MirrorTypes'
  BY <1>1, <1>2, <1>4, <1>5 DEF MirrorInv, MirrorTypes
<1>7. NothingWithdrawn'
  BY <1>1, <1>4, <1>5 DEF MirrorInv, NothingWithdrawn
<1>8. \A k \in Month, v \in Work : HasWork(k, v)' <=> HasWork(k, v)
  BY <1>4, <1>5 DEF HasWork
<1>9. ASSUME NEW v \in Work PROVE HasWork(m, v)
  <2>1. CASE artifact[m].asOf[v] > 0
    <3>1. v \in WorkList(m)
      BY <1>3, <2>1, MirrorAssumption DEF MirrorInv, MirrorTypes, NothingWithdrawn, ArtifactRecord, WorkList
    <3>2. Cardinality(Ahead(m, v)) < n
      BY <1>1, <3>1, ListEnds
    <3>. QED  BY <1>1, <3>2 DEF MirrorInv, ExportedSoFar
  <2>. QED  BY <2>1 DEF HasWork
<1>10. KeptIsWhole'
  BY <1>3, <1>4, <1>8, <1>9 DEF MirrorInv, KeptIsWhole
<1>11. LoadedSoFar'
  BY <1>2, <1>3, <1>5 DEF LoadedSoFar
<1>. QED  BY <1>2, <1>6, <1>7, <1>10, <1>11 DEF MirrorInv, ExportedSoFar

LEMMA LoadChunkInv == MirrorInv /\ LoadChunk => MirrorInv'
<1>. SUFFICES ASSUME MirrorInv, LoadChunk PROVE MirrorInv'
  OBVIOUS
<1>1. PICK chunk : /\ graph' = graph \union chunk
                   /\ mirrorRun' = [mirrorRun EXCEPT !.loaded = mirrorRun.loaded \union chunk]
  BY DEF LoadChunk
<1>2. mirrorRun.pc = "load" /\ UNCHANGED <<currentMonth, available, artifact>>
  BY DEF LoadChunk
<1>3. /\ RunRecord(mirrorRun') /\ mirrorRun'.pc = "load" /\ mirrorRun'.months = mirrorRun.months
      /\ mirrorRun'.loaded = mirrorRun.loaded \union chunk
  BY <1>1, <1>2 DEF MirrorInv, MirrorTypes, RunRecord
<1>4. ThisMonth' = ThisMonth
  BY <1>2, <1>3, InHand
<1>5. LoadedSoFar'
  BY <1>1, <1>2, <1>3, <1>4 DEF MirrorInv, LoadedSoFar
<1>. QED
  BY <1>2, <1>3, <1>5
  DEF MirrorInv, MirrorTypes, NothingWithdrawn, KeptIsWhole, HasWork, ExportedSoFar

\* The half of a file that an export leaves agrees with no manifest, unless it is
\* whole.
LEMMA ExportFailsInv == MirrorInv /\ ExportFails => MirrorInv'
<1>. SUFFICES ASSUME MirrorInv, ExportFails PROVE MirrorInv'
  OBVIOUS
<1>. DEFINE m == ThisMonth
<1>1. /\ mirrorRun.pc = "export" /\ UNCHANGED <<currentMonth, available, graph>>
      /\ mirrorRun' = RunIdle /\ artifact' = [artifact EXCEPT ![m].readable = TRUE]
  BY DEF ExportFails
<1>2. m \in Month
  BY <1>1, ThisMonthIs DEF MirrorInv, MirrorTypes, RunRecord
<1>. HIDE DEF m
<1>3. /\ artifact' = [k \in Month |-> artifact'[k]]
      /\ \A k \in Month \ {m} : artifact'[k] = artifact[k]
      /\ artifact'[m] = [artifact[m] EXCEPT !.readable = TRUE]
  BY <1>1, <1>2 DEF MirrorInv, MirrorTypes
<1>4. /\ artifact'[m].file = artifact[m].file /\ artifact'[m].asOf = artifact[m].asOf
      /\ artifact'[m].matches = artifact[m].matches /\ ArtifactRecord(artifact'[m])
  BY <1>2, <1>3 DEF MirrorInv, MirrorTypes, ArtifactRecord
<1>5. MirrorTypes'
  BY <1>1, <1>3, <1>4, RunIdleTypes DEF MirrorInv, MirrorTypes
<1>6. NothingWithdrawn' /\ KeptIsWhole'
  BY <1>1, <1>3, <1>4 DEF MirrorInv, NothingWithdrawn, KeptIsWhole, HasWork
<1>. QED  BY <1>1, <1>5, <1>6, RunIdleTypes DEF MirrorInv, ExportedSoFar, LoadedSoFar

LEMMA MirrorNextInv == MirrorInv /\ [MirrorNext]_mirrorVars => MirrorInv'
<1>. SUFFICES ASSUME MirrorInv, [MirrorNext]_mirrorVars PROVE MirrorInv'
  OBVIOUS
<1>1. CASE UNCHANGED mirrorVars
  <2>1. UNCHANGED <<currentMonth, available, artifact, graph, mirrorRun>>
    BY <1>1 DEF mirrorVars
  <2>2. ThisMonth' = ThisMonth /\ \A n, w : Ahead(n, w)' = Ahead(n, w)
    BY <2>1 DEF ThisMonth, Ahead, WorkList
  <2>3. \A n, w : HasWork(n, w)' <=> HasWork(n, w)
    BY <2>1 DEF HasWork
  <2>4. MirrorTypes' /\ NothingWithdrawn' /\ KeptIsWhole'
    BY <2>1, <2>3 DEF MirrorInv, MirrorTypes, NothingWithdrawn, KeptIsWhole
  <2>5. ExportedSoFar' /\ LoadedSoFar'
    BY <2>1, <2>2, <2>3 DEF MirrorInv, ExportedSoFar, LoadedSoFar
  <2>. QED  BY <2>4, <2>5 DEF MirrorInv
<1>. QED
  BY <1>1, PublishInv, DamageFileInv, BetweenMonthsInv, NextMonthInv, ExportPageInv,
     CloseArtifactInv, LoadChunkInv, ExportFailsInv DEF MirrorNext

\* A month is left behind as loaded only when everything that CELLAR had of it when
\* its export began is in the graph, for any months, works and versions, whatever is
\* published while it is exported and whatever earlier runs left behind.
THEOREM LoadedMonthsAreWhole == MirrorSpec => LoadedIsWhole
<1>. DEFINE Left ==
       \A m \in mirrorRun.months \ mirrorRun'.months :
         mirrorRun'.pc # "idle" =>
           \A w \in Work : artifact[m].asOf[w] > 0 =>
             Mirrored(graph, m, w, artifact[m].asOf[w])
<1>1. MirrorInv /\ [MirrorNext]_mirrorVars => [Left]_mirrorVars
  <2>. SUFFICES ASSUME MirrorInv, MirrorNext, NEW m \in mirrorRun.months \ mirrorRun'.months,
                       mirrorRun'.pc # "idle", NEW w \in Work, artifact[m].asOf[w] > 0
                PROVE  Mirrored(graph, m, w, artifact[m].asOf[w])
    OBVIOUS
  <2>1. mirrorRun.pc # "idle"
    BY DEF MirrorInv, MirrorTypes, RunRecord
  <2>2. MonthLoaded
    <3>1. ~(Publish \/ MonthEnds \/ DamageFile)
      BY DEF Publish, MonthEnds, DamageFile
    <3>2. ~(StartMirrorRun \/ MirrorRunEnds \/ MirrorRunDies \/ ExportFails)
      <4>1. ~StartMirrorRun
        BY <2>1 DEF StartMirrorRun
      <4>2. ~(MirrorRunEnds \/ MirrorRunDies \/ ExportFails)
        BY RunIdleTypes DEF MirrorRunEnds, MirrorRunDies, ExportFails
      <4>. QED  BY <4>1, <4>2
    <3>3. ~(NextMonth \/ ExportPage \/ CloseArtifact \/ LoadChunk)
      <4>1. ASSUME NextMonth \/ ExportPage \/ CloseArtifact \/ LoadChunk
            PROVE  mirrorRun'.months = mirrorRun.months
        BY <4>1 DEF NextMonth, ExportPage, CloseArtifact, LoadChunk, MirrorInv, MirrorTypes, RunRecord
      <4>. QED  BY <4>1
    <3>. QED  BY <3>1, <3>2, <3>3 DEF MirrorNext
  <2>3. /\ mirrorRun.pc = "load" /\ artifact[ThisMonth].readable
        /\ artifact[ThisMonth].file = mirrorRun.loaded /\ m = ThisMonth
    BY <2>2 DEF MonthLoaded, MirrorInv, MirrorTypes, RunRecord
  <2>4. m \in Month
    BY DEF MirrorInv, MirrorTypes, RunRecord
  <2>5. artifact[m].file \subseteq graph /\ HasWork(m, w)
    BY <2>3, <2>4 DEF MirrorInv, LoadedSoFar, KeptIsWhole
  <2>. QED  BY <2>5 DEF HasWork, Mirrored
<1>. QED  BY <1>1, MirrorInitInv, MirrorNextInv, PTL DEF MirrorSpec, LoadedIsWhole
=============================================================================
