---------------------------- MODULE StatsSyncProofs ----------------------------
(***************************************************************************)
(* Proofs about StatsSync: types for any number of concurrent jobs, and,   *)
(* when the jobs do not overlap, that a success covers what its watermark  *)
(* claims and that no observation is replaced by an older one.             *)
(***************************************************************************)
EXTENDS StatsSync, TLAPS

----------------------------------------------------------------------------
(* Stamps and days.                                                        *)

\* The fallback stamp is not newer than the release the catalogue listed.
LEMMA FallbackIsEarlier ==
  ASSUME NEW cat \in Stamp
  PROVE  Fallback(cat) \in Stamp /\ Fallback(cat) <= cat
<1>1. cat \in Nat /\ cat <= MaxTime /\ PerDay \in Nat \ {0} /\ MaxTime \in Nat
  BY TimeAssumption DEF Stamp
<1>2. (cat \div PerDay) * PerDay \in 0..cat
  BY <1>1
<1>3. cat # None
  BY <1>1, NoneAssumption
<1>. QED  BY <1>1, <1>2, <1>3 DEF Fallback, Midnight, Day, Stamp

\* Whatever the catalogue answered, the fallback is a stamp, and it is not
\* newer than the present if the catalogue's was not.
LEMMA FallbackType ==
  ASSUME NEW cat \in Stamp \union {None}
  PROVE  Fallback(cat) \in Stamp
<1>1. CASE cat = None
  BY <1>1, TimeAssumption DEF Fallback, Stamp
<1>2. CASE cat # None
  BY <1>2, FallbackIsEarlier
<1>. QED  BY <1>1, <1>2

\* An earlier day means an earlier stamp.
LEMMA EarlierDay ==
  ASSUME NEW c \in Stamp, NEW d \in Stamp, Day(c) < Day(d)
  PROVE  c <= d
<1>. DEFINE p == c \div PerDay
            q == d \div PerDay
<1>1. /\ c \in Nat /\ d \in Nat /\ PerDay \in Nat \ {0}
      /\ p \in Nat /\ q \in Nat
  BY TimeAssumption DEF Stamp
<1>2. /\ c = PerDay * p + (c % PerDay) /\ c % PerDay \in 0..PerDay - 1
      /\ d = PerDay * q + (d % PerDay) /\ d % PerDay \in 0..PerDay - 1
  BY <1>1
<1>3. p + 1 <= q
  BY <1>1 DEF Day
<1>. HIDE DEF p, q
<1>4. q - p - 1 \in Nat /\ q = p + 1 + (q - p - 1)
  BY <1>1, <1>3
<1>5. PICK k \in Nat : q = p + 1 + k
  BY <1>4
<1>6. PerDay * q = PerDay * p + PerDay + PerDay * k /\ PerDay * k \in Nat
  BY <1>1, <1>5
<1>7. PerDay * p \in Nat
  BY <1>1
<1>. QED  BY <1>1, <1>2, <1>6, <1>7

LEMMA IdleIsARun == Idle \in Run
  BY YearAssumption, TimeAssumption, BatchesAssumption
  DEF Idle, Run, Stamp, Year

----------------------------------------------------------------------------
(* Types.                                                                  *)

LEMMA UpstreamTypes ==
  ASSUME TypeOK, Release \/ Tick
  PROVE  TypeOK'
<1>1. clock \in Stamp /\ clock < MaxTime => clock + 1 \in Stamp
  BY TimeAssumption DEF Stamp
<1>2. CASE Release
  BY <1>1, <1>2 DEF TypeOK, Release
<1>3. CASE Tick
  BY <1>1, <1>3 DEF TypeOK, Tick
<1>. QED  BY <1>2, <1>3

LEMMA LaunchTypes ==
  ASSUME TypeOK, NEW j \in Job, Launch(j)
  PROVE  TypeOK'
<1>1. PICK cat \in Stamp \union {None} :
        run' = [run EXCEPT ![j].pc = "start", ![j].cat = cat]
  BY DEF Launch, TypeOK
<1>2. run' = [run EXCEPT ![j] = [@ EXCEPT !.pc = "start", !.cat = cat]]
  BY <1>1 DEF TypeOK, Run
<1>3. run[j] \in Run
  BY DEF TypeOK
<1>4. [run[j] EXCEPT !.pc = "start", !.cat = cat] \in Run
  BY <1>3 DEF Run
<1>5. run' \in [Job -> Run]
  BY <1>2, <1>4 DEF TypeOK
<1>. QED  BY <1>5 DEF TypeOK, Launch

LEMMA StartRunTypes ==
  ASSUME TypeOK, NEW j \in Job, StartRun(j)
  PROVE  TypeOK'
<1>. DEFINE before == {Last} \union {k \in Job : Started(k)}
<1>1. run' = [run EXCEPT ![j] = [@ EXCEPT !.pc = "gate", !.before = before]]
  BY DEF StartRun, TypeOK, Run
<1>2. run[j] \in Run /\ before \in SUBSET (Job \union {Last})
  BY DEF TypeOK
<1>3. [run[j] EXCEPT !.pc = "gate", !.before = before] \in Run
  BY <1>2 DEF Run
<1>4. run' \in [Job -> Run]
  BY <1>1, <1>3 DEF TypeOK
<1>. QED  BY <1>4 DEF TypeOK, StartRun

LEMMA GateTypes ==
  ASSUME TypeOK, NEW j \in Job, Gate(j)
  PROVE  TypeOK'
<1>1. run[j] \in Run /\ last \in Stamp \union {None}
  BY DEF TypeOK
<1>2. [run[j] EXCEPT !.pc = "probe", !.seen = last] \in Run
  BY <1>1 DEF Run
<1>3. run' \in [Job -> Run]
  BY <1>2, IdleIsARun DEF Gate, TypeOK
<1>. QED  BY <1>3 DEF TypeOK, Gate

\* The stamp that a probe comes back with.
LEMMA ProbeStamp ==
  ASSUME TypeOK, NEW j \in Job, Probe(j)
  PROVE  \E stamp \in Stamp :
           /\ \/ stamp = updated
              \/ stamp = clock
              \/ stamp = Fallback(run[j].cat)
           /\ run' = [run EXCEPT ![j] =
                IF Unchanged(j, stamp)
                  THEN Idle ELSE [@ EXCEPT !.pc = "fetch", !.meta = stamp]]
<1>1. /\ updated \in Stamp /\ clock \in Stamp
      /\ run[j].cat \in Stamp \union {None}
  BY DEF TypeOK, Run
<1>2. Fallback(run[j].cat) \in Stamp
  BY <1>1, FallbackType
<1>3. PICK answer \in ProbeKinds :
        LET stamp == CASE answer = "ok"      -> updated
                       [] answer = "undated" -> clock
                       [] answer = "fails"   -> Fallback(run[j].cat)
        IN run' = [run EXCEPT ![j] =
                     IF Unchanged(j, stamp)
                       THEN Idle ELSE [@ EXCEPT !.pc = "fetch", !.meta = stamp]]
  BY DEF Probe
<1>4. answer \in {"ok", "undated", "fails"}
  BY AnswerAssumption
<1>5. CASE answer = "ok"
  BY <1>1, <1>3, <1>5
<1>6. CASE answer = "undated"
  BY <1>1, <1>3, <1>6
<1>7. CASE answer = "fails"
  BY <1>2, <1>3, <1>7
<1>. QED  BY <1>4, <1>5, <1>6, <1>7

LEMMA ProbeTypes ==
  ASSUME TypeOK, NEW j \in Job, Probe(j)
  PROVE  TypeOK'
<1>1. PICK stamp \in Stamp :
        run' = [run EXCEPT ![j] =
                 IF Unchanged(j, stamp)
                   THEN Idle ELSE [@ EXCEPT !.pc = "fetch", !.meta = stamp]]
  BY ProbeStamp
<1>2. run[j] \in Run
  BY DEF TypeOK
<1>3. [run[j] EXCEPT !.pc = "fetch", !.meta = stamp] \in Run
  BY <1>2 DEF Run
<1>4. run' \in [Job -> Run]
  BY <1>1, <1>3, IdleIsARun DEF TypeOK
<1>. QED  BY <1>4 DEF TypeOK, Probe

LEMMA FetchTypes ==
  ASSUME TypeOK, NEW j \in Job, Fetch(j)
  PROVE  TypeOK'
<1>1. StartPeriod(j) \subseteq 0..MaxYear
  BY YearAssumption DEF StartPeriod, Latest, ObservedYears, Year
<1>2. PICK year \in 0..MaxYear :
        run' = [run EXCEPT ![j].pc = "store", ![j].start = year, ![j].snap = up]
  BY <1>1 DEF Fetch
<1>3. run' = [run EXCEPT ![j] =
                [@ EXCEPT !.pc = "store", !.start = year, !.snap = up]]
  BY <1>2 DEF TypeOK, Run
<1>4. run[j] \in Run /\ up \in [Year -> Stamp]
  BY DEF TypeOK
<1>5. [run[j] EXCEPT !.pc = "store", !.start = year, !.snap = up] \in Run
  BY <1>4 DEF Run
<1>6. run' \in [Job -> Run]
  BY <1>3, <1>5 DEF TypeOK
<1>. QED  BY <1>6 DEF TypeOK, Fetch

LEMMA StoreBatchTypes ==
  ASSUME TypeOK, NEW j \in Job, StoreBatch(j)
  PROVE  TypeOK'
<1>. DEFINE b == run[j].next
<1>1. /\ run[j] \in Run /\ store \in [1..Batches -> [Year -> Stamp]]
      /\ b \in 1..Batches
  BY BatchesAssumption DEF TypeOK, StoreBatch, Run
<1>2. Upserted(j, b) \in [Year -> Stamp]
  BY <1>1 DEF Upserted, Run
<1>3. store' \in [1..Batches -> [Year -> Stamp]]
  BY <1>1, <1>2 DEF StoreBatch
<1>4. run' = [run EXCEPT ![j] = [@ EXCEPT !.next = b + 1]]
  BY DEF StoreBatch, TypeOK, Run
<1>5. b + 1 \in 1..Batches + 1
  BY <1>1, BatchesAssumption
<1>6. [run[j] EXCEPT !.next = b + 1] \in Run
  BY <1>1, <1>5 DEF Run
<1>7. run' \in [Job -> Run]
  BY <1>4, <1>6 DEF TypeOK
<1>. QED  BY <1>3, <1>7 DEF TypeOK, StoreBatch

\* Finish leaves every record but that of j as it is, up to its "before".
LEMMA FinishRecords ==
  ASSUME TypeOK, NEW j \in Job, Finish(j)
  PROVE  /\ run' \in [Job -> Run]
         /\ run'[j] = Idle
         /\ \A k \in Job \ {j} :
              \E before \in SUBSET (Job \union {Last}) :
                run'[k] = [run[k] EXCEPT !.before = before]
<1>. DEFINE latest == Last \in run[j].before
            Seen(k) == IF ~latest THEN run[k].before \ {j}
                       ELSE IF j \in run[k].before THEN run[k].before \ {j}
                                                   ELSE run[k].before \ {Last}
<1>1. run' = [k \in Job |->
                IF k = j THEN Idle ELSE [run[k] EXCEPT !.before = Seen(k)]]
  BY DEF Finish
<1>2. ASSUME NEW k \in Job
      PROVE  Seen(k) \in SUBSET (Job \union {Last}) /\ run[k] \in Run
  BY DEF TypeOK, Run
<1>. HIDE DEF Seen, latest
<1>3. ASSUME NEW k \in Job
      PROVE  [run[k] EXCEPT !.before = Seen(k)] \in Run
  BY <1>2 DEF Run
<1>. QED  BY <1>1, <1>2, <1>3, IdleIsARun

LEMMA FinishTypes ==
  ASSUME TypeOK, NEW j \in Job, Finish(j)
  PROVE  TypeOK'
<1>1. run' \in [Job -> Run]
  BY FinishRecords
<1>2. last' \in Stamp \union {None}
  BY DEF TypeOK, Run, Finish, Watermark
<1>. QED  BY <1>1, <1>2 DEF TypeOK, Finish

LEMMA AbortTypes ==
  ASSUME TypeOK, NEW j \in Job, Abort(j)
  PROVE  TypeOK'
<1>1. run' \in [Job -> Run]
  BY IdleIsARun DEF TypeOK, Abort
<1>2. aborts' \in 0..MaxAborts
  BY MaxAbortsAssumption DEF TypeOK, Abort
<1>. QED  BY <1>1, <1>2 DEF TypeOK, Abort

LEMMA TypeStep == TypeOK /\ [Next]_vars => TypeOK'
<1>. SUFFICES ASSUME TypeOK, [Next]_vars
              PROVE  TypeOK'
  OBVIOUS
<1>1. CASE Release \/ Tick
  BY <1>1, UpstreamTypes
<1>2. CASE \E j \in Job : Launch(j) \/ Sync(j) \/ Abort(j)
  <2>1. PICK j \in Job : Launch(j) \/ Sync(j) \/ Abort(j)
    BY <1>2
  <2>. QED  BY <2>1, LaunchTypes, StartRunTypes, GateTypes, ProbeTypes,
               FetchTypes, StoreBatchTypes, FinishTypes, AbortTypes DEF Sync
<1>3. CASE UNCHANGED vars
  BY <1>3 DEF vars, TypeOK
<1>. QED  BY <1>1, <1>2, <1>3 DEF Next

LEMMA InitTypes == Init => TypeOK
  BY YearAssumption, TimeAssumption, BatchesAssumption, MaxAbortsAssumption,
     IdleIsARun
  DEF Init, TypeOK, Stamp, Year

\* Every variable, the locals of every run included, keeps its type, for any
\* number of jobs, overlapping or not.
THEOREM TypeCorrect == Spec => []TypeOK
  BY InitTypes, TypeStep, PTL DEF Spec

----------------------------------------------------------------------------
(* The inductive invariant.                                                *)

LEMMA InitInv == Init => Inv
<1>. SUFFICES ASSUME Init PROVE Inv
  OBVIOUS
<1>1. TypeOK
  BY InitTypes
<1>2. \A j \in Job : run[j] = Idle
  BY DEF Init
<1>3. Stamps /\ NeverAhead
  BY <1>2, YearAssumption, TimeAssumption DEF Init, Stamps, NeverAhead, Idle, Year
<1>4. \A j \in Job : At(j, "idle") /\ run[j].next = 1
  <2>1. Idle.pc = "idle" /\ Idle.next = 1
    BY DEF Idle
  <2>. HIDE DEF Idle
  <2>. QED  BY <1>2, <2>1 DEF At
<1>5. OneAtATime /\ \A j \in Job : ~At(j, "store") /\ ~Started(j)
  BY <1>4 DEF OneAtATime, At, Started
<1>. QED  BY <1>1, <1>3, <1>4, <1>5 DEF Inv

\* Time passes and Eurostat publishes: the new stamp is newer than any that a
\* run holds.
LEMMA UpstreamInv ==
  ASSUME Inv, Release \/ Tick
  PROVE  Inv'
<1>. USE DEF Stamp
<1>1. TypeOK'
  BY UpstreamTypes DEF Inv
<1>2. UNCHANGED <<store, last, run, aborts>> /\ clock' = clock + 1
  BY DEF Release, Tick
<1>3. /\ TypeOK /\ Stamps /\ NeverAhead
      /\ clock \in Nat /\ updated \in Nat
      /\ \A y \in Year : up[y] \in Nat /\ up'[y] \in Nat
      /\ \A j \in Job : run[j] \in Run
  BY <1>1, TimeAssumption DEF Inv, TypeOK
<1>4. /\ updated <= updated' /\ updated' <= clock + 1
      /\ \A y \in Year :
           up'[y] = up[y] \/ (up'[y] = clock + 1 /\ updated' = clock + 1)
  <2>1. updated <= clock
    BY <1>3 DEF Stamps
  <2>2. CASE Release
    <3>1. updated' = clock + 1
      BY <2>2 DEF Release
    <3>2. \A y \in Year : up'[y] = up[y] \/ up'[y] = clock + 1
      BY <2>2 DEF Release
    <3>. QED  BY <1>3, <2>1, <3>1, <3>2
  <2>3. CASE Tick
    BY <1>3, <2>1, <2>3 DEF Tick
  <2>. QED  BY <2>2, <2>3
<1>5. /\ updated <= clock
      /\ \A y \in Year : up[y] <= updated
      /\ \A j \in Job : run[j].meta <= clock /\ run[j].meta \in Nat
      /\ \A j \in Job : run[j].cat # None => run[j].cat <= updated /\ run[j].cat \in Nat
  BY <1>3, TimeAssumption DEF Stamps, Run
<1>6. \A y \in Year : up[y] <= up'[y]
  BY <1>3, <1>4, <1>5
<1>7. Stamps'
  <2>1. updated' \in Nat
    BY <1>1, TimeAssumption DEF TypeOK
  <2>2. \A y \in Year : up'[y] <= updated'
    BY <1>3, <1>4, <1>5, <2>1
  <2>3. \A j \in Job : run[j].meta <= clock'
    BY <1>2, <1>3, <1>5
  <2>4. \A j \in Job : run[j].cat # None => run[j].cat <= updated'
    BY <1>3, <1>4, <1>5, <2>1
  <2>. QED  BY <1>2, <1>4, <2>2, <2>3, <2>4 DEF Stamps
<1>8. NeverAhead'
  <2>1. /\ \A b \in 1..Batches, y \in Year : store[b][y] \in Nat
        /\ \A j \in Job, y \in Year : run[j].snap[y] \in Nat
    <3>1. Stamp \subseteq Nat
      BY TimeAssumption
    <3>2. store \in [1..Batches -> [Year -> Stamp]]
      BY <1>3 DEF TypeOK
    <3>3. \A j \in Job : run[j].snap \in [Year -> Stamp]
      BY <1>3 DEF Run
    <3>. HIDE DEF Stamp
    <3>. QED  BY <3>1, <3>2, <3>3
  <2>2. /\ \A b \in 1..Batches, y \in Year : store[b][y] <= up[y]
        /\ \A j \in Job, y \in Year : run[j].snap[y] <= up[y]
    BY <1>3 DEF NeverAhead
  <2>3. /\ \A b \in 1..Batches, y \in Year : store[b][y] <= up'[y]
        /\ \A j \in Job, y \in Year : run[j].snap[y] <= up'[y]
    BY <1>3, <1>6, <2>1, <2>2
  <2>. QED  BY <1>2, <2>3 DEF NeverAhead
<1>9. ASSUME NEW j \in Job, Storing(j)
      PROVE  Storing(j)'
  <2>1. \A y \in Year : up'[y] <= run[j].meta => up'[y] = up[y]
    BY <1>3, <1>4, <1>5
  <2>. QED  BY <1>2, <1>9, <2>1 DEF Storing
<1>10. /\ OneAtATime => OneAtATime'
       /\ \A j \in Job : At(j, "store")' = At(j, "store")
       /\ \A j \in Job : run'[j].next = run[j].next
  BY <1>2 DEF OneAtATime, At, Started
<1>. QED  BY <1>1, <1>7, <1>8, <1>9, <1>10 DEF Inv

\* A step of one job that touches none but its own record and stores nothing.
\* What it may do to the record is assumed, one part per part of Inv.
LEMMA LocalStepInv ==
  ASSUME Inv, TypeOK', NEW j \in Job, NEW r \in Run,
         UNCHANGED <<clock, updated, up, store>>,
         run' = [run EXCEPT ![j] = r],
         r.meta <= clock,
         r.cat # None => r.cat <= updated,
         \A y \in Year : r.snap[y] <= up[y],
         r.pc # "store" => r.next = 1,
         ~Overlap => /\ r.pc # "idle" =>
                          \A k \in Job \ {j} : At(k, "idle")
                     /\ r.pc \notin {"idle", "start"} => Last \in r.before
                     /\ r.pc = "store" => Storing(j)'
  PROVE  Inv'
<1>1. run'[j] = r /\ \A k \in Job \ {j} : run'[k] = run[k]
  BY DEF Inv, TypeOK
<1>2. Stamps'
  BY <1>1 DEF Inv, Stamps
<1>3. NeverAhead'
  BY <1>1 DEF Inv, NeverAhead
<1>4. \A k \in Job : ~At(k, "store")' => run'[k].next = 1
  BY <1>1 DEF Inv, At
<1>5. ASSUME ~Overlap
      PROVE  OneAtATime'
  BY <1>1, <1>5 DEF Inv, OneAtATime, At, Started
<1>6. ASSUME ~Overlap, NEW k \in Job, At(k, "store")'
      PROVE  Storing(k)'
  <2>1. CASE k = j
    BY <1>1, <1>6, <2>1 DEF At
  <2>2. CASE k # j
    <3>1. run'[k] = run[k] /\ Storing(k)
      BY <1>1, <1>6, <2>2 DEF Inv, At
    <3>. QED  BY <3>1 DEF Storing
  <2>. QED  BY <2>1, <2>2
<1>. QED  BY <1>2, <1>3, <1>4, <1>5, <1>6 DEF Inv

\* A run that ends without storing anything more.
LEMMA EndInv ==
  ASSUME Inv, TypeOK', NEW j \in Job,
         UNCHANGED <<clock, updated, up, store>>,
         run' = [run EXCEPT ![j] = Idle]
  PROVE  Inv'
<1>1. /\ Idle.pc = "idle" /\ Idle.meta = 0 /\ Idle.cat = None /\ Idle.next = 1
      /\ \A y \in Year : Idle.snap[y] = 0
  BY DEF Idle
<1>2. clock \in Nat /\ \A y \in Year : up[y] \in Nat
  BY TimeAssumption DEF Inv, TypeOK, Stamp
<1>3. Idle.meta <= clock /\ \A y \in Year : Idle.snap[y] <= up[y]
  BY <1>1, <1>2
<1>. HIDE DEF Idle
<1>. QED  BY <1>1, <1>3, IdleIsARun, LocalStepInv

LEMMA LaunchInv ==
  ASSUME Inv, NEW j \in Job, Launch(j)
  PROVE  Inv'
<1>1. TypeOK /\ TypeOK'
  BY LaunchTypes DEF Inv
<1>2. PICK cat \in {updated, None} :
        run' = [run EXCEPT ![j].pc = "start", ![j].cat = cat]
  BY DEF Launch
<1>. DEFINE r == [run[j] EXCEPT !.pc = "start", !.cat = cat]
<1>3. run' = [run EXCEPT ![j] = r] /\ run[j] \in Run
  BY <1>1, <1>2 DEF TypeOK, Run
<1>4. updated \in Stamp
  BY <1>1 DEF TypeOK
<1>5. /\ r \in Run /\ r.pc = "start" /\ r.cat = cat
      /\ r.meta = run[j].meta /\ r.snap = run[j].snap /\ r.next = run[j].next
  BY <1>3, <1>4 DEF Run
<1>6. /\ r.meta <= clock
      /\ r.cat # None => r.cat <= updated
      /\ \A y \in Year : r.snap[y] <= up[y]
  <2>1. updated <= updated
    BY <1>4, TimeAssumption DEF Stamp
  <2>. QED  BY <1>5, <2>1 DEF Inv, Stamps, NeverAhead
<1>7. r.next = 1
  BY <1>5 DEF Inv, Launch, At
<1>8. ~Overlap => \A k \in Job \ {j} : At(k, "idle")
  BY DEF Launch
<1>. HIDE DEF r
<1>9. UNCHANGED <<clock, updated, up, store>>
  BY DEF Launch
<1>. QED  BY <1>1, <1>3, <1>5, <1>6, <1>7, <1>8, <1>9, LocalStepInv

\* What the other parts of Inv say of a run in progress.
LEMMA InProgress ==
  ASSUME Inv, NEW j \in Job, ~At(j, "idle")
  PROVE  /\ run[j] \in Run
         /\ run[j].meta <= clock
         /\ run[j].cat # None => run[j].cat <= updated
         /\ \A y \in Year : run[j].snap[y] <= up[y]
         /\ ~At(j, "store") => run[j].next = 1
         /\ ~Overlap => \A k \in Job \ {j} : At(k, "idle")
         /\ ~Overlap /\ Started(j) => Last \in run[j].before
<1>1. run[j] \in Run
  BY DEF Inv, TypeOK
<1>2. ~Overlap => OneAtATime
  BY DEF Inv
<1>. QED  BY <1>1, <1>2 DEF Inv, Stamps, NeverAhead, OneAtATime

LEMMA StartRunInv ==
  ASSUME Inv, NEW j \in Job, StartRun(j)
  PROVE  Inv'
<1>. DEFINE before == {Last} \union {k \in Job : Started(k)}
            r == [run[j] EXCEPT !.pc = "gate", !.before = before]
<1>1. TypeOK /\ TypeOK' /\ At(j, "start") /\ ~At(j, "idle") /\ ~At(j, "store")
  BY StartRunTypes DEF Inv, StartRun, At
<1>2. run' = [run EXCEPT ![j] = r] /\ run[j] \in Run
  BY <1>1 DEF TypeOK, Run, StartRun
<1>3. /\ r \in Run /\ r.pc = "gate" /\ r.before = before /\ r.cat = run[j].cat
      /\ r.meta = run[j].meta /\ r.snap = run[j].snap /\ r.next = run[j].next
  BY <1>2 DEF Run
<1>4. Last \in before
  OBVIOUS
<1>. HIDE DEF r, before
<1>5. UNCHANGED <<clock, updated, up, store>>
  BY DEF StartRun
<1>. QED  BY <1>1, <1>2, <1>3, <1>4, <1>5, InProgress, LocalStepInv

LEMMA GateInv ==
  ASSUME Inv, NEW j \in Job, Gate(j)
  PROVE  Inv'
<1>1. /\ TypeOK /\ TypeOK' /\ At(j, "gate") /\ Started(j)
      /\ ~At(j, "idle") /\ ~At(j, "store")
  BY GateTypes DEF Inv, Gate, At, Started
<1>2. UNCHANGED <<clock, updated, up, store>>
  BY DEF Gate
<1>3. CASE CatalogueSaysUnchanged(j)
  <2>1. run' = [run EXCEPT ![j] = Idle]
    BY <1>3 DEF Gate
  <2>. QED  BY <1>1, <1>2, <2>1, EndInv
<1>4. CASE ~CatalogueSaysUnchanged(j)
  <2>. DEFINE r == [run[j] EXCEPT !.pc = "probe", !.seen = last]
  <2>1. run' = [run EXCEPT ![j] = r] /\ run[j] \in Run
    BY <1>1, <1>4 DEF Gate, TypeOK
  <2>2. last \in Stamp \union {None}
    BY <1>1 DEF TypeOK
  <2>3. /\ r \in Run /\ r.pc = "probe" /\ r.before = run[j].before
        /\ r.cat = run[j].cat
        /\ r.meta = run[j].meta /\ r.snap = run[j].snap /\ r.next = run[j].next
    BY <2>1, <2>2 DEF Run
  <2>. HIDE DEF r
  <2>. QED  BY <1>1, <1>2, <2>1, <2>3, InProgress, LocalStepInv
<1>. QED  BY <1>3, <1>4

\* The stamp of a probe is not of the future.
LEMMA ProbeInv ==
  ASSUME Inv, NEW j \in Job, Probe(j)
  PROVE  Inv'
<1>1. /\ TypeOK /\ TypeOK' /\ At(j, "probe") /\ Started(j)
      /\ ~At(j, "idle") /\ ~At(j, "store")
  BY ProbeTypes DEF Inv, Probe, At, Started
<1>2. UNCHANGED <<clock, updated, up, store>>
  BY DEF Probe
<1>3. PICK stamp \in Stamp :
        /\ stamp = updated \/ stamp = clock \/ stamp = Fallback(run[j].cat)
        /\ run' = [run EXCEPT ![j] =
             IF Unchanged(j, stamp)
               THEN Idle ELSE [@ EXCEPT !.pc = "fetch", !.meta = stamp]]
  BY <1>1, ProbeStamp
<1>4. stamp <= clock
  <2>1. /\ clock \in Nat /\ updated \in Nat /\ updated <= clock
        /\ stamp \in Nat
    BY <1>1, TimeAssumption DEF Inv, Stamps, TypeOK, Stamp
  <2>2. CASE stamp = updated \/ stamp = clock
    BY <2>1, <2>2
  <2>3. CASE stamp = Fallback(run[j].cat)
    <3>1. run[j].cat \in Stamp \union {None}
      BY <1>1 DEF TypeOK, Run
    <3>2. CASE run[j].cat = None
      BY <2>1, <2>3, <3>2 DEF Fallback
    <3>3. CASE run[j].cat # None
      <4>1. run[j].cat <= updated /\ run[j].cat \in Stamp
        BY <3>1, <3>3 DEF Inv, Stamps
      <4>2. stamp <= run[j].cat
        BY <2>3, <4>1, FallbackIsEarlier
      <4>3. run[j].cat \in Nat
        BY <4>1, TimeAssumption DEF Stamp
      <4>. QED  BY <2>1, <4>1, <4>2, <4>3
    <3>. QED  BY <3>2, <3>3
  <2>. QED  BY <1>3, <2>2, <2>3
<1>5. CASE Unchanged(j, stamp)
  <2>1. run' = [run EXCEPT ![j] = Idle]
    BY <1>3, <1>5
  <2>. QED  BY <1>1, <1>2, <2>1, EndInv
<1>6. CASE ~Unchanged(j, stamp)
  <2>. DEFINE r == [run[j] EXCEPT !.pc = "fetch", !.meta = stamp]
  <2>1. run' = [run EXCEPT ![j] = r] /\ run[j] \in Run
    BY <1>1, <1>3, <1>6 DEF TypeOK
  <2>2. /\ r \in Run /\ r.pc = "fetch" /\ r.before = run[j].before
        /\ r.cat = run[j].cat
        /\ r.meta = stamp /\ r.snap = run[j].snap /\ r.next = run[j].next
    BY <2>1 DEF Run
  <2>. HIDE DEF r
  <2>. QED  BY <1>1, <1>2, <1>4, <2>1, <2>2, InProgress, LocalStepInv
<1>. QED  BY <1>5, <1>6

\* The file is Eurostat's present state, hence not older than any observation.
LEMMA FetchInv ==
  ASSUME Inv, NEW j \in Job, Fetch(j)
  PROVE  Inv'
<1>1. /\ TypeOK /\ TypeOK' /\ At(j, "fetch") /\ Started(j)
      /\ ~At(j, "idle") /\ ~At(j, "store")
  BY FetchTypes DEF Inv, Fetch, At, Started
<1>2. UNCHANGED <<clock, updated, up, store>>
  BY DEF Fetch
<1>3. StartPeriod(j) \subseteq 0..MaxYear
  BY YearAssumption DEF StartPeriod, Latest, ObservedYears, Year
<1>4. PICK year \in StartPeriod(j) :
        run' = [run EXCEPT ![j].pc = "store", ![j].start = year, ![j].snap = up]
  BY DEF Fetch
<1>. DEFINE r == [run[j] EXCEPT !.pc = "store", !.start = year, !.snap = up]
<1>5. run' = [run EXCEPT ![j] = r] /\ run[j] \in Run
  BY <1>1, <1>4 DEF TypeOK, Run
<1>6. up \in [Year -> Stamp]
  BY <1>1 DEF TypeOK
<1>7. /\ r \in Run /\ r.pc = "store" /\ r.before = run[j].before
      /\ r.cat = run[j].cat /\ r.seen = run[j].seen /\ r.start = year
      /\ r.meta = run[j].meta /\ r.snap = up /\ r.next = run[j].next
  BY <1>3, <1>5, <1>6 DEF Run
<1>8. j \in Forced \/ run[j].seen = None => year = 0
  BY <1>4 DEF StartPeriod
<1>. HIDE DEF r
<1>9. run'[j] = r
  BY <1>1, <1>5 DEF TypeOK
<1>10. run[j].next = 1
  BY <1>1, InProgress
<1>11. Storing(j)'
  <2>1. \A b \in 1..Batches, y \in Year : store[b][y] <= up[y]
    BY DEF Inv, NeverAhead
  <2>2. 1..run'[j].next - 1 = {}
    BY <1>7, <1>9, <1>10
  <2>. QED  BY <1>2, <1>7, <1>8, <1>9, <2>1, <2>2 DEF Storing
<1>12. \A y \in Year : r.snap[y] <= up[y]
  <2>1. \A y \in Year : up[y] \in Nat
    BY <1>6, TimeAssumption DEF Stamp
  <2>. QED  BY <1>7, <2>1
<1>. QED  BY <1>1, <1>2, <1>5, <1>7, <1>11, <1>12, InProgress, LocalStepInv

\* A batch stores the newest values there are, and only those of its window.
LEMMA UpsertedValue ==
  ASSUME TypeOK, NEW j \in Job, NEW b \in 1..Batches, NEW y \in Year,
         ~Overlap => Storing(j)
  PROVE  /\ Upserted(j, b)[y] \in {run[j].snap[y], store[b][y]}
         /\ ~Overlap =>
              /\ Upserted(j, b)[y] >= store[b][y]
              /\ Upserted(j, b)[y] <= run[j].snap[y]
              /\ y >= run[j].start => Upserted(j, b)[y] = run[j].snap[y]
<1>1. run[j].snap[y] \in Nat /\ store[b][y] \in Nat
  <2>1. Stamp \subseteq Nat
    BY TimeAssumption DEF Stamp
  <2>2. run[j] \in Run /\ store \in [1..Batches -> [Year -> Stamp]]
    BY DEF TypeOK
  <2>3. run[j].snap[y] \in Stamp /\ store[b][y] \in Stamp
    BY <2>2 DEF Run
  <2>. QED  BY <2>1, <2>3
<1>2. ~Overlap => store[b][y] <= run[j].snap[y]
  BY DEF Storing
<1>. QED  BY <1>1, <1>2 DEF Upserted

\* Storing a batch of the download.
LEMMA StoreBatchInv ==
  ASSUME Inv, NEW j \in Job, StoreBatch(j)
  PROVE  Inv'
<1>. DEFINE n == run[j].next
            r == [run[j] EXCEPT !.next = n + 1]
<1>1. /\ TypeOK /\ TypeOK' /\ At(j, "store") /\ Started(j) /\ ~At(j, "idle")
      /\ UNCHANGED <<clock, updated, up, last, aborts>>
  BY StoreBatchTypes DEF Inv, StoreBatch, At, Started
<1>2. run' = [run EXCEPT ![j] = r] /\ run[j] \in Run
  BY <1>1 DEF StoreBatch, TypeOK, Run
<1>3. n \in 1..Batches /\ Batches \in Nat
  BY <1>2, BatchesAssumption DEF StoreBatch, Run
<1>4. /\ run'[j] = r
      /\ \A k \in Job \ {j} : run'[k] = run[k]
      /\ r.pc = "store" /\ r.before = run[j].before /\ r.cat = run[j].cat
      /\ r.seen = run[j].seen /\ r.meta = run[j].meta /\ r.start = run[j].start
      /\ r.snap = run[j].snap /\ r.next = n + 1
  BY <1>1, <1>2 DEF TypeOK, Run, At
<1>. HIDE DEF r
<1>5. ~Overlap => Storing(j) /\ OneAtATime
  BY <1>1 DEF Inv
<1>6. \A b \in 1..Batches, y \in Year :
        store'[b][y] = IF b = n THEN Upserted(j, n)[y] ELSE store[b][y]
  BY <1>1 DEF StoreBatch, TypeOK
<1>7. Stamps'
  BY <1>1, <1>4 DEF Inv, Stamps
<1>8. NeverAhead'
  <2>1. \A b \in 1..Batches, y \in Year :
          store'[b][y] = run[j].snap[y] \/ store'[b][y] = store[b][y]
    BY <1>1, <1>3, <1>5, <1>6, UpsertedValue
  <2>2. NeverAhead
    BY DEF Inv
  <2>3. \A b \in 1..Batches, y \in Year : store'[b][y] <= up[y]
    BY <2>1, <2>2 DEF NeverAhead
  <2>4. \A k \in Job, y \in Year : run'[k].snap[y] <= up[y]
    BY <1>4, <2>2 DEF NeverAhead
  <2>. QED  BY <1>1, <2>3, <2>4 DEF NeverAhead
<1>9. \A k \in Job : ~At(k, "store")' => run'[k].next = 1
  BY <1>4 DEF Inv, At
<1>10. ASSUME ~Overlap
       PROVE  OneAtATime' /\ \A k \in Job : At(k, "store")' => Storing(k)'
  <2>1. Storing(j) /\ OneAtATime
    BY <1>5, <1>10
  <2>2. OneAtATime'
    BY <1>1, <1>4, <2>1 DEF OneAtATime, At, Started
  <2>3. \A k \in Job : At(k, "store")' => k = j
    BY <1>1, <1>4, <2>1 DEF OneAtATime, At
  <2>4. \A b \in 1..Batches, y \in Year : store'[b][y] <= run[j].snap[y]
    BY <1>1, <1>3, <1>6, <1>10, <2>1, UpsertedValue DEF Storing
  <2>5. ASSUME NEW b \in 1..n, NEW y \in Year, y >= run[j].start
        PROVE  store'[b][y] = run[j].snap[y]
    <3>1. b \in 1..Batches
      BY <1>3
    <3>2. CASE b = n
      BY <1>1, <1>6, <1>10, <2>1, <2>5, <3>1, <3>2, UpsertedValue
    <3>3. CASE b # n
      BY <1>3, <1>6, <2>1, <2>5, <3>1, <3>3 DEF Storing
    <3>. QED  BY <3>2, <3>3
  <2>6. (n + 1) - 1 = n
    BY <1>3
  <2>7. Storing(j)'
    BY <1>1, <1>4, <2>1, <2>4, <2>5, <2>6 DEF Storing
  <2>. QED  BY <2>2, <2>3, <2>7
<1>. QED  BY <1>1, <1>7, <1>8, <1>9, <1>10 DEF Inv

\* A success, which changes what the others recorded of the runs before them.
LEMMA FinishInv ==
  ASSUME Inv, NEW j \in Job, Finish(j)
  PROVE  Inv'
<1>1. /\ TypeOK /\ TypeOK' /\ ~At(j, "idle")
      /\ UNCHANGED <<clock, updated, up, store>>
  BY FinishTypes DEF Inv, Finish, At
<1>2. ASSUME NEW k \in Job \ {j}
      PROVE  /\ run'[k].pc = run[k].pc /\ run'[k].cat = run[k].cat
             /\ run'[k].meta = run[k].meta /\ run'[k].snap = run[k].snap
             /\ run'[k].next = run[k].next
  <2>1. PICK before \in SUBSET (Job \union {Last}) :
          run'[k] = [run[k] EXCEPT !.before = before]
    BY <1>1, FinishRecords
  <2>2. run[k] \in Run
    BY <1>1 DEF TypeOK
  <2>. QED  BY <2>1, <2>2 DEF Run
<1>3. /\ run'[j].pc = "idle" /\ run'[j].cat = None /\ run'[j].meta = 0
      /\ run'[j].next = 1 /\ \A y \in Year : run'[j].snap[y] = 0
  BY <1>1, FinishRecords DEF Idle
<1>4. clock \in Nat /\ \A y \in Year : up[y] \in Nat
  BY <1>1, TimeAssumption DEF TypeOK, Stamp
<1>5. Stamps'
  BY <1>1, <1>2, <1>3, <1>4 DEF Inv, Stamps
<1>6. NeverAhead'
  BY <1>1, <1>2, <1>3, <1>4 DEF Inv, NeverAhead
<1>7. \A k \in Job : ~At(k, "store")' => run'[k].next = 1
  BY <1>2, <1>3 DEF Inv, At
<1>8. ~Overlap => \A k \in Job : At(k, "idle")'
  BY <1>1, <1>2, <1>3, InProgress DEF At
<1>9. ~Overlap => OneAtATime' /\ \A k \in Job : ~At(k, "store")'
  BY <1>8 DEF OneAtATime, At, Started
<1>. QED  BY <1>1, <1>5, <1>6, <1>7, <1>9 DEF Inv

LEMMA AbortInv ==
  ASSUME Inv, NEW j \in Job, Abort(j)
  PROVE  Inv'
<1>1. TypeOK'
  BY AbortTypes DEF Inv
<1>. QED  BY <1>1, EndInv DEF Abort

LEMMA InvStep == Inv /\ [Next]_vars => Inv'
<1>. SUFFICES ASSUME Inv, [Next]_vars
              PROVE  Inv'
  OBVIOUS
<1>1. CASE Release \/ Tick
  BY <1>1, UpstreamInv
<1>2. CASE \E j \in Job : Launch(j) \/ Sync(j) \/ Abort(j)
  <2>1. PICK j \in Job : Launch(j) \/ Sync(j) \/ Abort(j)
    BY <1>2
  <2>. QED  BY <2>1, LaunchInv, StartRunInv, GateInv, ProbeInv, FetchInv,
               StoreBatchInv, FinishInv, AbortInv DEF Sync
<1>3. CASE UNCHANGED vars
  BY <1>3 DEF vars, Inv, TypeOK, Stamps, NeverAhead, OneAtATime, Storing,
              At, Started
<1>. QED  BY <1>1, <1>2, <1>3 DEF Next

LEMMA Invariance == Spec => []Inv
  BY InitInv, InvStep, PTL DEF Spec

----------------------------------------------------------------------------
(* Theorems.                                                               *)

\* The step of one job changes what the others recorded of earlier runs, and
\* nothing else of them.
LEMMA OthersStay ==
  ASSUME TypeOK, NEW j \in Job, NEW k \in Job \ {j},
         Launch(k) \/ Sync(k) \/ Abort(k)
  PROVE  run'[j].pc = run[j].pc
<1>1. CASE Finish(k)
  <2>1. PICK before \in SUBSET (Job \union {Last}) :
          run'[j] = [run[j] EXCEPT !.before = before]
    BY <1>1, FinishRecords
  <2>2. run[j] \in Run
    BY DEF TypeOK
  <2>. QED  BY <2>1, <2>2 DEF Run
<1>2. CASE ~Finish(k)
  <2>1. run'[j] = run[j]
    <3>1. Launch(k) \/ StartRun(k) \/ Gate(k) \/ Probe(k) \/ Fetch(k)
            \/ StoreBatch(k) \/ Abort(k)
      BY <1>2 DEF Sync
    <3>2. CASE Probe(k)
      <4>1. PICK stamp \in Stamp :
              run' = [run EXCEPT ![k] =
                IF Unchanged(k, stamp)
                  THEN Idle ELSE [@ EXCEPT !.pc = "fetch", !.meta = stamp]]
        BY <3>2, ProbeStamp
      <4>. QED  BY <4>1 DEF TypeOK
    <3>3. CASE Launch(k) \/ StartRun(k) \/ Gate(k) \/ Fetch(k)
                 \/ StoreBatch(k) \/ Abort(k)
      BY <3>3 DEF Launch, StartRun, Gate, Fetch, StoreBatch, Abort, TypeOK
    <3>. QED  BY <3>1, <3>2, <3>3
  <2>. QED  BY <2>1
<1>. QED  BY <1>1, <1>2

\* A run that ends without being aborted was skipped or has succeeded.
LEMMA Ends ==
  ASSUME TypeOK, [Next]_vars, NEW j \in Job,
         ~At(j, "idle"), run'[j].pc = "idle", aborts' = aborts
  PROVE  Gate(j) \/ Probe(j) \/ Finish(j)
<1>1. run'[j].pc # run[j].pc
  BY DEF At
<1>2. ~Release /\ ~Tick /\ ~(UNCHANGED vars)
  BY <1>1 DEF Release, Tick, vars
<1>3. PICK k \in Job : Launch(k) \/ Sync(k) \/ Abort(k)
  BY <1>2 DEF Next
<1>4. k = j
  BY <1>1, <1>3, OthersStay
<1>5. ~Abort(j)
  BY DEF Abort, TypeOK
<1>6. /\ run[j] \in Run /\ run \in [Job -> Run]
  BY DEF TypeOK
<1>7. ~Launch(j)
  BY DEF Launch
<1>8. ~StartRun(j)
  BY <1>6 DEF StartRun, Run
<1>9. ~Fetch(j)
  BY <1>6 DEF Fetch, Run
<1>10. ~StoreBatch(j)
  BY <1>1, <1>6 DEF StoreBatch, Run
<1>. QED  BY <1>3, <1>4, <1>5, <1>7, <1>8, <1>9, <1>10 DEF Sync

\* The gate that needs no request skips no release that the catalogue listed,
\* with any number of jobs that overlap, fail and are killed
\* (_catalogue_says_unchanged).
THEOREM CatalogueSkipsAreSafe == Spec => CatalogueSkipIsSafe
<1>1. ASSUME TypeOK, [Next]_vars, NEW j \in Job, SkipsAt(j, "gate")
      PROVE  run[j].cat <= last
  <2>1. Gate(j)
    <3>1. At(j, "gate") /\ ~At(j, "idle")
      BY <1>1 DEF SkipsAt, At
    <3>2. Gate(j) \/ Probe(j) \/ Finish(j)
      BY <1>1, <3>1, Ends DEF SkipsAt
    <3>. QED  BY <3>1, <3>2 DEF Probe, Finish, At
  <2>2. CatalogueSaysUnchanged(j)
    <3>1. run \in [Job -> Run] /\ run[j] \in Run
      BY <1>1 DEF TypeOK
    <3>2. [run[j] EXCEPT !.pc = "probe", !.seen = last].pc # "idle"
      BY <3>1 DEF Run
    <3>3. run'[j].pc = "idle"
      BY <1>1 DEF SkipsAt
    <3>. QED  BY <2>1, <3>1, <3>2, <3>3 DEF Gate
  <2>3. run[j].cat \in Stamp /\ last \in Stamp
    BY <1>1, <2>2 DEF CatalogueSaysUnchanged, TypeOK, Run
  <2>. QED  BY <2>2, <2>3, EarlierDay DEF CatalogueSaysUnchanged
<1>2. TypeOK /\ [Next]_vars =>
        [\A j \in Job : SkipsAt(j, "gate") => run[j].cat <= last]_vars
  BY <1>1
<1>. QED
  BY <1>2, TypeCorrect, PTL DEF CatalogueSkipIsSafe, Spec

\* Unless two jobs overlap, no observation is replaced by an older one, though
\* Eurostat publishes in the middle of a sync and runs stop half-way
\* (bulk_upsert_observations).
THEOREM ObservationsNeverGoBack ==
  ASSUME ~Overlap
  PROVE  Spec => NeverGoesBack
<1>1. ASSUME Inv, [Next]_vars, NEW b \in 1..Batches, NEW y \in Year
      PROVE  store'[b][y] >= store[b][y]
  <2>1. TypeOK /\ store[b][y] \in Nat
    <3>1. TypeOK
      BY <1>1 DEF Inv
    <3>2. store[b][y] \in Stamp /\ Stamp \subseteq Nat
      BY <3>1, TimeAssumption DEF TypeOK, Stamp
    <3>. QED  BY <3>1, <3>2
  <2>2. CASE store' = store
    BY <2>1, <2>2
  <2>3. CASE \E j \in Job : StoreBatch(j)
    <3>1. PICK j \in Job : StoreBatch(j)
      BY <2>3
    <3>2. Storing(j)
      BY <1>1, <3>1 DEF Inv, StoreBatch
    <3>3. store'[b] = IF b = run[j].next THEN Upserted(j, b) ELSE store[b]
      BY <2>1, <3>1 DEF StoreBatch, TypeOK
    <3>4. Upserted(j, b)[y] >= store[b][y]
      BY <2>1, <3>2, UpsertedValue
    <3>. QED  BY <2>1, <3>3, <3>4
  <2>4. store' = store \/ \E j \in Job : StoreBatch(j)
    BY <1>1 DEF Next, vars, Release, Tick, Sync, Launch, StartRun, Gate,
                Probe, Fetch, Finish, Abort
  <2>. QED  BY <2>2, <2>3, <2>4
<1>2. Inv /\ [Next]_vars =>
        [\A b \in 1..Batches, y \in Year : store'[b][y] >= store[b][y]]_vars
  BY <1>1
<1>. QED
  BY <1>2, Invariance, PTL DEF NeverGoesBack, Spec

\* Unless two jobs overlap, a success stores what its watermark claims of the
\* years the run answers for: whatever was published between the probe and the
\* download, whatever the probe answered and whatever runs were aborted before
\* (sync, finish_run).
THEOREM SuccessCoversWatermark ==
  ASSUME ~Overlap
  PROVE  Spec => SyncCovers
<1>1. ASSUME Inv, [Next]_vars, NEW j \in Job, Succeeds(j), aborts' = aborts,
             NEW b \in 1..Batches, NEW y \in AnswersFor(j)
      PROVE  Holds(b, y, last')
  <2>1. TypeOK /\ At(j, "store") /\ ~At(j, "idle") /\ Started(j)
    BY <1>1 DEF Inv, Succeeds, At, Started
  <2>2. Finish(j)
    <3>1. Gate(j) \/ Probe(j) \/ Finish(j)
      BY <1>1, <2>1, Ends DEF Succeeds
    <3>. QED  BY <2>1, <3>1 DEF Gate, Probe, At
  <2>3. Last \in run[j].before /\ Storing(j)
    BY <1>1, <2>1 DEF Inv, OneAtATime
  <2>4. last' = run[j].meta
    BY <2>2, <2>3 DEF Finish, Watermark
  <2>5. b \in 1..run[j].next - 1
    <3>1. run[j].next \in 1..Batches + 1 /\ run[j].next > Batches
      BY <1>1, <2>1 DEF Succeeds, TypeOK, Run
    <3>. QED  BY <3>1, BatchesAssumption
  <2>6. y \in Year /\ y >= run[j].start
    BY <2>3, YearAssumption DEF AnswersFor, Storing, Year
  <2>. QED  BY <2>3, <2>4, <2>5, <2>6 DEF Storing, Holds
<1>2. Inv /\ [Next]_vars =>
        [\A j \in Job : Succeeds(j) /\ aborts' = aborts =>
           \A b \in 1..Batches, y \in AnswersFor(j) : Holds(b, y, last')]_vars
  BY <1>1
<1>. QED
  BY <1>2, Invariance, PTL DEF SyncCovers, Spec

=============================================================================
