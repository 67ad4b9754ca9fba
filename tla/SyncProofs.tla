----------------------------- MODULE SyncProofs -----------------------------
(***************************************************************************)
(* Proofs about the way of a sample in Sync, for every set of pollers and  *)
(* samples, every batch size, with and without a store that fails, and for *)
(* any number of restarts: a sample is in one place at a time, the buffer  *)
(* is bounded, the shutdown leaves nothing behind, and the whole           *)
(* implements the abstract log.                                            *)
(***************************************************************************)
EXTENDS Sync, FiniteSetTheorems, TLAPS

USE SyncAssumption

\* Where a goroutine may be (see TypeOK).
Places ==
  {"idle", "get", "total", "outcome", "timeout", "dirty", "append", "take", "insert", "load",
   "loadSuccess", "loadFailed", "loadTimeout", "update", "clear", "wait", "stopScheduler",
   "stopLoops", "flush", "closeStore", "stopAgain", "listen", "accept", "ended"}
\* The steps in which processResults has a result in hand.
Handling == {"get", "total", "outcome", "timeout", "dirty", "append"}
\* The steps of the goroutine of main: in flushStats, after the reader has ended, after
\* the loops have ended, after the last samples were taken.
InStats == {"flush", "load", "loadSuccess", "loadFailed", "loadTimeout", "update", "clear"}
AfterTake == {"insert", "closeStore", "stopAgain"}
AfterLoops == InStats \cup {"take"} \cup AfterTake
AfterReader == {"stopLoops"} \cup AfterLoops

Types ==
  /\ fresh \subseteq Samples
  /\ result \in [sample : Samples \cup {None}, outcome : Outcomes \cup {None},
                 rec : Recs \cup {None}]
  /\ buffer \subseteq Samples
  /\ batch \in [SampleFlushers -> SUBSET Samples]
  /\ rows \in [Samples -> Nat]
  /\ at \in [Procs -> Places]

\* Who may hold a sample, and what the order of Shutdown guarantees.
Control ==
  /\ result.sample # None <=> at[Reader] \in Handling
  /\ \A g \in SampleFlushers : batch[g] # {} => at[g] = "insert"
  /\ at[Signal] \in AfterReader => at[Reader] = "ended"
  /\ at[Signal] \in AfterLoops => at[SampleLoop] = "ended"
  /\ at[Signal] \in AfterTake => buffer = {}
  /\ ~storeOpen => at[Signal] = "stopAgain"

\* A sample is in one place.
OnePlace ==
  /\ \A s \in fresh : s \notin buffer /\ s # result.sample /\ rows[s] = 0
  /\ \A s \in fresh : \A g \in SampleFlushers : s \notin batch[g]
  /\ \A s \in buffer : s # result.sample /\ rows[s] = 0
  /\ \A s \in buffer : \A g \in SampleFlushers : s \notin batch[g]
  /\ \A g \in SampleFlushers : \A s \in batch[g] : s # result.sample /\ rows[s] = 0
  /\ \A g, h \in SampleFlushers : \A s \in batch[g] : s \in batch[h] => g = h
  /\ result.sample # None => rows[result.sample] = 0
  /\ \A s \in Samples : rows[s] <= 1

\* The buffer is finite and within its bound.
Bounded == IsFiniteSet(buffer) /\ BufferBounded

IInv == Types /\ Control /\ OnePlace /\ Bounded

-----------------------------------------------------------------------------
\* What a step of one goroutine does to the others' positions: nothing.
LEMMA Moved ==
  ASSUME at \in [Procs -> Places], NEW g \in Procs, NEW y \in Places, Goto(g, y)
  PROVE  /\ at' \in [Procs -> Places]
         /\ at'[g] = y
         /\ \A h \in Procs : h # g => at'[h] = at[h]
  BY DEF Goto

\* The goroutines are different ones.
LEMMA Different ==
  /\ Procs = {Reader, StatsLoop, SampleLoop, Signal, Main}
  /\ Reader # SampleLoop /\ Reader # Signal /\ SampleLoop # Signal
  /\ Reader # StatsLoop /\ SampleLoop # StatsLoop /\ Signal # StatsLoop
  /\ Reader # Main /\ SampleLoop # Main /\ Signal # Main
  /\ SampleFlushers = {Reader, SampleLoop, Signal}
  /\ StatsFlushers = {StatsLoop, Signal}
  BY DEF Procs, Reader, StatsLoop, SampleLoop, Signal, Main, SampleFlushers, StatsFlushers

-----------------------------------------------------------------------------
(* Steps that move no sample. *)

\* A step of the statistics, of the reader or of the shutdown.
Quiet ==
  /\ UNCHANGED <<fresh, buffer, batch, rows, storeOpen>>
  /\ result' \in [sample : {result.sample}, outcome : Outcomes \cup {None}, rec : Recs \cup {None}]
  /\ \/ at' = at
     \/ \E y \in Handling : at[Reader] \in Handling /\ Goto(Reader, y)
     \/ \E y \in Places : Goto(StatsLoop, y)
     \/ \E y \in InStats \cup {"take"} : at[Signal] \in InStats /\ Goto(Signal, y)
     \/ \E y \in Places : Goto(Main, y)

LEMMA QuietMoves ==
  ASSUME IInv, Quiet
  PROVE  /\ at' \in [Procs -> Places]
         /\ at'[SampleLoop] = at[SampleLoop]
         /\ at[Reader] \notin Handling => at'[Reader] = at[Reader]
         /\ at[Reader] \in Handling => at'[Reader] \in Handling
         /\ \/ at'[Signal] = at[Signal]
            \/ at[Signal] \in InStats /\ at'[Signal] \in InStats \cup {"take"}
<1> at \in [Procs -> Places]
  BY DEF IInv, Types
<1>1. CASE at' = at
  BY <1>1
<1>2. CASE \E y \in Handling : at[Reader] \in Handling /\ Goto(Reader, y)
  <2> PICK y \in Handling : at[Reader] \in Handling /\ Goto(Reader, y)
    BY <1>2
  <2> y \in Places
    BY DEF Handling, Places
  <2> QED
    BY Moved, Different
<1>3. CASE \E y \in Places : Goto(StatsLoop, y)
  BY <1>3, Moved, Different
<1>4. CASE \E y \in InStats \cup {"take"} : at[Signal] \in InStats /\ Goto(Signal, y)
  <2> PICK y \in InStats \cup {"take"} : at[Signal] \in InStats /\ Goto(Signal, y)
    BY <1>4
  <2> y \in Places
    BY DEF InStats, Places
  <2> QED
    BY Moved, Different
<1>5. CASE \E y \in Places : Goto(Main, y)
  BY <1>5, Moved, Different
<1> QED
  BY <1>1, <1>2, <1>3, <1>4, <1>5 DEF Quiet

LEMMA QuietKeeps ==
  ASSUME IInv, Quiet
  PROVE  IInv'
<1>1. /\ at' \in [Procs -> Places]
      /\ at'[SampleLoop] = at[SampleLoop]
      /\ at[Reader] \notin Handling => at'[Reader] = at[Reader]
      /\ at[Reader] \in Handling => at'[Reader] \in Handling
      /\ \/ at'[Signal] = at[Signal]
         \/ at[Signal] \in InStats /\ at'[Signal] \in InStats \cup {"take"}
  BY QuietMoves
<1>2. result'.sample = result.sample /\ UNCHANGED <<fresh, buffer, batch, rows, storeOpen>>
  BY DEF Quiet
<1>3. Types'
  BY <1>1, <1>2 DEF IInv, Types, Quiet
<1>4. Control'
  <2>1. result'.sample # None <=> at'[Reader] \in Handling
    BY <1>1, <1>2 DEF IInv, Control
  <2>2. ASSUME NEW g \in SampleFlushers, batch'[g] # {} PROVE at'[g] = "insert"
    <3>1. at[g] = "insert"
      BY <1>2, <2>2 DEF IInv, Control
    <3> QED
      BY <1>1, <3>1, Different DEF Handling, InStats
  <2>3. /\ at'[Signal] \in AfterReader => at'[Reader] = "ended"
        /\ at'[Signal] \in AfterLoops => at'[SampleLoop] = "ended"
        /\ at'[Signal] \in AfterTake => buffer' = {}
        /\ ~storeOpen' => at'[Signal] = "stopAgain"
    BY <1>1, <1>2 DEF IInv, Control, AfterReader, AfterLoops, AfterTake, InStats, Handling
  <2> QED
    BY <2>1, <2>2, <2>3 DEF Control
<1>5. OnePlace'
  BY <1>2 DEF IInv, OnePlace
<1>6. Bounded'
  <2>1. at'[Reader] = "take" <=> at[Reader] = "take"
    BY <1>1 DEF Handling
  <2> QED
    BY <1>2, <2>1 DEF IInv, Bounded, BufferBounded
<1> QED
  BY <1>3, <1>4, <1>5, <1>6 DEF IInv

\* The steps of the statistics, of Run and of the requests that create a poller.
StatisticsStep ==
  \/ ReaderGet \/ CountTotal \/ CountOutcome \/ CountTimeout \/ MarkDirty
  \/ \E g \in StatsFlushers : StatsStep(g)
  \/ LoopExit(StatsLoop)
  \/ \E k \in Keys : CreatePoller(k)
  \/ Listen

LEMMA StatisticsIsQuiet ==
  ASSUME IInv, StatisticsStep
  PROVE  Quiet /\ UNCHANGED <<refused, proc, starts>>
<1> result \in [sample : Samples \cup {None}, outcome : Outcomes \cup {None}, rec : Recs \cup {None}]
  BY DEF IInv, Types
<1>0. result \in [sample : {result.sample}, outcome : Outcomes \cup {None}, rec : Recs \cup {None}]
  OBVIOUS
<1>1. CASE ReaderGet
  <2>1. PICK r \in Recs : result' = [result EXCEPT !.rec = r]
    BY <1>1 DEF ReaderGet
  <2>2. result' \in [sample : {result.sample}, outcome : Outcomes \cup {None}, rec : Recs \cup {None}]
    BY <2>1
  <2>3. at[Reader] \in Handling /\ "total" \in Handling /\ Goto(Reader, "total")
    BY <1>1 DEF ReaderGet, At, Handling
  <2> QED
    BY <1>1, <2>2, <2>3 DEF ReaderGet, Quiet, sampleVars, stopVars
<1>2. ASSUME NEW step, NEW field, NEW next, Count(step, field, next),
             step \in Handling, next \in Handling
      PROVE  Quiet /\ UNCHANGED <<refused, proc, starts>>
  BY <1>0, <1>2 DEF Count, At, Quiet, sampleVars, stopVars
<1>3. CASE CountTotal \/ CountOutcome \/ CountTimeout \/ MarkDirty
  BY <1>2, <1>3 DEF CountTotal, CountOutcome, CountTimeout, MarkDirty, Handling
<1>4. ASSUME NEW g \in StatsFlushers, StatsStep(g)
      PROVE  Quiet /\ UNCHANGED <<refused, proc, starts>>
  <2>1. UNCHANGED <<fresh, buffer, batch, rows, storeOpen, result, refused, proc, starts>>
    BY <1>4 DEF StatsStep, GetDirty, LoadTotal, LoadSuccess, LoadFailed, LoadTimeout, UpdateStats,
                UpdateStatsFails, ClearDirty, sampleVars, stopVars
  <2>2. PICK y \in {"load", "loadSuccess", "loadFailed", "loadTimeout", "update", "clear",
                    AfterStats(g)} : Goto(g, y)
    BY <1>4 DEF StatsStep, GetDirty, LoadTotal, LoadSuccess, LoadFailed, LoadTimeout, UpdateStats,
                UpdateStatsFails, ClearDirty
  <2>3. g = Signal => at[g] \in InStats
    BY <1>4 DEF StatsStep, GetDirty, LoadTotal, LoadSuccess, LoadFailed, LoadTimeout, UpdateStats,
                UpdateStatsFails, ClearDirty, At, InStats
  <2>4. CASE g = Signal
    <3>1. y \in InStats \cup {"take"} /\ at[Signal] \in InStats /\ Goto(Signal, y)
      BY <2>2, <2>3, <2>4 DEF AfterStats, InStats
    <3> QED
      BY <1>0, <2>1, <3>1 DEF Quiet
  <2>5. CASE g = StatsLoop
    <3>1. y \in Places /\ Goto(StatsLoop, y)
      BY <2>2, <2>5, Different DEF AfterStats, Places
    <3> QED
      BY <1>0, <2>1, <3>1 DEF Quiet
  <2> QED
    BY <2>4, <2>5, Different
<1>5. CASE LoopExit(StatsLoop)
  BY <1>0, <1>5 DEF LoopExit, Quiet, Places, sampleVars, stopVars
<1>6. ASSUME NEW k \in Keys, CreatePoller(k)
      PROVE  Quiet /\ UNCHANGED <<refused, proc, starts>>
  BY <1>0, <1>6 DEF CreatePoller, Quiet, sampleVars, stopVars
<1>7. CASE Listen
  BY <1>0, <1>7 DEF Listen, Quiet, Places, sampleVars, stopVars
<1> QED
  BY <1>1, <1>3, <1>4, <1>5, <1>6, <1>7 DEF StatisticsStep

-----------------------------------------------------------------------------
(* Steps that move samples. *)

LEMMA ReceiveKeeps ==
  ASSUME IInv, NEW s \in Samples, NEW o \in Outcomes, Receive(s, o)
  PROVE  IInv'
<1>1. /\ at[Reader] = "idle" /\ s \in fresh /\ fresh' = fresh \ {s}
      /\ result' = [sample |-> s, outcome |-> o, rec |-> None]
      /\ UNCHANGED <<buffer, batch, rows, storeOpen>>
  BY DEF Receive, At, stopVars
<1>2. /\ at' \in [Procs -> Places] /\ at'[Reader] = "get"
      /\ \A h \in Procs : h # Reader => at'[h] = at[h]
  BY Moved, Different DEF Receive, IInv, Types, Places
<1>3. result'.sample = s /\ s # None /\ result.sample = None
  BY <1>1 DEF IInv, Control, Handling
<1>4. Types'
  BY <1>1, <1>2 DEF IInv, Types
<1>5. Control'
  BY <1>1, <1>2, <1>3, Different
     DEF IInv, Control, Handling, AfterReader, AfterLoops, AfterTake, InStats
<1>6. OnePlace'
  BY <1>1, <1>3 DEF IInv, OnePlace
<1>7. Bounded'
  BY <1>1, <1>2 DEF IInv, Bounded, BufferBounded
<1> QED
  BY <1>4, <1>5, <1>6, <1>7 DEF IInv

LEMMA AddSampleKeeps ==
  ASSUME IInv, AddSample
  PROVE  IInv'
<1>1. /\ at[Reader] = "append" /\ buffer' = buffer \cup {result.sample}
      /\ result' = NoResult
      /\ UNCHANGED <<fresh, batch, rows, storeOpen>>
  BY DEF AddSample, At, stopVars
<1>2. /\ at' \in [Procs -> Places]
      /\ at'[Reader] = IF Cardinality(buffer') >= BatchSize THEN "take" ELSE "idle"
      /\ \A h \in Procs : h # Reader => at'[h] = at[h]
  <2> DEFINE y == IF Cardinality(buffer') >= BatchSize THEN "take" ELSE "idle"
  <2>1. y \in Places
    BY DEF Places
  <2>2. Goto(Reader, y)
    BY DEF AddSample
  <2>3. Reader \in Procs /\ at \in [Procs -> Places]
    BY Different DEF IInv, Types
  <2> HIDE DEF y
  <2>4. /\ at' \in [Procs -> Places] /\ at'[Reader] = y
        /\ \A h \in Procs : h # Reader => at'[h] = at[h]
    BY <2>1, <2>2, <2>3, Moved
  <2> QED
    BY <2>4 DEF y
<1>3. result'.sample = None /\ result.sample \in Samples
  BY <1>1 DEF IInv, Control, Types, Handling, NoResult
<1>4. Types'
  BY <1>1, <1>2, <1>3 DEF IInv, Types, NoResult
<1>5. Control'
  BY <1>1, <1>2, <1>3, Different
     DEF IInv, Control, Handling, AfterReader, AfterLoops, AfterTake, InStats
<1>6. OnePlace'
  BY <1>1, <1>3 DEF IInv, OnePlace, Types
<1>7. Bounded'
  <2>1. IsFiniteSet(buffer) /\ Cardinality(buffer) < BatchSize
    BY <1>1 DEF IInv, Bounded, BufferBounded
  <2>2. /\ IsFiniteSet(buffer') /\ Cardinality(buffer) \in Nat /\ Cardinality(buffer') \in Nat
        /\ Cardinality(buffer') <= Cardinality(buffer) + 1
    <3>1. IsFiniteSet(buffer \cup {result.sample})
      BY <2>1, FS_AddElement
    <3>2. Cardinality(buffer \cup {result.sample}) =
            IF result.sample \in buffer THEN Cardinality(buffer) ELSE Cardinality(buffer) + 1
      BY <2>1, FS_AddElement
    <3>3. Cardinality(buffer) \in Nat
      BY <2>1, FS_CardinalityType
    <3> QED
      BY <1>1, <3>1, <3>2, <3>3
  <2> QED
    BY <1>2, <2>1, <2>2 DEF Bounded, BufferBounded
<1> QED
  BY <1>4, <1>5, <1>6, <1>7 DEF IInv

LEMMA TakeKeeps ==
  ASSUME IInv, NEW g \in SampleFlushers, Take(g)
  PROVE  IInv'
<1>1. /\ at[g] = IF g = SampleLoop THEN "idle" ELSE "take"
      /\ batch' = [batch EXCEPT ![g] = buffer] /\ buffer' = {}
      /\ UNCHANGED <<fresh, rows, result, storeOpen>>
  BY DEF Take, CallsFlush, At, stopVars
<1>2. /\ at' \in [Procs -> Places]
      /\ at'[g] = IF buffer = {} THEN AfterSamples(g) ELSE "insert"
      /\ \A h \in Procs : h # g => at'[h] = at[h]
  <2> DEFINE y == IF buffer = {} THEN AfterSamples(g) ELSE "insert"
  <2>1. y \in Places
    BY DEF Places, AfterSamples
  <2>2. Goto(g, y)
    BY DEF Take
  <2>3. g \in Procs /\ at \in [Procs -> Places]
    BY Different DEF IInv, Types
  <2> HIDE DEF y
  <2>4. /\ at' \in [Procs -> Places] /\ at'[g] = y
        /\ \A h \in Procs : h # g => at'[h] = at[h]
    BY <2>1, <2>2, <2>3, Moved
  <2> QED
    BY <2>4 DEF y
<1>3. /\ batch' \in [SampleFlushers -> SUBSET Samples] /\ batch'[g] = buffer
      /\ \A h \in SampleFlushers : h # g => batch'[h] = batch[h]
  BY <1>1 DEF IInv, Types
<1>4. Types'
  BY <1>1, <1>2, <1>3 DEF IInv, Types
<1>5. Control'
  <2>1. result'.sample # None <=> at'[Reader] \in Handling
    BY <1>1, <1>2, Different DEF IInv, Control, Handling, AfterSamples
  <2>2. \A h \in SampleFlushers : batch'[h] # {} => at'[h] = "insert"
    BY <1>2, <1>3, Different DEF IInv, Control
  <2>3. /\ at'[Signal] \in AfterReader => at'[Reader] = "ended"
        /\ at'[Signal] \in AfterLoops => at'[SampleLoop] = "ended"
        /\ at'[Signal] \in AfterTake => buffer' = {}
        /\ ~storeOpen' => at'[Signal] = "stopAgain"
    BY <1>1, <1>2, Different
       DEF IInv, Control, AfterReader, AfterLoops, AfterTake, InStats, AfterSamples
  <2> QED
    BY <2>1, <2>2, <2>3 DEF Control
<1>6. OnePlace'
  BY <1>1, <1>3 DEF IInv, OnePlace
<1>7. Bounded'
  BY <1>1, FS_EmptySet DEF Bounded, BufferBounded
<1> QED
  BY <1>4, <1>5, <1>6, <1>7 DEF IInv

\* The end of flushSamples, with or without an error.
LEMMA InsertKeeps ==
  ASSUME IInv, NEW g \in SampleFlushers, Insert(g) \/ InsertFails(g)
  PROVE  /\ IInv'
         /\ Insert(g) \/ StoreMayFail
<1>1. /\ at[g] = "insert" /\ batch' = [batch EXCEPT ![g] = {}] /\ Goto(g, AfterSamples(g))
      /\ UNCHANGED <<fresh, buffer, result, storeOpen>>
  BY DEF Insert, InsertFails, At, stopVars
<1>2. /\ at' \in [Procs -> Places] /\ at'[g] = AfterSamples(g)
      /\ \A h \in Procs : h # g => at'[h] = at[h]
  <2>1. g \in Procs /\ at \in [Procs -> Places] /\ AfterSamples(g) \in Places
    BY Different DEF IInv, Types, AfterSamples, Places
  <2> QED
    BY <1>1, <2>1, Moved
<1>3. /\ batch' \in [SampleFlushers -> SUBSET Samples] /\ batch'[g] = {}
      /\ \A h \in SampleFlushers : h # g => batch'[h] = batch[h]
  BY <1>1 DEF IInv, Types
<1>4. /\ rows' \in [Samples -> Nat]
      /\ \A s \in Samples : s \notin batch[g] => rows'[s] = rows[s]
      /\ \A s \in Samples : s \in batch[g] => rows'[s] <= 1
  <2>1. CASE Insert(g)
    BY <2>1 DEF Insert, IInv, Types, OnePlace
  <2>2. CASE InsertFails(g)
    BY <2>2 DEF InsertFails, IInv, Types, OnePlace
  <2> QED
    BY <2>1, <2>2
<1>5. Types'
  BY <1>1, <1>2, <1>3, <1>4 DEF IInv, Types
<1>6. Control'
  <2>1. result'.sample # None <=> at'[Reader] \in Handling
    BY <1>1, <1>2, Different DEF IInv, Control, Handling, AfterSamples
  <2>2. \A h \in SampleFlushers : batch'[h] # {} => at'[h] = "insert"
    BY <1>2, <1>3, Different DEF IInv, Control
  <2>3. /\ at'[Signal] \in AfterReader => at'[Reader] = "ended"
        /\ at'[Signal] \in AfterLoops => at'[SampleLoop] = "ended"
        /\ at'[Signal] \in AfterTake => buffer' = {}
        /\ ~storeOpen' => at'[Signal] = "stopAgain"
    BY <1>1, <1>2, Different
       DEF IInv, Control, AfterReader, AfterLoops, AfterTake, InStats, AfterSamples
  <2> QED
    BY <2>1, <2>2, <2>3 DEF Control
<1>7. OnePlace'
  <2>1. /\ \A s \in fresh : s \in Samples /\ s \notin batch[g]
        /\ \A s \in buffer : s \in Samples /\ s \notin batch[g]
        /\ \A h \in SampleFlushers : h # g => \A s \in batch[h] : s \in Samples /\ s \notin batch[g]
        /\ result.sample # None => result.sample \in Samples /\ result.sample \notin batch[g]
    BY DEF IInv, Types, OnePlace
  <2>2. \A s \in Samples : rows'[s] <= 1
    BY <1>4 DEF IInv, OnePlace
  <2> QED
    BY <1>1, <1>3, <1>4, <2>1, <2>2 DEF IInv, OnePlace
<1>8. Bounded'
  BY <1>1, <1>2, Different DEF IInv, Bounded, BufferBounded, AfterSamples
<1>9. Insert(g) \/ StoreMayFail
  BY <1>1, Different
     DEF InsertFails, IInv, Control, AfterReader, AfterLoops, AfterTake
<1> QED
  BY <1>5, <1>6, <1>7, <1>8, <1>9 DEF IInv

LEMMA DeletePollerKeeps ==
  ASSUME IInv, NEW k \in Keys, DeletePoller(k)
  PROVE  IInv'
<1>1. UNCHANGED <<fresh, buffer, batch, result, at, storeOpen>>
  BY DEF DeletePoller, stopVars
<1>2. /\ rows' \in [Samples -> Nat]
      /\ \A s \in Samples : rows'[s] = rows[s] \/ rows'[s] = 0
  BY DEF DeletePoller, IInv, Types
<1>3. Types'
  BY <1>1, <1>2 DEF IInv, Types
<1>4. Control'
  BY <1>1 DEF IInv, Control
<1>5. OnePlace'
  BY <1>1, <1>2 DEF IInv, OnePlace, Types
<1>6. Bounded'
  BY <1>1 DEF IInv, Bounded, BufferBounded
<1> QED
  BY <1>3, <1>4, <1>5, <1>6 DEF IInv

LEMMA RestartKeeps ==
  ASSUME IInv, Restart
  PROVE  IInv'
<1>1. /\ result' = NoResult /\ buffer' = {} /\ batch' = [g \in SampleFlushers |-> {}]
      /\ at' = StartOf /\ storeOpen' = TRUE /\ UNCHANGED <<fresh, rows>>
  BY DEF Restart
<1>2. /\ at' \in [Procs -> Places]
      /\ at'[Reader] = "idle" /\ at'[Signal] = "wait"
  BY <1>1 DEF StartOf, Procs, Reader, StatsLoop, SampleLoop, Signal, Main, Places
<1>3. result'.sample = None /\ \A g \in SampleFlushers : batch'[g] = {}
  BY <1>1 DEF NoResult
<1>4. Types'
  BY <1>1, <1>2 DEF IInv, Types, NoResult
<1>5. Control'
  BY <1>1, <1>2, <1>3
     DEF Control, Handling, AfterReader, AfterLoops, AfterTake, InStats
<1>6. OnePlace'
  BY <1>1, <1>3 DEF IInv, OnePlace, Types
<1>7. Bounded'
  BY <1>1, FS_EmptySet DEF Bounded, BufferBounded
<1> QED
  BY <1>4, <1>5, <1>6, <1>7 DEF IInv

-----------------------------------------------------------------------------
(* The order of the shutdown. *)

\* The steps of the goroutine of main and the exits of those it waits for.
OrderStep ==
  ReaderExit \/ LoopExit(SampleLoop) \/ SignalArrives \/ StopSync \/ LoopsStopped \/ CloseStore

LEMMA OrderKeeps ==
  ASSUME IInv, OrderStep
  PROVE  /\ IInv'
         /\ UNCHANGED <<fresh, result, buffer, batch, rows, refused, proc, starts>>
<1>1. UNCHANGED <<fresh, result, buffer, batch, rows, refused, proc, starts>>
  BY DEF OrderStep, ReaderExit, LoopExit, SignalArrives, StopSync, LoopsStopped, CloseStore,
         sampleVars
<1> at \in [Procs -> Places]
  BY DEF IInv, Types
<1>2. ASSUME NEW g \in SampleFlushers, NEW y \in Places, Goto(g, y),
             at[g] # "insert", g = Reader => at[g] \notin Handling \cup {"take"} /\ y \notin Handling \cup {"take"},
             at'[Signal] \in AfterReader => at'[Reader] = "ended",
             at'[Signal] \in AfterLoops => at'[SampleLoop] = "ended",
             at'[Signal] \in AfterTake => buffer' = {},
             ~storeOpen' => at'[Signal] = "stopAgain"
      PROVE  IInv'
  <2>1. /\ at' \in [Procs -> Places] /\ at'[g] = y
        /\ \A h \in Procs : h # g => at'[h] = at[h]
    BY <1>2, Moved, Different
  <2>2. Types'
    BY <1>1, <2>1 DEF IInv, Types
  <2>3. Control'
    BY <1>1, <1>2, <2>1, Different DEF IInv, Control
  <2>4. OnePlace'
    BY <1>1 DEF IInv, OnePlace
  <2>5. Bounded'
    BY <1>1, <1>2, <2>1, Different DEF IInv, Bounded, BufferBounded
  <2> QED
    BY <2>2, <2>3, <2>4, <2>5 DEF IInv
<1>3. CASE ReaderExit
  <2>1. at[Reader] = "idle" /\ Goto(Reader, "ended") /\ UNCHANGED storeOpen
    BY <1>3 DEF ReaderExit, At, stopVars
  <2>2. "ended" \in Places /\ Reader \in SampleFlushers
    BY Different DEF Places
  <2>3. /\ at'[Reader] = "ended" /\ at'[SampleLoop] = at[SampleLoop] /\ at'[Signal] = at[Signal]
    BY <2>1, <2>2, Moved, Different
  <2>4. /\ at'[Signal] \in AfterReader => at'[Reader] = "ended"
        /\ at'[Signal] \in AfterLoops => at'[SampleLoop] = "ended"
        /\ at'[Signal] \in AfterTake => buffer' = {}
        /\ ~storeOpen' => at'[Signal] = "stopAgain"
    BY <1>1, <2>1, <2>3 DEF IInv, Control
  <2>5. at[Reader] \notin Handling \cup {"take"} /\ "ended" \notin Handling \cup {"take"}
    BY <2>1 DEF Handling
  <2> QED
    BY <1>1, <1>2, <2>1, <2>2, <2>4, <2>5
<1>4. CASE LoopExit(SampleLoop)
  <2>1. at[SampleLoop] = "idle" /\ Goto(SampleLoop, "ended") /\ UNCHANGED storeOpen
    BY <1>4 DEF LoopExit, At, stopVars
  <2>2. "ended" \in Places /\ SampleLoop \in SampleFlushers
    BY Different DEF Places
  <2>3. /\ at'[Reader] = at[Reader] /\ at'[SampleLoop] = "ended" /\ at'[Signal] = at[Signal]
    BY <2>1, <2>2, Moved, Different
  <2>4. /\ at'[Signal] \in AfterReader => at'[Reader] = "ended"
        /\ at'[Signal] \in AfterLoops => at'[SampleLoop] = "ended"
        /\ at'[Signal] \in AfterTake => buffer' = {}
        /\ ~storeOpen' => at'[Signal] = "stopAgain"
    BY <1>1, <2>1, <2>3 DEF IInv, Control
  <2> QED
    BY <1>1, <1>2, <2>1, <2>2, <2>4, Different
<1>5. CASE SignalArrives \/ StopSync \/ LoopsStopped \/ CloseStore
  <2>1. PICK y \in {"stopScheduler", "stopLoops", "flush", "stopAgain"} :
          /\ Goto(Signal, y)
          /\ at[Signal] \in {"wait", "stopScheduler", "stopLoops", "closeStore"}
          /\ y \in {"stopLoops", "flush"} => at[Reader] = "ended"
          /\ y = "flush" => at[SampleLoop] = "ended"
          /\ y = "stopAgain" => at[Signal] = "closeStore"
          /\ storeOpen' = storeOpen \/ y = "stopAgain"
    <3>1. CASE SignalArrives
      BY <3>1 DEF SignalArrives, At
    <3>2. CASE StopSync
      BY <3>2 DEF StopSync, At
    <3>3. CASE LoopsStopped
      BY <3>3 DEF LoopsStopped, At, stopVars, IInv, Control, AfterReader, Loops
    <3>4. CASE CloseStore
      BY <3>4 DEF CloseStore, At
    <3> QED
      BY <1>5, <3>1, <3>2, <3>3, <3>4
  <2>2. y \in Places /\ Signal \in SampleFlushers
    BY <2>1, Different DEF Places
  <2>3. /\ at'[Reader] = at[Reader] /\ at'[SampleLoop] = at[SampleLoop] /\ at'[Signal] = y
    BY <2>1, <2>2, Moved, Different
  <2>4. /\ at'[Signal] \in AfterReader => at'[Reader] = "ended"
        /\ at'[Signal] \in AfterLoops => at'[SampleLoop] = "ended"
        /\ at'[Signal] \in AfterTake => buffer' = {}
        /\ ~storeOpen' => at'[Signal] = "stopAgain"
    BY <1>1, <2>1, <2>3 DEF IInv, Control, AfterReader, AfterLoops, AfterTake, InStats
  <2> QED
    BY <1>1, <1>2, <2>1, <2>2, <2>4, Different
<1> QED
  BY <1>1, <1>3, <1>4, <1>5 DEF OrderStep

-----------------------------------------------------------------------------
\* The steps that end the process, and its stuttering afterwards.
LEMMA EndKeeps ==
  ASSUME IInv, StopAgain \/ RunReturns \/ Over
  PROVE  IInv'
<1>1. UNCHANGED <<fresh, result, buffer, batch, rows, at, storeOpen>>
  BY DEF StopAgain, RunReturns, Over, vars, sampleVars, stopVars
<1> QED
  BY <1>1 DEF IInv, Types, Control, OnePlace, Bounded, BufferBounded

\* Every step is of one of these kinds.
LEMMA Kinds ==
  ASSUME Next
  PROVE  \/ \E s \in Samples, o \in Outcomes : Receive(s, o)
         \/ AddSample
         \/ \E g \in SampleFlushers : Take(g)
         \/ \E g \in SampleFlushers : Insert(g) \/ InsertFails(g)
         \/ \E k \in Keys : DeletePoller(k)
         \/ StatisticsStep
         \/ OrderStep
         \/ StopAgain \/ RunReturns \/ Over
         \/ Restart
  BY DEF Next, ReaderStep, SampleStep, StopStep, StatisticsStep, OrderStep, Loops

LEMMA NextKeeps ==
  ASSUME IInv, [Next]_vars
  PROVE  IInv'
<1>1. CASE Next
  BY <1>1, Kinds, ReceiveKeeps, AddSampleKeeps, TakeKeeps, InsertKeeps, DeletePollerKeeps,
     StatisticsIsQuiet, QuietKeeps, OrderKeeps, EndKeeps, RestartKeeps
<1>2. CASE UNCHANGED vars
  BY <1>2 DEF vars, sampleVars, stopVars, IInv, Types, Control, OnePlace, Bounded, BufferBounded
<1> QED
  BY <1>1, <1>2

LEMMA InitHolds == Init => IInv
<1> SUFFICES ASSUME Init PROVE IInv
  OBVIOUS
<1>1. /\ result = NoResult /\ buffer = {} /\ batch = [g \in SampleFlushers |-> {}]
      /\ at = StartOf /\ storeOpen = TRUE /\ fresh = Samples /\ rows = [s \in Samples |-> 0]
  BY DEF Init
<1>2. /\ at \in [Procs -> Places]
      /\ at[Reader] = "idle" /\ at[Signal] = "wait"
  BY <1>1 DEF StartOf, Procs, Reader, StatsLoop, SampleLoop, Signal, Main, Places
<1>3. result.sample = None /\ \A g \in SampleFlushers : batch[g] = {}
  BY <1>1 DEF NoResult
<1>4. Types
  BY <1>1, <1>2 DEF Types, NoResult
<1>5. Control
  BY <1>1, <1>2, <1>3
     DEF Control, Handling, AfterReader, AfterLoops, AfterTake, InStats
<1>6. OnePlace
  BY <1>1, <1>3 DEF OnePlace
<1>7. Bounded
  BY <1>1, FS_EmptySet DEF Bounded, BufferBounded
<1> QED
  BY <1>4, <1>5, <1>6, <1>7 DEF IInv

LEMMA Inductive == Spec => []IInv
  BY InitHolds, NextKeeps, PTL DEF Spec

-----------------------------------------------------------------------------
(* What follows. *)

\* A sample is stored at most once: not by two of the goroutines that flush, nor
\* again after a failed transaction, a deletion of its poller or a restart.
THEOREM StoredOnceHolds == Spec => []StoredOnce
<1>1. IInv => StoredOnce
  BY DEF IInv, OnePlace, StoredOnce
<1> QED
  BY <1>1, Inductive, PTL

\* The buffer holds at most one batch, and a full one only while processResults is
\* about to flush it.
THEOREM BufferBoundedHolds == Spec => []BufferBounded
<1>1. IInv => BufferBounded
  BY DEF IInv, Bounded
<1> QED
  BY <1>1, Inductive, PTL

\* Nothing that holds samples is left when the store is closed.
LEMMA NothingLeft ==
  ASSUME IInv, ~storeOpen
  PROVE  Pending = {}
<1>1. at[Signal] = "stopAgain" /\ at[Reader] = "ended" /\ at[SampleLoop] = "ended" /\ buffer = {}
  BY DEF IInv, Control, AfterReader, AfterLoops, AfterTake
<1>2. result.sample = None
  BY <1>1 DEF IInv, Control, Handling
<1>3. \A g \in SampleFlushers : batch[g] = {}
  BY <1>1, Different DEF IInv, Control
<1>4. UNION {batch[g] : g \in SampleFlushers} = {}
  BY <1>3
<1> QED
  BY <1>1, <1>2, <1>4 DEF Pending

\* The order of Shutdown and Manager.Stop leaves no accepted sample in memory when
\* the store is closed.
THEOREM FlushedBeforeCloseHolds == Spec => []FlushedBeforeClose
<1>1. IInv => FlushedBeforeClose
  BY NothingLeft DEF FlushedBeforeClose
<1> QED
  BY <1>1, Inductive, PTL

-----------------------------------------------------------------------------
(* The refinement. *)

Up == IF proc = "up" THEN Pending ELSE {}
Logged == {s \in Samples : rows[s] > 0}
\* A step of the abstract log, or none.
LogStep == Log!Next \/ UNCHANGED <<fresh, Up, Logged, refused, proc, starts>>

\* Membership in a union of batches.
LEMMA InSomeBatch ==
  ASSUME NEW b, NEW s
  PROVE  s \in UNION {b[g] : g \in SampleFlushers} <=> \E g \in SampleFlushers : s \in b[g]
  OBVIOUS

\* Membership in Pending, before and after a step.
LEMMA PendingDef ==
  ASSUME NEW s
  PROVE  s \in Pending <=> \/ s \in buffer
                           \/ \E g \in SampleFlushers : s \in batch[g]
                           \/ result.sample # None /\ s = result.sample
<1>1. s \in UNION {batch[g] : g \in SampleFlushers} <=> \E g \in SampleFlushers : s \in batch[g]
  BY InSomeBatch
<1> DEFINE some == UNION {batch[g] : g \in SampleFlushers}
           hand == IF result.sample = None THEN {} ELSE {result.sample}
<1>2. Pending = buffer \cup some \cup hand
  BY DEF Pending
<1>3. s \in hand <=> result.sample # None /\ s = result.sample
  OBVIOUS
<1>4. s \in some <=> \E g \in SampleFlushers : s \in batch[g]
  BY <1>1
<1> HIDE DEF some, hand
<1> QED
  BY <1>2, <1>3, <1>4

LEMMA PendingDefNext ==
  ASSUME NEW s
  PROVE  s \in Pending' <=> \/ s \in buffer'
                            \/ \E g \in SampleFlushers : s \in batch'[g]
                            \/ result'.sample # None /\ s = result'.sample
<1>1. s \in UNION {batch'[g] : g \in SampleFlushers} <=> \E g \in SampleFlushers : s \in batch'[g]
  BY InSomeBatch
<1> DEFINE some == UNION {batch'[g] : g \in SampleFlushers}
           hand == IF result'.sample = None THEN {} ELSE {result'.sample}
<1>2. Pending' = buffer' \cup some \cup hand
  BY DEF Pending
<1>3. s \in hand <=> result'.sample # None /\ s = result'.sample
  OBVIOUS
<1>4. s \in some <=> \E g \in SampleFlushers : s \in batch'[g]
  BY <1>1
<1> HIDE DEF some, hand
<1> QED
  BY <1>2, <1>3, <1>4

LEMMA ReceiveAccepts ==
  ASSUME IInv, NEW s \in Samples, NEW o \in Outcomes, Receive(s, o)
  PROVE  Log!Next
<1>1. /\ proc = "up" /\ proc' = "up" /\ at[Reader] = "idle" /\ s \in fresh /\ fresh' = fresh \ {s}
      /\ result' = [sample |-> s, outcome |-> o, rec |-> None]
      /\ UNCHANGED <<buffer, batch, rows, refused, starts>>
  BY DEF Receive, At
<1>2. result'.sample = s /\ s # None /\ result.sample = None
  BY <1>1 DEF IInv, Control, Handling
<1>3. \A x : x \in Pending' <=> x \in Pending \/ x = s
  BY <1>1, <1>2, PendingDef, PendingDefNext
<1>4. Log!Accept(s)
  BY <1>1, <1>3 DEF Log!Accept
<1> QED
  BY <1>1, <1>4 DEF Log!Next

LEMMA AddSampleStutters ==
  ASSUME IInv, AddSample
  PROVE  UNCHANGED <<fresh, Up, Logged, refused, proc, starts>>
<1>1. /\ proc' = proc /\ at[Reader] = "append" /\ buffer' = buffer \cup {result.sample}
      /\ result' = NoResult /\ UNCHANGED <<fresh, batch, rows, refused, starts>>
  BY DEF AddSample, At
<1>2. result'.sample = None /\ result.sample # None
  BY <1>1 DEF IInv, Control, Handling, NoResult
<1>3. \A x : x \in Pending' <=> x \in Pending
  BY <1>1, <1>2, PendingDef, PendingDefNext
<1>4. Pending' = Pending
  BY <1>3
<1> QED
  BY <1>1, <1>4 DEF Up, Logged

LEMMA TakeStutters ==
  ASSUME IInv, NEW g \in SampleFlushers, Take(g)
  PROVE  UNCHANGED <<fresh, Up, Logged, refused, proc, starts>>
<1>1. /\ proc' = proc /\ at[g] # "insert"
      /\ batch' = [batch EXCEPT ![g] = buffer] /\ buffer' = {}
      /\ UNCHANGED <<fresh, rows, refused, result, starts>>
  BY DEF Take, CallsFlush, At
<1>2. /\ batch[g] = {} /\ batch'[g] = buffer
      /\ \A h \in SampleFlushers : h # g => batch'[h] = batch[h]
  BY <1>1 DEF IInv, Control, Types
<1>3. \A x : x \in Pending' <=> x \in Pending
  BY <1>1, <1>2, PendingDef, PendingDefNext
<1>4. Pending' = Pending
  BY <1>3
<1> QED
  BY <1>1, <1>4 DEF Up, Logged

LEMMA InsertCommits ==
  ASSUME IInv, NEW g \in SampleFlushers, Insert(g) \/ InsertFails(g)
  PROVE  Log!Next
<1>1. /\ proc = "up" /\ proc' = "up" /\ batch' = [batch EXCEPT ![g] = {}]
      /\ UNCHANGED <<fresh, buffer, result, starts>>
  BY DEF Insert, InsertFails, At
<1>2. /\ batch'[g] = {} /\ batch[g] \subseteq Samples
      /\ \A h \in SampleFlushers : h # g => batch'[h] = batch[h]
  BY <1>1 DEF IInv, Types
<1>3. \A x : x \in batch[g] => /\ x \notin buffer /\ x # result.sample
                               /\ \A h \in SampleFlushers : h # g => x \notin batch[h]
  BY DEF IInv, OnePlace
<1>4. \A x : x \in Pending' <=> x \in Pending /\ x \notin batch[g]
  BY <1>1, <1>2, <1>3, PendingDef, PendingDefNext
<1>5. Pending' = Pending \ batch[g] /\ batch[g] \subseteq Pending
  BY <1>4, PendingDef
<1>6. CASE Insert(g)
  <2>1. /\ rows' = [s \in Samples |-> IF s \in batch[g] THEN rows[s] + 1 ELSE rows[s]]
        /\ refused' = refused
    BY <1>6 DEF Insert
  <2>2. \A s \in Samples : rows'[s] > 0 <=> s \in batch[g] \/ rows[s] > 0
    BY <2>1 DEF IInv, Types
  <2>3. {s \in Samples : rows'[s] > 0} = {s \in Samples : rows[s] > 0} \cup batch[g]
    BY <1>2, <2>2
  <2>4. PICK b : b = batch[g]
    OBVIOUS
  <2>5. Log!Commit(b)
    BY <1>1, <1>5, <2>1, <2>3, <2>4 DEF Log!Commit
  <2>6. b \in SUBSET (IF proc = "up" THEN Pending ELSE {})
    BY <1>1, <1>5, <2>4
  <2> QED
    BY <2>5, <2>6, Zenon DEF Log!Next
<1>7. CASE ~Insert(g)
  <2>1. StoreMayFail /\ rows' = rows /\ refused' = refused \cup batch[g]
    BY <1>7, InsertKeeps DEF InsertFails
  <2>2. PICK b : b = batch[g]
    OBVIOUS
  <2>3. Log!Refuse(b)
    BY <1>1, <1>5, <2>1, <2>2 DEF Log!Refuse
  <2>4. b \in SUBSET (IF proc = "up" THEN Pending ELSE {})
    BY <1>1, <1>5, <2>2
  <2> QED
    BY <2>3, <2>4, Zenon DEF Log!Next
<1> QED
  BY <1>6, <1>7

LEMMA DeletePollerErases ==
  ASSUME IInv, NEW k \in Keys, DeletePoller(k)
  PROVE  Log!Next
<1>1. proc = "up" /\ UNCHANGED <<fresh, buffer, batch, result, refused, proc, starts>>
  BY DEF DeletePoller
<1>2. Pending' = Pending
  BY <1>1 DEF Pending
<1>3. \A s \in Samples : rows'[s] > 0 <=> rows[s] > 0 /\ KeyOf[s] # k
  BY DEF DeletePoller, IInv, Types
<1>4. {s \in Samples : rows'[s] > 0} = {s \in {s \in Samples : rows[s] > 0} : KeyOf[s] # k}
  BY <1>3
<1>5. Log!Erase(k)
  BY <1>1, <1>2, <1>4 DEF Log!Erase
<1> QED
  BY <1>5 DEF Log!Next

LEMMA EndEnds ==
  ASSUME IInv, StopAgain \/ RunReturns \/ Restart
  PROVE  Log!Next
<1>1. proc = "up" /\ UNCHANGED <<fresh, rows, refused>>
  BY DEF StopAgain, RunReturns, Restart, At, sampleVars
<1>2. CASE StopAgain \/ RunReturns
  <2>1. proc' # "up" /\ starts' = starts
    BY <1>2 DEF StopAgain, RunReturns
  <2>2. Log!Exit
    BY <1>1, <2>1 DEF Log!Exit
  <2> QED
    BY <2>2 DEF Log!Next
<1>3. CASE Restart
  <2>1. /\ buffer' = {} /\ result'.sample = None /\ proc' = proc /\ starts' = starts + 1
        /\ \A g \in SampleFlushers : batch'[g] = {}
    BY <1>3 DEF Restart, NoResult
  <2>2. Pending' = {}
    BY <2>1, PendingDefNext
  <2>3. Log!Crash
    BY <1>1, <2>1, <2>2 DEF Log!Crash
  <2> QED
    BY <2>3 DEF Log!Next
<1> QED
  BY <1>2, <1>3

LEMMA StepRefines ==
  ASSUME IInv, [Next]_vars
  PROVE  LogStep
<1>1. ASSUME UNCHANGED <<fresh, buffer, batch, rows, refused, proc, starts>>,
             result'.sample = result.sample
      PROVE  LogStep
  <2>1. Pending' = Pending
    BY <1>1 DEF Pending
  <2> QED
    BY <1>1, <2>1 DEF LogStep, Up, Logged
<1>2. CASE StatisticsStep
  BY <1>1, <1>2, StatisticsIsQuiet DEF Quiet
<1>3. CASE OrderStep
  BY <1>1, <1>3, OrderKeeps
<1>4. CASE Over \/ UNCHANGED vars
  BY <1>1, <1>4 DEF Over, vars, sampleVars
<1>5. CASE AddSample \/ \E g \in SampleFlushers : Take(g)
  BY <1>5, AddSampleStutters, TakeStutters DEF LogStep
<1>6. CASE \/ \E s \in Samples, o \in Outcomes : Receive(s, o)
           \/ \E g \in SampleFlushers : Insert(g) \/ InsertFails(g)
           \/ \E k \in Keys : DeletePoller(k)
           \/ StopAgain \/ RunReturns \/ Restart
  BY <1>6, ReceiveAccepts, InsertCommits, DeletePollerErases, EndEnds DEF LogStep
<1> QED
  BY <1>2, <1>3, <1>4, <1>5, <1>6, Kinds

\* The buffer, the batches of three goroutines, transactions that fail, deletions,
\* crashes and the shutdown implement the sample log: the detailed specification has
\* no behaviour the abstract one does not allow.
THEOREM ImplementsLogHolds == Spec => ImplementsLog
<1>1. Init => Log!Init
  <2> SUFFICES ASSUME Init PROVE Log!Init
    OBVIOUS
  <2>1. /\ buffer = {} /\ result.sample = None /\ fresh = Samples
        /\ refused = {} /\ proc = "up" /\ starts = 0
        /\ \A g \in SampleFlushers : batch[g] = {}
        /\ \A s \in Samples : rows[s] = 0
    BY DEF Init, NoResult
  <2>2. \A x : x \notin Pending
    BY <2>1, PendingDef
  <2>3. {s \in Samples : rows[s] > 0} = {}
    BY <2>1
  <2> QED
    BY <2>1, <2>2, <2>3 DEF Log!Init
<1>2. IInv /\ [Next]_vars => [Log!Next]_(Log!logVars)
  BY StepRefines DEF LogStep, Up, Logged, Log!logVars
<1> QED
  BY <1>1, <1>2, Inductive, PTL DEF Spec, ImplementsLog, Log!Spec
=============================================================================
