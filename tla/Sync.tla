-------------------------------- MODULE Sync --------------------------------
(***************************************************************************)
(* How poll results reach the store and how the process ends:              *)
(* Server.processResults and Manager.RecordPollResult, the statistics of   *)
(* internal/manager/stats.go, the sample buffer and the flush loops of     *)
(* internal/manager/sync.go, the signal handler of cmd/snmpproxyd/main.go  *)
(* with Server.Shutdown and Manager.Stop, and the return of Server.Run.    *)
(*                                                                         *)
(* The counters of a statistics record are atomics: each is changed and    *)
(* read in a step of its own.  Records are shared by pointer (Recs), so a  *)
(* goroutine may go on with the record of a poller that was deleted.       *)
(* Poll times (min, max, average) and the state records (Lifecycle.tla)    *)
(* are left out; so is the cleanup loop, which Shutdown also waits for.    *)
(***************************************************************************)
EXTENDS Naturals, FiniteSets

CONSTANTS
  Keys,          \* the poller keys
  Samples,       \* the poll results of the run, each with its sample
  KeyOf,         \* the poller a result belongs to
  Outcomes,      \* what a poll may report
  Recs,          \* the addresses of statistics records
  BatchSize,     \* SyncConfig.SampleBatchSize
  MaxStarts,     \* bound: restarts of the process
  Deletable,     \* the pollers that are deleted
  StoreMayFail,  \* a statement of the store may fail
  None

ASSUME SyncAssumption ==
  /\ KeyOf \in [Samples -> Keys]
  /\ Deletable \subseteq Keys
  /\ Outcomes \subseteq {"ok", "failed", "timeout"}
  /\ BatchSize \in Nat \ {0}
  /\ MaxStarts \in Nat
  /\ StoreMayFail \in BOOLEAN
  /\ None \notin Samples \cup Recs \cup Keys \cup Outcomes
                \cup [total : Nat, success : Nat, failed : Nat, timeout : Nat]

Reader == "reader"            \* processResults
StatsLoop == "statsLoop"      \* statsFlushLoop
SampleLoop == "sampleLoop"    \* sampleFlushLoop
Signal == "signal"            \* the goroutine of main that waits for a signal
Main == "main"                \* Server.Run
Procs == {Reader, StatsLoop, SampleLoop, Signal, Main}
Loops == {StatsLoop, SampleLoop}
StatsFlushers == {StatsLoop, Signal}
SampleFlushers == {Reader, SampleLoop, Signal}

VARIABLES
  fresh,      \* results that have not been received
  result,     \* the result processResults handles, with its statistics record
  buffer,     \* SyncManager.sampleBuffer
  batch,      \* flushSamples: the samples a goroutine took from the buffer
  rows,       \* the table samples: how many rows hold the sample
  refused,    \* history: samples of a batch whose INSERT failed
  stats,      \* StatsManager.stats: the record of a key, or None
  rec,        \* the statistics records
  flush,      \* flushStats: dirtyStats and storeStats of a goroutine
  statRow,    \* the table poller_stats: the counters of a key, or None
  at,         \* the next step of each goroutine
  listener,   \* Server.listener
  shutdown,   \* closed channels: Server.shutdown and SyncManager.shutdown
  storeOpen,  \* Manager.Stop has not closed the store
  proc,       \* of the process: up, or how it ended
  starts      \* history: restarts

sampleVars == <<fresh, buffer, batch, rows, refused>>
statVars == <<stats, rec, flush, statRow>>
stopVars == <<listener, shutdown, storeOpen>>
vars == <<sampleVars, result, statVars, at, stopVars, proc, starts>>

Counters == [total : Nat, success : Nat, failed : Nat, timeout : Nat]
Records ==
  [total : Nat, success : Nat, failed : Nat, timeout : Nat,
   key : Keys \cup {None}, dirty : BOOLEAN]
Zero == [total |-> 0, success |-> 0, failed |-> 0, timeout |-> 0]
NewPollerStats(k, c) ==
  [total |-> c.total, success |-> c.success, failed |-> c.failed,
   timeout |-> c.timeout, key |-> k, dirty |-> FALSE]
NoResult == [sample |-> None, outcome |-> None, rec |-> None]
\* dirtyStats is todo (to be read) with read (read, not yet cleared); cur is the
\* record being read into row; storeStats is saved.
NoFlush ==
  [todo |-> {}, read |-> {}, cur |-> None, row |-> Zero,
   saved |-> [k \in Keys |-> None]]

Pending ==
  buffer \cup (UNION {batch[g] : g \in SampleFlushers})
         \cup (IF result.sample = None THEN {} ELSE {result.sample})

TypeOK ==
  /\ fresh \subseteq Samples
  /\ result \in [sample : Samples \cup {None}, outcome : Outcomes \cup {None},
                 rec : Recs \cup {None}]
  /\ buffer \subseteq Samples
  /\ batch \in [SampleFlushers -> SUBSET Samples]
  /\ rows \in [Samples -> Nat]
  /\ refused \subseteq Samples
  /\ stats \in [Keys -> Recs \cup {None}]
  /\ rec \in [Recs -> Records]
  /\ flush \in [StatsFlushers ->
                  [todo : SUBSET Recs, read : SUBSET Recs, cur : Recs \cup {None},
                   row : Counters, saved : [Keys -> Counters \cup {None}]]]
  /\ statRow \in [Keys -> Counters \cup {None}]
  /\ at \in [Procs -> {"idle", "get", "total", "outcome", "timeout", "dirty", "append",
                       "take", "insert", "load", "loadSuccess", "loadFailed",
                       "loadTimeout", "update", "clear", "wait", "stopScheduler",
                       "stopLoops", "flush", "closeStore", "stopAgain", "listen",
                       "accept", "ended"}]
  /\ listener \in {"none", "open", "closed"}
  /\ shutdown \subseteq {"server", "sync"}
  /\ storeOpen \in BOOLEAN
  /\ proc \in {"up", "exited", "panicked"}
  /\ starts \in Nat

StartOf == [g \in Procs |-> CASE g = Signal -> "wait" [] g = Main -> "listen" [] OTHER -> "idle"]

Init ==
  /\ fresh = Samples
  /\ result = NoResult
  /\ buffer = {} /\ batch = [g \in SampleFlushers |-> {}]
  /\ rows = [s \in Samples |-> 0]
  /\ refused = {}
  /\ stats = [k \in Keys |-> None]
  /\ rec = [r \in Recs |-> NewPollerStats(None, Zero)]
  /\ flush = [g \in StatsFlushers |-> NoFlush]
  /\ statRow = [k \in Keys |-> None]
  /\ at = StartOf
  /\ listener = "none" /\ shutdown = {} /\ storeOpen = TRUE
  /\ proc = "up" /\ starts = 0

-----------------------------------------------------------------------------
At(g, step) == proc = "up" /\ at[g] = step
Goto(g, step) == at' = [at EXCEPT ![g] = step]

\* Records that the map or a goroutine points to, for given values of these.
Live(m, res, fl) ==
  {m[k] : k \in Keys} \cup {res.rec}
    \cup UNION {fl[g].todo \cup fl[g].read \cup {fl[g].cur} : g \in StatsFlushers}

\* The garbage collector: a record nobody points to is as good as new.
Swept(m, res, fl) ==
  [r \in Recs |-> IF r \in Live(m, res, fl) THEN rec[r] ELSE NewPollerStats(None, Zero)]

\* StatsManager.Get: the record of k, now r.
GetStats(k, r) ==
  IF stats[k] # None
  THEN r = stats[k] /\ UNCHANGED <<stats, rec>>
  ELSE /\ r \in Recs \ Live(stats, result, flush)
       /\ stats' = [stats EXCEPT ![k] = r]
       /\ rec' = [rec EXCEPT ![r] = NewPollerStats(k, Zero)]

-----------------------------------------------------------------------------
(* processResults, with handlePollResult and Manager.RecordPollResult.      *)

Receive(s, o) ==
  /\ At(Reader, "idle")
  /\ s \in fresh
  /\ fresh' = fresh \ {s}
  /\ result' = [sample |-> s, outcome |-> o, rec |-> None]
  /\ Goto(Reader, "get")
  /\ UNCHANGED <<buffer, batch, rows, refused, statVars, stopVars, proc, starts>>

ReaderGet ==
  /\ At(Reader, "get")
  /\ \E r \in Recs :
       /\ GetStats(KeyOf[result.sample], r)
       /\ result' = [result EXCEPT !.rec = r]
  /\ Goto(Reader, "total")
  /\ UNCHANGED <<sampleVars, flush, statRow, stopVars, proc, starts>>

\* One atomic operation of RecordPoll on a record.
Counted(x, field) ==
  [x EXCEPT !.total = IF field = "total" THEN @ + 1 ELSE @,
            !.success = IF field = "success" THEN @ + 1 ELSE @,
            !.failed = IF field = "failed" THEN @ + 1 ELSE @,
            !.timeout = IF field = "timeout" THEN @ + 1 ELSE @,
            !.dirty = (field = "dirty") \/ @]

\* RecordPoll, one atomic operation after the other.
Count(step, field, next) ==
  /\ At(Reader, step)
  /\ rec' = [rec EXCEPT ![result.rec] = Counted(rec[result.rec], field)]
  /\ Goto(Reader, next)
  /\ UNCHANGED <<sampleVars, result, stats, flush, statRow, stopVars, proc, starts>>

CountTotal == Count("total", "total", "outcome")
\* Mutant of CountOutcome: a timeout is not counted as a failure.
CountTimeoutOnly ==
  IF result.outcome = "ok"
  THEN Count("outcome", "success", "dirty")
  ELSE IF result.outcome = "timeout"
       THEN Count("outcome", "timeout", "dirty") ELSE Count("outcome", "failed", "dirty")

CountOutcome ==
  IF result.outcome = "ok"
  THEN Count("outcome", "success", "dirty")
  ELSE Count("outcome", "failed", IF result.outcome = "timeout" THEN "timeout" ELSE "dirty")
CountTimeout == Count("timeout", "timeout", "dirty")
MarkDirty == Count("dirty", "dirty", "append")

\* Mutant of AddSample: a full buffer is left to the ticker.
AddSampleOnly ==
  /\ At(Reader, "append")
  /\ buffer' = buffer \cup {result.sample}
  /\ Goto(Reader, "idle")
  /\ result' = NoResult /\ rec' = Swept(stats, NoResult, flush)
  /\ UNCHANGED <<fresh, batch, rows, refused, stats, flush, statRow, stopVars, proc, starts>>

\* Mutant of AddSample: a sample that would fill the buffer is dropped.
AddSampleDrops ==
  /\ At(Reader, "append")
  /\ buffer' = IF Cardinality(buffer) + 1 < BatchSize THEN buffer \cup {result.sample} ELSE buffer
  /\ Goto(Reader, "idle")
  /\ result' = NoResult /\ rec' = Swept(stats, NoResult, flush)
  /\ UNCHANGED <<fresh, batch, rows, refused, stats, flush, statRow, stopVars, proc, starts>>

\* Appends under sampleMu and flushes a full buffer itself.
AddSample ==
  /\ At(Reader, "append")
  /\ buffer' = buffer \cup {result.sample}
  /\ Goto(Reader, IF Cardinality(buffer') >= BatchSize THEN "take" ELSE "idle")
  /\ result' = NoResult /\ rec' = Swept(stats, NoResult, flush)
  /\ UNCHANGED <<fresh, batch, rows, refused, stats, flush, statRow, stopVars, proc, starts>>

ReaderExit ==
  /\ At(Reader, "idle")
  /\ "server" \in shutdown
  /\ Goto(Reader, "ended")
  /\ UNCHANGED <<sampleVars, result, statVars, stopVars, proc, starts>>

-----------------------------------------------------------------------------
(* flushSamples, by the reader, by its loop and by Stop.                    *)

AfterSamples(g) == IF g = Signal THEN "closeStore" ELSE "idle"

\* Where a goroutine calls flushSamples; its loop does at a tick of its ticker.
CallsFlush(g) == At(g, IF g = SampleLoop THEN "idle" ELSE "take")

\* Mutant of Take: the buffer is not replaced.
TakeCopy(g) ==
  /\ CallsFlush(g)
  /\ batch' = [batch EXCEPT ![g] = buffer]
  /\ Goto(g, IF buffer = {} THEN AfterSamples(g) ELSE "insert")
  /\ UNCHANGED <<buffer, fresh, rows, refused, result, statVars, stopVars, proc, starts>>

\* Mutant of Take: the loop leaves a buffer that is not full to the reader.
TakeFull(g) ==
  /\ CallsFlush(g)
  /\ g = SampleLoop => Cardinality(buffer) >= BatchSize
  /\ batch' = [batch EXCEPT ![g] = buffer]
  /\ buffer' = {}
  /\ Goto(g, IF buffer = {} THEN AfterSamples(g) ELSE "insert")
  /\ UNCHANGED <<fresh, rows, refused, result, statVars, stopVars, proc, starts>>

\* Takes the buffer and replaces it, under sampleMu.
Take(g) ==
  /\ CallsFlush(g)
  /\ batch' = [batch EXCEPT ![g] = buffer]
  /\ buffer' = {}
  /\ Goto(g, IF buffer = {} THEN AfterSamples(g) ELSE "insert")
  /\ UNCHANGED <<fresh, rows, refused, result, statVars, stopVars, proc, starts>>

\* InsertSamplesBatch is one transaction.
Insert(g) ==
  /\ At(g, "insert")
  /\ storeOpen
  /\ rows' = [s \in Samples |-> IF s \in batch[g] THEN rows[s] + 1 ELSE rows[s]]
  /\ batch' = [batch EXCEPT ![g] = {}]
  /\ Goto(g, AfterSamples(g))
  /\ UNCHANGED <<fresh, buffer, refused, result, statVars, stopVars, proc, starts>>

\* The error is logged and the batch is gone.
InsertFails(g) ==
  /\ At(g, "insert")
  /\ StoreMayFail \/ ~storeOpen
  /\ batch' = [batch EXCEPT ![g] = {}]
  /\ refused' = refused \cup batch[g]
  /\ Goto(g, AfterSamples(g))
  /\ UNCHANGED <<fresh, buffer, rows, result, statVars, stopVars, proc, starts>>

-----------------------------------------------------------------------------
(* flushStats, by its loop and by Stop.                                     *)

AfterStats(g) == IF g = Signal THEN "take" ELSE "idle"

\* Mutant of GetDirty: every entry of the map, used or not.
GetAll(g) ==
  /\ At(g, IF g = Signal THEN "flush" ELSE "idle")
  /\ flush' = [flush EXCEPT ![g].todo = {stats[k] : k \in Keys}]
  /\ Goto(g, "load")
  /\ UNCHANGED <<sampleVars, result, stats, rec, statRow, stopVars, proc, starts>>

\* GetDirty, in the loop at a tick of its ticker.
GetDirty(g) ==
  /\ At(g, IF g = Signal THEN "flush" ELSE "idle")
  /\ LET dirty == {stats[k] : k \in {k \in Keys : stats[k] # None /\ rec[stats[k]].dirty}}
     IN /\ Goto(g, IF dirty = {} THEN AfterStats(g) ELSE "load")
        /\ flush' = [flush EXCEPT ![g].todo = dirty]
  /\ UNCHANGED <<sampleVars, result, stats, rec, statRow, stopVars, proc, starts>>

\* GetStats of the next record: one load after the other.
LoadTotal(g) ==
  /\ At(g, "load")
  /\ \E r \in flush[g].todo :
       flush' = [flush EXCEPT ![g].todo = @ \ {r}, ![g].cur = r,
                              ![g].row = [Zero EXCEPT !.total = rec[r].total]]
  /\ Goto(g, "loadSuccess")
  /\ UNCHANGED <<sampleVars, result, stats, rec, statRow, stopVars, proc, starts>>

LoadSuccess(g) ==
  /\ At(g, "loadSuccess")
  /\ flush' = [flush EXCEPT ![g].row.success = rec[flush[g].cur].success]
  /\ Goto(g, "loadFailed")
  /\ UNCHANGED <<sampleVars, result, stats, rec, statRow, stopVars, proc, starts>>

LoadFailed(g) ==
  /\ At(g, "loadFailed")
  /\ flush' = [flush EXCEPT ![g].row.failed = rec[flush[g].cur].failed]
  /\ Goto(g, "loadTimeout")
  /\ UNCHANGED <<sampleVars, result, stats, rec, statRow, stopVars, proc, starts>>

LoadTimeout(g) ==
  /\ At(g, "loadTimeout")
  /\ LET r == flush[g].cur
         row == [flush[g].row EXCEPT !.timeout = rec[r].timeout]
     IN flush' = [flush EXCEPT ![g].cur = None, ![g].row = Zero, ![g].read = @ \cup {r},
                               ![g].saved[rec[r].key] = row]
  /\ Goto(g, IF flush[g].todo = {} THEN "update" ELSE "load")
  /\ UNCHANGED <<sampleVars, result, stats, rec, statRow, stopVars, proc, starts>>

\* BatchUpdatePollerStats: one transaction of UPDATEs; no row, no effect.
UpdateStats(g) ==
  /\ At(g, "update")
  /\ storeOpen
  /\ statRow' = [k \in Keys |->
                   IF statRow[k] = None \/ flush[g].saved[k] = None
                   THEN statRow[k] ELSE flush[g].saved[k]]
  /\ flush' = [flush EXCEPT ![g].saved = [k \in Keys |-> None]]
  /\ Goto(g, "clear")
  /\ UNCHANGED <<sampleVars, result, stats, rec, stopVars, proc, starts>>

UpdateStatsFails(g) ==
  /\ At(g, "update")
  /\ StoreMayFail \/ ~storeOpen
  /\ flush' = [flush EXCEPT ![g] = NoFlush]
  /\ rec' = Swept(stats, result, flush')
  /\ Goto(g, AfterStats(g))
  /\ UNCHANGED <<sampleVars, result, stats, statRow, stopVars, proc, starts>>

\* ClearDirty of the next record.
ClearDirty(g) ==
  /\ At(g, "clear")
  /\ \E r \in flush[g].read :
       /\ flush' = [flush EXCEPT ![g].read = @ \ {r}]
       /\ rec' = [Swept(stats, result, flush') EXCEPT ![r].dirty = FALSE]
       /\ Goto(g, IF flush[g].read = {r} THEN AfterStats(g) ELSE "clear")
  /\ UNCHANGED <<sampleVars, result, stats, statRow, stopVars, proc, starts>>

\* Mutant of LoopExit: the loop of the statistics has no shutdown case.
SampleLoopExit(g) ==
  /\ g = SampleLoop
  /\ At(g, "idle")
  /\ "sync" \in shutdown
  /\ Goto(g, "ended")
  /\ UNCHANGED <<sampleVars, result, statVars, stopVars, proc, starts>>

LoopExit(g) ==
  /\ At(g, "idle")
  /\ "sync" \in shutdown
  /\ Goto(g, "ended")
  /\ UNCHANGED <<sampleVars, result, statVars, stopVars, proc, starts>>

-----------------------------------------------------------------------------
(* Requests that create and delete a poller: PollerManager.Create, Delete.  *)

CreatePoller(k) ==
  /\ proc = "up" /\ storeOpen
  /\ statRow[k] = None
  /\ statRow' = [statRow EXCEPT ![k] = Zero]
  /\ \E r \in Recs : GetStats(k, r)
  /\ UNCHANGED <<sampleVars, result, flush, at, stopVars, proc, starts>>

DeletePoller(k) ==
  /\ k \in Deletable
  /\ proc = "up" /\ storeOpen
  /\ statRow[k] # None
  /\ statRow' = [statRow EXCEPT ![k] = None]
  /\ rows' = [s \in Samples |-> IF KeyOf[s] = k THEN 0 ELSE rows[s]]
  /\ stats' = [stats EXCEPT ![k] = None]
  /\ rec' = Swept(stats', result, flush)
  /\ UNCHANGED <<fresh, buffer, batch, refused, result, flush, at, stopVars, proc, starts>>

-----------------------------------------------------------------------------
(* The end of the process and the next start.                               *)

\* The signal arrives: Shutdown closes Server.shutdown and the listener, if
\* Run has opened it.
SignalArrives ==
  /\ At(Signal, "wait")
  /\ shutdown' = shutdown \cup {"server"}
  /\ listener' = IF listener = "open" THEN "closed" ELSE listener
  /\ Goto(Signal, "stopScheduler")
  /\ UNCHANGED <<sampleVars, result, statVars, storeOpen, proc, starts>>

\* Mutant of StopSync: Shutdown does not wait for its goroutines.
StopSyncAtOnce ==
  /\ At(Signal, "stopScheduler")
  /\ shutdown' = shutdown \cup {"sync"}
  /\ Goto(Signal, "stopLoops")
  /\ UNCHANGED <<sampleVars, result, statVars, listener, storeOpen, proc, starts>>

\* scheduler.Stop, wg.Wait, and Manager.Stop closes SyncManager.shutdown.
StopSync ==
  /\ At(Signal, "stopScheduler")
  /\ at[Reader] = "ended"
  /\ shutdown' = shutdown \cup {"sync"}
  /\ Goto(Signal, "stopLoops")
  /\ UNCHANGED <<sampleVars, result, statVars, listener, storeOpen, proc, starts>>

\* SyncManager.Stop waits for the loops; FlushAll follows.
LoopsStopped ==
  /\ At(Signal, "stopLoops")
  /\ \A g \in Loops : at[g] = "ended"
  /\ Goto(Signal, "flush")
  /\ UNCHANGED <<sampleVars, result, statVars, stopVars, proc, starts>>

CloseStore ==
  /\ At(Signal, "closeStore")
  /\ storeOpen' = FALSE
  /\ Goto(Signal, "stopAgain")
  /\ UNCHANGED <<sampleVars, result, statVars, listener, shutdown, proc, starts>>

\* main calls mgr.Stop once more: the channel is closed already.
StopAgain ==
  /\ At(Signal, "stopAgain")
  /\ proc' = "panicked"
  /\ UNCHANGED <<sampleVars, result, statVars, at, stopVars, starts>>

\* Run opens the listener, whatever happened before, and accepts.
Listen ==
  /\ At(Main, "listen")
  /\ listener' = "open"
  /\ Goto(Main, "accept")
  /\ UNCHANGED <<sampleVars, result, statVars, shutdown, storeOpen, proc, starts>>

\* Accept fails after the listener was closed; Run and main return.
RunReturns ==
  /\ At(Main, "accept")
  /\ listener = "closed" /\ "server" \in shutdown
  /\ proc' = "exited"
  /\ UNCHANGED <<sampleVars, result, statVars, at, stopVars, starts>>

\* The process dies and a new one starts: Load reads the statistics of every
\* poller into a new record.  (The start after an exit or a panic finds the same
\* tables as the one after a crash in that state.)
Restart ==
  /\ proc = "up"
  /\ starts < MaxStarts
  /\ starts' = starts + 1
  /\ result' = NoResult
  /\ buffer' = {} /\ batch' = [g \in SampleFlushers |-> {}]
  /\ flush' = [g \in StatsFlushers |-> NoFlush]
  /\ at' = StartOf
  /\ listener' = "none" /\ shutdown' = {} /\ storeOpen' = TRUE
  /\ \E f \in [Keys -> Recs] :
       /\ \A k, l \in Keys : f[k] = f[l] => k = l
       /\ stats' = [k \in Keys |-> IF statRow[k] = None THEN None ELSE f[k]]
       /\ rec' = [r \in Recs |->
                    IF \E k \in Keys : stats'[k] = r
                    THEN LET k == CHOOSE k \in Keys : stats'[k] = r
                         IN NewPollerStats(k, statRow[k])
                    ELSE NewPollerStats(None, Zero)]
  /\ UNCHANGED <<fresh, rows, refused, statRow, proc>>

\* The process has ended for good.
Over == proc # "up" /\ UNCHANGED vars

-----------------------------------------------------------------------------
ReaderStep ==
  \/ ReaderGet \/ CountTotal \/ CountOutcome \/ CountTimeout \/ MarkDirty
  \/ AddSample \/ ReaderExit
SampleStep(g) == Take(g) \/ Insert(g) \/ InsertFails(g)
StatsStep(g) ==
  \/ GetDirty(g) \/ LoadTotal(g) \/ LoadSuccess(g) \/ LoadFailed(g) \/ LoadTimeout(g)
  \/ UpdateStats(g) \/ UpdateStatsFails(g) \/ ClearDirty(g)
StopStep == StopSync \/ LoopsStopped \/ CloseStore \/ StopAgain

Next ==
  \/ \E s \in Samples, o \in Outcomes : Receive(s, o)
  \/ ReaderStep
  \/ \E g \in SampleFlushers : SampleStep(g)
  \/ \E g \in StatsFlushers : StatsStep(g)
  \/ \E g \in Loops : LoopExit(g)
  \/ \E k \in Keys : CreatePoller(k) \/ DeletePoller(k)
  \/ SignalArrives \/ StopStep \/ Listen \/ RunReturns
  \/ Restart \/ Over

Spec == Init /\ [][Next]_vars

\* Goroutines run; tickers tick; a select takes a case that stays ready.  No
\* poll need ever produce another result.
Fairness ==
  /\ WF_vars(ReaderStep)
  /\ \A g \in SampleFlushers : WF_vars(SampleStep(g))
  /\ \A g \in StatsFlushers : WF_vars(StatsStep(g))
  /\ \A g \in Loops : SF_vars(LoopExit(g))
  /\ WF_vars(StopStep) /\ WF_vars(Listen) /\ WF_vars(RunReturns)

FairSpec == Spec /\ Fairness

-----------------------------------------------------------------------------
(* Properties.                                                             *)

\* The buffer never holds more than one batch, and a full one only until the
\* goroutine of processResults, which filled it, has flushed it: no tick of the
\* loop is needed for that.
BufferBounded ==
  Cardinality(buffer) < IF at[Reader] = "take" THEN BatchSize + 1 ELSE BatchSize

\* When Manager.Stop closes the store, no sample that processResults accepted is
\* left in memory: the order of Shutdown (sync.go 77-84: "flushes all pending
\* data").
FlushedBeforeClose == proc = "up" /\ ~storeOpen => Pending = {}

\* A stored row of statistics has at most one poll more than it has outcomes
\* for every start of the process: flushStats reads the total first, and the
\* result it may see half counted is lost when the process ends.
TotalsCovered ==
  \A k \in Keys :
    statRow[k] # None =>
      statRow[k].total <= statRow[k].success + statRow[k].failed + 1 + starts

\* The buffer, the batches of three goroutines, failing transactions, deletions,
\* crashes and shutdown implement the sample log: a sample is stored at most
\* once, with its whole batch; while the process runs, an accepted sample leaves
\* memory only into the table or in a batch whose INSERT failed (and then it
\* never comes back), and only a crash or an exit drops what is in memory.
Log == INSTANCE SampleLog WITH
  fresh <- fresh,
  pending <- IF proc = "up" THEN Pending ELSE {},
  log <- {s \in Samples : rows[s] > 0},
  refused <- refused,
  up <- proc = "up",
  starts <- starts
ImplementsLog == Log!Spec
StoredOnce == \A s \in Samples : rows[s] <= 1

\* Every accepted sample is stored, refused by the store, or lost with the
\* process: no sample stays in memory for ever.
PendingSettles == \A s \in Samples : (proc = "up" /\ s \in Pending) ~> ~(proc = "up" /\ s \in Pending)

\* After a signal the process ends (or crashes and is started again): none of
\* the goroutines that wait for one another waits for ever.
SignalEndsProcess ==
  (proc = "up" /\ at[Signal] # "wait") ~> (proc # "up" \/ at[Signal] = "wait")

\* "Stop stops the sync manager and flushes all pending data": a process that
\* was asked to stop does not end with samples in memory.
CleanExit == proc = "exited" => Pending = {}
=============================================================================
