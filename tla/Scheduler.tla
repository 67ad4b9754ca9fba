------------------------------ MODULE Scheduler ------------------------------
(***************************************************************************)
(* The polling scheduler of internal/scheduler/scheduler.go: a heap of     *)
(* poll items ordered by their next poll time, the loop that turns due     *)
(* items into jobs, and the pool of workers that run the jobs.  Server     *)
(* goroutines call Add, Remove and UpdateInterval (and could call Pause    *)
(* and Resume) at any time; every such call holds the scheduler's mutex,   *)
(* so it is one step here.  The loop and the workers release the mutex     *)
(* between their steps, and that is where the interleavings are.           *)
(*                                                                         *)
(* Time is relative: wait[i] is NextPollMs - now, never below 0 (an item   *)
(* is due when it is 0), and Tick lets a unit of time pass.                *)
(*                                                                         *)
(* The heap is the set of its items, not their layout in the array.        *)
(* container/heap promises that the root is a minimum as long as nobody    *)
(* changes a key behind its back; `ordered` says that promise still        *)
(* stands, and while it does not, any item may be the root.  An item can   *)
(* be pushed twice: `dup` holds the items with more than one entry.        *)
(* `indexed` holds the items whose index field is not negative.  An item   *)
(* that loses one of several entries gets index -1 and may get an index    *)
(* again from a later Swap: Reindex allows both.                           *)
(***************************************************************************)
EXTENDS Naturals, Sequences

CONSTANTS
  Keys,          \* the poller keys
  Tags,          \* tells apart the items allocated for one key (a bound)
  Workers,       \* the worker goroutines
  QueueSize,     \* capacity of the jobs and results channels
  Intervals,     \* the intervals the pollers may have, in ticks
  RequeueDelay,  \* the delay of an item whose job found the queue full
  Removable,     \* the keys the environment may Remove
  Pausable,      \* the keys the environment may Pause and Resume
  MayStop,       \* the environment may Stop the scheduler
  None           \* no item, no key

ASSUME SchedulerAssumption ==
  /\ QueueSize \in Nat \ {0}
  /\ Intervals \subseteq Nat \ {0}
  /\ RequeueDelay \in Nat \ {0}
  /\ Removable \subseteq Keys
  /\ Pausable \subseteq Keys
  /\ MayStop \in BOOLEAN
  /\ None \notin Keys
  /\ None \notin Keys \X Tags

\* The PollItem objects: at most one per key and tag is reachable at a time.
Items == Keys \X Tags
KeyOf(i) == i[1]

VARIABLES
  heapIdx,   \* Scheduler.heapIdx: the item of each key, or None
  heap,      \* the items with an entry in Scheduler.heap
  dup,       \* the items with more than one entry
  indexed,   \* the items with index >= 0
  ordered,   \* no key was changed in place: the root is a minimum
  polling,   \* the items with Polling = true
  wait,      \* NextPollMs - now of each item
  interval,  \* IntervalMs of each item
  wakeup,    \* the wakeup channel (capacity 1) holds a token
  jobs,      \* the jobs channel
  results,   \* the number of results in the results channel
  loop,      \* where schedulerLoop is
  sleepMs,   \* what is left of the loop's timer
  due,       \* dueItems of processDueItems not yet handled by phase 2
  worker,    \* what each worker is doing
  stopped,   \* the shutdown channel is closed
  paused     \* history: the keys whose item Pause took out of the heap

heapVars == <<heap, dup, indexed, ordered>>
itemVars == <<polling, wait, interval>>
loopVars == <<loop, sleepMs, due>>
vars == <<heapIdx, heapVars, itemVars, wakeup, jobs, results, loopVars,
          worker, stopped, paused>>

WorkerStates ==
  [at : {"idle", "result", "exit"}, key : {None}]
    \cup [at : {"poll"}, key : Keys]
Idle == [at |-> "idle", key |-> None]
HasResult == [at |-> "result", key |-> None]
Exit == [at |-> "exit", key |-> None]

TypeOK ==
  /\ heapIdx \in [Keys -> Items \cup {None}]
  /\ \A k \in Keys : heapIdx[k] # None => KeyOf(heapIdx[k]) = k
  /\ heap \subseteq Items
  /\ dup \subseteq heap
  /\ indexed \subseteq heap
  /\ ordered \in BOOLEAN
  /\ polling \subseteq Items
  /\ wait \in [Items -> Nat]
  /\ interval \in [Items -> Nat]
  /\ wakeup \in BOOLEAN
  /\ jobs \in Seq(Keys) /\ Len(jobs) <= QueueSize
  /\ results \in 0 .. QueueSize
  /\ loop \in {"peek", "idle", "sleep", "collect", "queue", "exit"}
  /\ sleepMs \in Nat
  /\ due \subseteq Items
  /\ worker \in [Workers -> WorkerStates]
  /\ stopped \in BOOLEAN
  /\ paused \subseteq Pausable

Init ==
  /\ heapIdx = [k \in Keys |-> None]
  /\ heap = {} /\ dup = {} /\ indexed = {} /\ ordered = TRUE
  /\ polling = {}
  /\ wait = [i \in Items |-> 0]
  /\ interval = [i \in Items |-> 0]
  /\ wakeup = FALSE
  /\ jobs = <<>> /\ results = 0
  /\ loop = "peek" /\ sleepMs = 0 /\ due = {}
  /\ worker = [w \in Workers |-> Idle]
  /\ stopped = FALSE
  /\ paused = {}

-----------------------------------------------------------------------------
(* container/heap, as far as the scheduler depends on it.                  *)

OneItem(h) == \A i, j \in h : i = j

\* Entries that lost their index may have got one back from a Swap.
Reindex(base) ==
  \E again \in SUBSET (heap' \ base) : indexed' = base \cup again

\* heap.Push(&s.heap, i), after NextPollMs was written: if the item already
\* had an entry, that entry's key changed in place.
HeapPush(i) ==
  /\ heap' = heap \cup {i}
  /\ dup' = IF i \in heap THEN dup \cup {i} ELSE dup
  /\ Reindex(indexed \cup {i})
  /\ ordered' = ((ordered /\ i \notin heap) \/ OneItem(heap'))

\* Mutant of HeapRemove: Pop leaves the index field as it was.
HeapRemoveKeepsIndex(i) ==
  /\ heap' = heap \ {i}
  /\ dup' = dup \ {i}
  /\ UNCHANGED <<indexed, ordered>>

\* heap.Remove(&s.heap, i.index).
HeapRemove(i) ==
  /\ \/ /\ i \notin dup
        /\ heap' = heap \ {i}
        /\ UNCHANGED dup
     \/ /\ i \in dup
        /\ UNCHANGED heap
        /\ dup' \in {dup, dup \ {i}}
  /\ Reindex(indexed \ {i})
  /\ ordered' = (ordered \/ OneItem(heap'))

-----------------------------------------------------------------------------
(* The calls of the server's goroutines.                                   *)

\* An item nobody points to: the allocator may return it.
Reachable == heap \cup due \cup {heapIdx[k] : k \in Keys}

\* A new item for k, jitter from rand.Int63n(interval).
PushNew(k, ms) ==
  \E i \in Items \ Reachable, jitter \in 0 .. ms - 1 :
    /\ KeyOf(i) = k
    /\ heapIdx' = [heapIdx EXCEPT ![k] = i]
    /\ wait' = [wait EXCEPT ![i] = jitter]
    /\ interval' = [interval EXCEPT ![i] = ms]
    /\ polling' = polling \ {i}
    /\ HeapPush(i)

\* Mutants of Add: no signalWakeup; no look at heapIdx first.
AddSilent(k, ms) ==
  /\ heapIdx[k] = None
  /\ PushNew(k, ms)
  /\ UNCHANGED <<wakeup, jobs, results, loopVars, worker, stopped, paused>>
AddAgain(k, ms) ==
  /\ PushNew(k, ms)
  /\ wakeup' = TRUE
  /\ UNCHANGED <<jobs, results, loopVars, worker, stopped, paused>>

Add(k, ms) ==
  /\ heapIdx[k] = None
  /\ PushNew(k, ms)
  /\ wakeup' = TRUE
  /\ UNCHANGED <<jobs, results, loopVars, worker, stopped, paused>>

Remove(k) ==
  /\ heapIdx[k] # None
  /\ IF heapIdx[k] \in indexed
     THEN HeapRemove(heapIdx[k])
     ELSE UNCHANGED heapVars
  /\ heapIdx' = [heapIdx EXCEPT ![k] = None]
  /\ paused' = paused \ {k}
  /\ UNCHANGED <<itemVars, wakeup, jobs, results, loopVars, worker, stopped>>

UpdateInterval(k, ms) ==
  /\ heapIdx[k] # None
  /\ interval' = [interval EXCEPT ![heapIdx[k]] = ms]
  /\ UNCHANGED <<heapIdx, heapVars, polling, wait, wakeup, jobs, results,
                 loopVars, worker, stopped, paused>>

Pause(k) ==
  /\ heapIdx[k] # None
  /\ heapIdx[k] \in indexed
  /\ HeapRemove(heapIdx[k])
  /\ paused' = paused \cup {k}
  /\ UNCHANGED <<heapIdx, itemVars, wakeup, jobs, results, loopVars, worker,
                 stopped>>

Resume(k) ==
  /\ heapIdx[k] # None
  /\ heapIdx[k] \notin indexed
  /\ wait' = [wait EXCEPT ![heapIdx[k]] = 0]
  /\ polling' = polling \ {heapIdx[k]}
  /\ HeapPush(heapIdx[k])
  /\ wakeup' = TRUE
  /\ paused' = paused \ {k}
  /\ UNCHANGED <<heapIdx, interval, jobs, results, loopVars, worker, stopped>>

Stop ==
  /\ MayStop /\ ~stopped
  /\ stopped' = TRUE
  /\ UNCHANGED <<heapIdx, heapVars, itemVars, wakeup, jobs, results, loopVars,
                 worker, paused>>

-----------------------------------------------------------------------------
(* schedulerLoop and processDueItems.                                      *)

\* The items heap[0] may be.
Roots == {i \in heap : ordered => \A j \in heap : wait[i] <= wait[j]}

Peek ==
  /\ loop = "peek"
  /\ \/ /\ heap = {}
        /\ loop' = "idle"
        /\ UNCHANGED sleepMs
     \/ \E root \in Roots :
          IF wait[root] > 0
          THEN loop' = "sleep" /\ sleepMs' = wait[root]
          ELSE loop' = "collect" /\ UNCHANGED sleepMs
  /\ UNCHANGED <<heapIdx, heapVars, itemVars, wakeup, jobs, results, due,
                 worker, stopped, paused>>

\* case <-s.wakeup, in either select.
Woken ==
  /\ loop \in {"idle", "sleep"}
  /\ wakeup
  /\ wakeup' = FALSE
  /\ loop' = "peek"
  /\ sleepMs' = 0
  /\ UNCHANGED <<heapIdx, heapVars, itemVars, jobs, results, due, worker,
                 stopped, paused>>

\* case <-timer.C: the sleep is over (sleepMs = 0), or it ends early, because
\* Reset does not drain the channel (go.mod says go 1.22) and the tick of a
\* timer that an interrupted sleep left behind is still in it.
TimerFires ==
  /\ loop = "sleep"
  /\ loop' = "collect"
  /\ sleepMs' = 0
  /\ UNCHANGED <<heapIdx, heapVars, itemVars, wakeup, jobs, results, due,
                 worker, stopped, paused>>

\* case <-s.shutdown, in either select.
LoopExit ==
  /\ loop \in {"idle", "sleep"}
  /\ stopped
  /\ loop' = "exit"
  /\ sleepMs' = 0
  /\ UNCHANGED <<heapIdx, heapVars, itemVars, wakeup, jobs, results, due,
                 worker, stopped, paused>>

Due == {i \in heap : wait[i] = 0}

\* Phase 1: pop entries until the root is not due.  `gone` are the items that
\* lose every entry, `part` those that lose some of several.  With the heap in
\* order all due entries are popped; otherwise a root that is not due may hide
\* some of them.  The clock is read just before the lock, in the same step: an
\* item that becomes due between the two would be collected a round later.
Collect ==
  /\ loop = "collect"
  /\ \E gone \in SUBSET Due, part \in SUBSET (Due \cap dup) :
       /\ gone \cap part = {}
       /\ ordered => gone = Due
       /\ heap' = heap \ gone
       /\ \E still \in SUBSET part : dup' = (dup \ (gone \cup part)) \cup still
       /\ Reindex(indexed \ (gone \cup part))
       /\ due' = (gone \cup part) \ polling
       /\ polling' = polling \cup gone \cup part
  /\ ordered' = (ordered \/ OneItem(heap'))
  /\ loop' = IF due' = {} THEN "peek" ELSE "queue"
  /\ UNCHANGED <<heapIdx, wait, interval, wakeup, jobs, results, sleepMs,
                 worker, stopped, paused>>

\* Phase 2 with the next due item.
Handled(i) ==
  /\ loop = "queue"
  /\ due' = due \ {i}
  /\ loop' = IF due' = {} THEN "peek" ELSE "queue"

Enqueue(i) ==
  /\ Handled(i)
  /\ Len(jobs) < QueueSize
  /\ jobs' = Append(jobs, KeyOf(i))
  /\ UNCHANGED <<heapIdx, heapVars, itemVars, wakeup, results, sleepMs, worker,
                 stopped, paused>>

\* Mutant of Requeue: the item is dropped.
RequeueDrops(i) ==
  /\ Handled(i)
  /\ Len(jobs) = QueueSize
  /\ polling' = polling \ {i}
  /\ UNCHANGED <<heapIdx, heapVars, wait, interval, wakeup, jobs, results,
                 sleepMs, worker, stopped, paused>>

\* The queue is full.  NextPollMs is computed from the clock read before
\* phase 1, so part of the delay may already be over.
Requeue(i) ==
  /\ Handled(i)
  /\ Len(jobs) = QueueSize
  /\ polling' = polling \ {i}
  /\ \E left \in 0 .. RequeueDelay : wait' = [wait EXCEPT ![i] = left]
  /\ HeapPush(i)
  /\ UNCHANGED <<heapIdx, interval, wakeup, jobs, results, sleepMs, worker,
                 stopped, paused>>

-----------------------------------------------------------------------------
(* The workers, the reader of the results, and time.                       *)

WorkerTake(w) ==
  /\ worker[w] = Idle
  /\ jobs # <<>>
  /\ worker' = [worker EXCEPT ![w] = [at |-> "poll", key |-> Head(jobs)]]
  /\ jobs' = Tail(jobs)
  /\ UNCHANGED <<heapIdx, heapVars, itemVars, wakeup, results, loopVars,
                 stopped, paused>>

\* NextPollMs = now + IntervalMs; an item in the heap is not moved (no Fix).
Reschedule(i) ==
  /\ wait' = [wait EXCEPT ![i] = interval[i]]
  /\ polling' = polling \ {i}
  /\ IF i \in indexed
     THEN /\ ordered' = OneItem(heap)
          /\ UNCHANGED <<heap, dup, indexed>>
     ELSE HeapPush(i)

\* Mutant of MarkComplete: no signalWakeup.
MarkCompleteSilent(k) ==
  /\ IF heapIdx[k] = None
     THEN UNCHANGED <<heapVars, polling, wait, paused>>
     ELSE Reschedule(heapIdx[k]) /\ paused' = paused \ {k}
  /\ UNCHANGED wakeup

MarkComplete(k) ==
  \/ /\ heapIdx[k] = None
     /\ UNCHANGED <<heapVars, polling, wait, wakeup, paused>>
  \/ /\ heapIdx[k] # None
     /\ Reschedule(heapIdx[k])
     /\ wakeup' = TRUE
     /\ paused' = paused \ {k}

\* executePoll returns and MarkComplete is called.
WorkerComplete(w) ==
  /\ worker[w].at = "poll"
  /\ MarkComplete(worker[w].key)
  /\ worker' = [worker EXCEPT ![w] = HasResult]
  /\ UNCHANGED <<heapIdx, interval, jobs, results, loopVars, stopped>>

WorkerSend(w) ==
  /\ worker[w] = HasResult
  /\ results < QueueSize
  /\ results' = results + 1
  /\ worker' = [worker EXCEPT ![w] = Idle]
  /\ UNCHANGED <<heapIdx, heapVars, itemVars, wakeup, jobs, loopVars, stopped,
                 paused>>

\* Mutant of WorkerExit: the result is sent without a shutdown case.
WorkerExitIdle(w) ==
  /\ stopped
  /\ worker[w] = Idle
  /\ worker' = [worker EXCEPT ![w] = Exit]
  /\ UNCHANGED <<heapIdx, heapVars, itemVars, wakeup, jobs, results, loopVars,
                 stopped, paused>>

WorkerExit(w) ==
  /\ stopped
  /\ worker[w] \in {Idle, HasResult}
  /\ worker' = [worker EXCEPT ![w] = Exit]
  /\ UNCHANGED <<heapIdx, heapVars, itemVars, wakeup, jobs, results, loopVars,
                 stopped, paused>>

\* processResults of internal/server/server.go: reads until shutdown.
ReadResult ==
  /\ ~stopped
  /\ results > 0
  /\ results' = results - 1
  /\ UNCHANGED <<heapIdx, heapVars, itemVars, wakeup, jobs, loopVars, worker,
                 stopped, paused>>

Less1(n) == IF n = 0 THEN 0 ELSE n - 1

Tick ==
  /\ sleepMs > 0 \/ \E i \in Items : wait[i] > 0
  /\ wait' = [i \in Items |-> Less1(wait[i])]
  /\ sleepMs' = Less1(sleepMs)
  /\ UNCHANGED <<heapIdx, heapVars, polling, interval, wakeup, jobs, results,
                 loop, due, worker, stopped, paused>>

-----------------------------------------------------------------------------
LoopStep ==
  \/ Peek \/ Woken \/ TimerFires \/ Collect
  \/ \E i \in due : Enqueue(i) \/ Requeue(i)

WorkerStep(w) == WorkerTake(w) \/ WorkerComplete(w) \/ WorkerSend(w)

Client ==
  \/ \E k \in Keys, ms \in Intervals : Add(k, ms) \/ UpdateInterval(k, ms)
  \/ \E k \in Removable : Remove(k)
  \/ \E k \in Pausable : Pause(k) \/ Resume(k)
  \/ Stop

Next ==
  \/ Client
  \/ LoopStep \/ LoopExit
  \/ \E w \in Workers : WorkerStep(w) \/ WorkerExit(w)
  \/ ReadResult
  \/ Tick

Spec == Init /\ [][Next]_vars

\* The goroutines run, polls end (the SNMP client has a timeout), time passes.
\* Nothing obliges a client to call anything.  A select with several ready
\* cases picks one at random, so the shutdown case is not passed over forever.
Fairness ==
  /\ WF_vars(LoopStep)
  /\ SF_vars(LoopExit)
  /\ \A w \in Workers : WF_vars(WorkerStep(w)) /\ SF_vars(WorkerExit(w))
  /\ WF_vars(ReadResult)
  /\ WF_vars(Tick)

FairSpec == Spec /\ Fairness

-----------------------------------------------------------------------------
(* Properties.                                                             *)

PolledBy(w, k) == worker[w].at = "poll" /\ worker[w].key = k
Queued(k) == \E n \in DOMAIN jobs : jobs[n] = k
InFlight(k) == Queued(k) \/ \E w \in Workers : PolledBy(w, k)

\* A key in the index is never forgotten: its item waits in the heap, is being
\* dispatched by processDueItems, or a job for the key is queued or running
\* and MarkComplete will reschedule it (scheduler.go 331-392), or Pause took it
\* out.  Calls of Remove, Add, Pause and Resume for the key at any moment, even
\* with its job in flight, do not break this.
NeverStranded ==
  \A k \in Keys :
    heapIdx[k] # None =>
      heapIdx[k] \in heap \cup due \/ InFlight(k) \/ k \in paused

\* schedulerLoop never sleeps on an empty heap that is not empty any more:
\* whoever pushed an item left a token in the wakeup channel.
NoLostWakeup == loop = "idle" /\ heap # {} => wakeup

\* If no key is ever removed or paused, nobody writes NextPollMs of an item in
\* the heap, the root is always the next item, and schedulerLoop never sleeps
\* past the time of an item unless a token is there to interrupt the sleep.
\* (It does not hold otherwise: MarkComplete of a job that outlived a Remove
\* and an Add moves the new item's time without heap.Fix.)
NoOversleep ==
  /\ ordered
  /\ loop = "sleep" /\ ~wakeup => \A i \in heap : sleepMs <= wait[i]

\* A key that is neither removed nor paused is in exactly one place: once in
\* the heap, or in dueItems, or in one queued job, or with one worker.  So at
\* most one poll of it is in flight, whatever happens to other keys.
SingleFlight(k) ==
  /\ \A m, n \in DOMAIN jobs : jobs[m] = k /\ jobs[n] = k => m = n
  /\ \A v, w \in Workers : PolledBy(v, k) /\ PolledBy(w, k) => v = w
  /\ \A w \in Workers : ~(PolledBy(w, k) /\ Queued(k))

StableOnce ==
  \A k \in Keys \ (Removable \cup Pausable) :
    /\ SingleFlight(k)
    /\ heapIdx[k] # None =>
         /\ heapIdx[k] \notin dup
         /\ ~(heapIdx[k] \in heap /\ heapIdx[k] \in due)
         /\ ~(heapIdx[k] \in heap \cup due /\ InFlight(k))
    /\ \A i \in heap \cup due : KeyOf(i) = k => i = heapIdx[k]

\* A key that waits in the heap is polled again, or the client removes it or
\* stops the scheduler.
PolledAgain ==
  \A k \in Keys :
    heapIdx[k] # None /\ heapIdx[k] \in heap
      ~> \/ \E w \in Workers : PolledBy(w, k)
         \/ heapIdx[k] = None
         \/ stopped

\* After Stop every goroutine of the scheduler returns, even a worker whose
\* result nobody reads any more.
StopEndsAll ==
  stopped ~> loop = "exit" /\ \A w \in Workers : worker[w] = Exit

=============================================================================
