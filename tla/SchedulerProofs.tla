--------------------------- MODULE SchedulerProofs ---------------------------
(***************************************************************************)
(* Proofs of the safety properties of Scheduler, for every set of keys,    *)
(* workers and intervals and every queue size.                             *)
(***************************************************************************)
EXTENDS Scheduler, TLAPS

USE SchedulerAssumption

\* The disjuncts of Next, each with the constants it ranges over.
LEMMA NextCases ==
  ASSUME Next
  PROVE  \/ \E k \in Keys, ms \in Intervals : Add(k, ms) \/ UpdateInterval(k, ms)
         \/ \E k \in Removable : Remove(k)
         \/ \E k \in Pausable : Pause(k) \/ Resume(k)
         \/ Stop \/ Peek \/ Woken \/ TimerFires \/ LoopExit \/ Collect
         \/ \E i \in due : Enqueue(i) \/ Requeue(i)
         \/ \E w \in Workers : WorkerTake(w) \/ WorkerComplete(w)
                                 \/ WorkerSend(w) \/ WorkerExit(w)
         \/ ReadResult \/ Tick
BY DEF Next, Client, LoopStep, WorkerStep

-----------------------------------------------------------------------------
(* What the heap operations leave behind.                                  *)

HeapTypeOK ==
  /\ heap \subseteq Items /\ dup \subseteq heap /\ indexed \subseteq heap
  /\ ordered \in BOOLEAN

\* A push keeps every entry and adds the item's.
LEMMA PushFacts ==
  ASSUME HeapTypeOK, NEW i \in Items, HeapPush(i)
  PROVE  /\ HeapTypeOK'
         /\ heap' = heap \cup {i}
         /\ i \notin heap => dup' = dup
BY DEF HeapTypeOK, HeapPush, Reindex

\* A removal touches the entries of one item only.
LEMMA RemoveFacts ==
  ASSUME HeapTypeOK, NEW i \in Items, HeapRemove(i)
  PROVE  /\ HeapTypeOK'
         /\ heap' \subseteq heap
         /\ heap \ {i} \subseteq heap'
         /\ dup' \subseteq dup
         /\ i \notin dup => i \notin heap'
BY DEF HeapTypeOK, HeapRemove, Reindex

-----------------------------------------------------------------------------
\* The type invariant: also that an item with an index is in the heap, which
\* is why heap.Remove never gets an index out of range.
THEOREM TypeCorrect == Spec => []TypeOK
<1>1. Init => TypeOK
  <2> SUFFICES ASSUME Init PROVE TypeOK
    OBVIOUS
  <2>1. Idle \in WorkerStates
    BY DEF Idle, WorkerStates
  <2>2. jobs \in Seq(Keys) /\ Len(jobs) <= QueueSize
    BY DEF Init
  <2>3. /\ heapIdx \in [Keys -> Items \cup {None}]
        /\ \A k \in Keys : heapIdx[k] # None => KeyOf(heapIdx[k]) = k
    BY DEF Init
  <2>4. /\ wait \in [Items -> Nat] /\ interval \in [Items -> Nat]
        /\ worker \in [Workers -> WorkerStates]
    BY <2>1 DEF Init
  <2>5. results \in 0 .. QueueSize /\ sleepMs \in Nat
    BY DEF Init
  <2> QED
    BY <2>2, <2>3, <2>4, <2>5 DEF Init, TypeOK
<1>2. TypeOK /\ [Next]_vars => TypeOK'
  <2> SUFFICES ASSUME TypeOK, [Next]_vars PROVE TypeOK'
    OBVIOUS
  <2> USE DEF TypeOK
  <2>h. HeapTypeOK
    BY DEF HeapTypeOK
  <2>i. \A k \in Keys : heapIdx[k] # None => heapIdx[k] \in Items
    OBVIOUS
  <2>1. ASSUME NEW k \in Keys, NEW ms \in Intervals, Add(k, ms) PROVE TypeOK'
    <3>1. PICK i \in Items, jitter \in 0 .. ms - 1 :
            /\ KeyOf(i) = k
            /\ heapIdx' = [heapIdx EXCEPT ![k] = i]
            /\ wait' = [wait EXCEPT ![i] = jitter]
            /\ interval' = [interval EXCEPT ![i] = ms]
            /\ polling' = polling \ {i}
            /\ HeapPush(i)
      BY <2>1 DEF Add, PushNew
    <3>2. HeapTypeOK'
      BY <3>1, <2>h, PushFacts
    <3> QED
      BY <2>1, <3>1, <3>2 DEF Add, loopVars, HeapTypeOK
  <2>2. ASSUME NEW k \in Keys, NEW ms \in Intervals, UpdateInterval(k, ms)
        PROVE  TypeOK'
    BY <2>2 DEF UpdateInterval, heapVars, loopVars
  <2>3. ASSUME NEW k \in Keys, Remove(k) PROVE TypeOK'
    <3>1. HeapTypeOK'
      BY <2>3, <2>h, <2>i, RemoveFacts DEF Remove, heapVars, HeapTypeOK
    <3> QED
      BY <2>3, <3>1 DEF Remove, itemVars, loopVars, HeapTypeOK
  <2>4. ASSUME NEW k \in Pausable, Pause(k) PROVE TypeOK'
    <3>1. HeapTypeOK'
      BY <2>4, <2>h, <2>i, RemoveFacts DEF Pause
    <3> QED
      BY <2>4, <3>1 DEF Pause, itemVars, loopVars, HeapTypeOK
  <2>5. ASSUME NEW k \in Pausable, Resume(k) PROVE TypeOK'
    <3>1. HeapTypeOK'
      BY <2>5, <2>h, <2>i, PushFacts DEF Resume
    <3> QED
      BY <2>5, <3>1 DEF Resume, loopVars, HeapTypeOK
  <2>6. CASE Stop
    BY <2>6 DEF Stop, heapVars, itemVars, loopVars
  <2>7. CASE Peek
    BY <2>7 DEF Peek, Roots, heapVars, itemVars
  <2>8. CASE Woken
    BY <2>8 DEF Woken, heapVars, itemVars
  <2>9. CASE TimerFires
    BY <2>9 DEF TimerFires, heapVars, itemVars
  <2>10. CASE LoopExit
    BY <2>10 DEF LoopExit, heapVars, itemVars
  <2>11. CASE Collect
    BY <2>11 DEF Collect, Due, Reindex
  <2>12. ASSUME NEW i \in due, Enqueue(i) PROVE TypeOK'
    <3>1. KeyOf(i) \in Keys
      BY DEF KeyOf, Items
    <3> QED
      BY <2>12, <3>1 DEF Enqueue, Handled, heapVars, itemVars
  <2>13. ASSUME NEW i \in due, Requeue(i) PROVE TypeOK'
    <3>1. HeapTypeOK'
      BY <2>13, <2>h, PushFacts DEF Requeue
    <3> QED
      BY <2>13, <3>1 DEF Requeue, Handled, HeapTypeOK
  <2>14. ASSUME NEW w \in Workers, WorkerTake(w) PROVE TypeOK'
    <3>1. Head(jobs) \in Keys /\ Tail(jobs) \in Seq(Keys)
             /\ Len(Tail(jobs)) <= QueueSize
      BY <2>14 DEF WorkerTake
    <3>2. [at |-> "poll", key |-> Head(jobs)] \in WorkerStates
      BY <3>1 DEF WorkerStates
    <3> QED
      BY <2>14, <3>1, <3>2 DEF WorkerTake, heapVars, itemVars, loopVars
  <2>15. ASSUME NEW w \in Workers, WorkerComplete(w) PROVE TypeOK'
    <3>0. worker[w].key \in Keys /\ HasResult \in WorkerStates
      BY <2>15 DEF WorkerComplete, WorkerStates, HasResult
    <3>1. /\ HeapTypeOK' /\ polling' \subseteq Items /\ wait' \in [Items -> Nat]
          /\ wakeup' \in BOOLEAN /\ paused' \subseteq Pausable
      <4>1. CASE heapIdx[worker[w].key] = None
        BY <4>1, <2>15, <2>h DEF WorkerComplete, MarkComplete, heapVars, HeapTypeOK
      <4>2. CASE heapIdx[worker[w].key] # None
        <5> DEFINE i == heapIdx[worker[w].key]
        <5>1. i \in Items /\ Reschedule(i) /\ wakeup' = TRUE
                /\ paused' \subseteq paused
          BY <4>2, <3>0, <2>15, <2>i DEF WorkerComplete, MarkComplete
        <5> HIDE DEF i
        <5>2. HeapTypeOK'
          BY <5>1, <2>h, PushFacts DEF Reschedule, HeapTypeOK, OneItem
        <5> QED
          BY <5>1, <5>2 DEF Reschedule
      <4> QED
        BY <4>1, <4>2
    <3> QED
      BY <2>15, <3>0, <3>1 DEF WorkerComplete, loopVars, HeapTypeOK
  <2>16. ASSUME NEW w \in Workers, WorkerSend(w) PROVE TypeOK'
    BY <2>16 DEF WorkerSend, heapVars, itemVars, loopVars, WorkerStates, Idle
  <2>17. ASSUME NEW w \in Workers, WorkerExit(w) PROVE TypeOK'
    BY <2>17 DEF WorkerExit, heapVars, itemVars, loopVars, WorkerStates, Exit
  <2>18. CASE ReadResult
    BY <2>18 DEF ReadResult, heapVars, itemVars, loopVars
  <2>19. CASE Tick
    BY <2>19 DEF Tick, Less1, heapVars
  <2>20. CASE UNCHANGED vars
    BY <2>20 DEF vars, heapVars, itemVars, loopVars
  <2> QED
    BY NextCases, <2>1, <2>2, <2>3, <2>4, <2>5, <2>6, <2>7, <2>8, <2>9, <2>10,
       <2>11, <2>12, <2>13, <2>14, <2>15, <2>16, <2>17, <2>18, <2>19, <2>20
<1> QED
  BY <1>1, <1>2, PTL DEF Spec

-----------------------------------------------------------------------------
(* How each action changes what is in flight.                              *)

LEMMA FlightSame ==
  ASSUME UNCHANGED <<jobs, worker>>, NEW k \in Keys
  PROVE  InFlight(k)' <=> InFlight(k)
BY DEF InFlight, Queued, PolledBy

LEMMA FlightEnqueue ==
  ASSUME TypeOK, NEW i \in due, Enqueue(i), NEW k \in Keys
  PROVE  InFlight(k)' <=> InFlight(k) \/ k = KeyOf(i)
<1>1. /\ KeyOf(i) \in Keys /\ jobs \in Seq(Keys) /\ worker' = worker
      /\ jobs' = Append(jobs, KeyOf(i))
  BY DEF TypeOK, Enqueue, KeyOf, Items
<1>2. /\ DOMAIN jobs = 1 .. Len(jobs) /\ DOMAIN jobs' = 1 .. Len(jobs) + 1
      /\ Len(jobs) \in Nat
      /\ \A n \in 1 .. Len(jobs) : jobs'[n] = jobs[n]
      /\ jobs'[Len(jobs) + 1] = KeyOf(i)
  BY <1>1
<1>3. Queued(k)' <=> Queued(k) \/ k = KeyOf(i)
  BY <1>2 DEF Queued
<1> QED
  BY <1>1, <1>3 DEF InFlight, PolledBy

\* What receiving the oldest job leaves in the channel.
LEMMA TakeJobs ==
  ASSUME TypeOK, NEW w \in Workers, WorkerTake(w)
  PROVE  /\ DOMAIN jobs = 1 .. Len(jobs) /\ DOMAIN jobs' = 1 .. Len(jobs) - 1
         /\ Len(jobs) \in Nat \ {0}
         /\ \A n \in 1 .. Len(jobs) - 1 : jobs'[n] = jobs[n + 1]
         /\ jobs[1] \in Keys
         /\ worker' = [worker EXCEPT ![w] = [at |-> "poll", key |-> jobs[1]]]
BY DEF TypeOK, WorkerTake

LEMMA FlightTake ==
  ASSUME TypeOK, NEW w \in Workers, WorkerTake(w), NEW k \in Keys
  PROVE  InFlight(k)' <=> InFlight(k)
<1> USE TakeJobs DEF PolledBy
<1>1. worker[w].at # "poll"
  BY DEF WorkerTake, Idle
<1>2. Queued(k) <=> jobs[1] = k \/ Queued(k)'
  <2>1. Queued(k) => jobs[1] = k \/ Queued(k)'
    <3> SUFFICES ASSUME NEW n \in DOMAIN jobs, jobs[n] = k, jobs[1] # k
                 PROVE  Queued(k)'
      BY DEF Queued
    <3>0. n \in 1 .. Len(jobs) /\ n # 1 /\ n - 1 \in 1 .. Len(jobs) - 1
      OBVIOUS
    <3>1. n - 1 \in DOMAIN jobs' /\ jobs'[n - 1] = k
      BY <3>0
    <3> QED
      BY <3>1 DEF Queued
  <2>2. jobs[1] = k => Queued(k)
    BY DEF Queued
  <2>3. Queued(k)' => Queued(k)
    <3> SUFFICES ASSUME NEW n \in DOMAIN jobs', jobs'[n] = k PROVE Queued(k)
      BY DEF Queued
    <3>0. n \in 1 .. Len(jobs) - 1 /\ n + 1 \in 1 .. Len(jobs)
      OBVIOUS
    <3>1. n + 1 \in DOMAIN jobs /\ jobs[n + 1] = k
      BY <3>0
    <3> QED
      BY <3>1 DEF Queued
  <2> QED
    BY <2>1, <2>2, <2>3
<1>3. worker \in [Workers -> WorkerStates]
  BY DEF TypeOK
<1>4. /\ PolledBy(w, k)' <=> jobs[1] = k
      /\ \A v \in Workers \ {w} : PolledBy(v, k)' <=> PolledBy(v, k)
  BY <1>3
<1> QED
  BY <1>1, <1>2, <1>4 DEF InFlight

LEMMA FlightComplete ==
  ASSUME TypeOK, NEW w \in Workers, WorkerComplete(w), NEW k \in Keys,
         k # worker[w].key
  PROVE  InFlight(k)' <=> InFlight(k)
<1>1. worker \in [Workers -> WorkerStates] /\ jobs' = jobs
        /\ worker' = [worker EXCEPT ![w] = HasResult]
  BY DEF TypeOK, WorkerComplete
<1>2. \A v \in Workers : PolledBy(v, k)' <=> PolledBy(v, k)
  BY <1>1 DEF PolledBy, HasResult
<1> QED
  BY <1>1, <1>2 DEF InFlight, Queued

\* Sending a result and leaving concern workers that poll nothing.
LEMMA FlightDone ==
  ASSUME TypeOK, NEW w \in Workers, WorkerSend(w) \/ WorkerExit(w),
         NEW k \in Keys
  PROVE  /\ InFlight(k)' <=> InFlight(k)
         /\ \A v \in Workers : PolledBy(v, k)' <=> PolledBy(v, k)
<1>1. /\ worker \in [Workers -> WorkerStates] /\ jobs' = jobs
      /\ worker[w].at # "poll"
      /\ \E s \in {Idle, Exit} : worker' = [worker EXCEPT ![w] = s]
  BY DEF TypeOK, WorkerSend, WorkerExit, Idle, HasResult
<1>2. \A v \in Workers : PolledBy(v, k)' <=> PolledBy(v, k)
  BY <1>1 DEF PolledBy, Idle, Exit
<1> QED
  BY <1>1, <1>2 DEF InFlight, Queued

-----------------------------------------------------------------------------
\* Every path that pushes an item while schedulerLoop waits on the empty heap
\* signals the wakeup channel: Add, Resume and MarkComplete do, and Requeue
\* runs in the loop itself.
THEOREM WakeupNotLost == Spec => []NoLostWakeup
<1>1. Init => NoLostWakeup
  BY DEF Init, NoLostWakeup
<1>2. TypeOK /\ NoLostWakeup /\ [Next]_vars => NoLostWakeup'
  <2> SUFFICES ASSUME TypeOK, NoLostWakeup, [Next]_vars PROVE NoLostWakeup'
    OBVIOUS
  <2> USE DEF NoLostWakeup
  <2>h. HeapTypeOK /\ \A k \in Keys : heapIdx[k] # None => heapIdx[k] \in Items
    BY DEF HeapTypeOK, TypeOK
  <2>1. ASSUME NEW k \in Keys, NEW ms \in Intervals,
               Add(k, ms) \/ UpdateInterval(k, ms)
        PROVE  NoLostWakeup'
    BY <2>1 DEF Add, UpdateInterval, heapVars, loopVars
  <2>2. ASSUME NEW k \in Keys, Remove(k) \/ Pause(k) PROVE NoLostWakeup'
    <3>1. heap' \subseteq heap
      BY <2>2, <2>h, RemoveFacts DEF Remove, Pause, heapVars
    <3> QED
      BY <2>2, <3>1 DEF Remove, Pause, loopVars
  <2>3. ASSUME NEW k \in Keys, Resume(k) PROVE NoLostWakeup'
    BY <2>3 DEF Resume
  <2>4. CASE Stop \/ Woken \/ TimerFires \/ LoopExit \/ ReadResult \/ Tick
    BY <2>4 DEF Stop, Woken, TimerFires, LoopExit, ReadResult, Tick, heapVars,
                loopVars
  <2>5. CASE Peek
    BY <2>5 DEF Peek, heapVars
  <2>6. CASE Collect
    BY <2>6 DEF Collect
  <2>7. ASSUME NEW i \in due, Enqueue(i) \/ Requeue(i) PROVE NoLostWakeup'
    BY <2>7 DEF Enqueue, Requeue, Handled
  <2>8. ASSUME NEW w \in Workers, WorkerComplete(w) PROVE NoLostWakeup'
    BY <2>8 DEF WorkerComplete, MarkComplete, heapVars, loopVars
  <2>9. ASSUME NEW w \in Workers, WorkerTake(w) \/ WorkerSend(w) \/ WorkerExit(w)
        PROVE  NoLostWakeup'
    BY <2>9 DEF WorkerTake, WorkerSend, WorkerExit, heapVars, loopVars
  <2>10. CASE UNCHANGED vars
    BY <2>10 DEF vars, heapVars, loopVars
  <2> QED
    BY NextCases, <2>1, <2>2, <2>3, <2>4, <2>5, <2>6, <2>7, <2>8, <2>9, <2>10
<1> QED
  BY <1>1, <1>2, TypeCorrect, PTL DEF Spec

-----------------------------------------------------------------------------
(* NeverStranded is not inductive: phase 1 drops a due entry whose item is *)
(* marked as polling, so one must know that a marked item of the index is  *)
(* in dueItems or has a job in flight, and that dueItems is empty outside  *)
(* phase 2.                                                                *)

DueInQueue == loop # "queue" => due = {}

MarkedIsComing ==
  \A k \in Keys :
    heapIdx[k] # None /\ heapIdx[k] \in polling =>
      heapIdx[k] \in due \/ InFlight(k)

StrandedInv == DueInQueue /\ MarkedIsComing /\ NeverStranded

\* What an action that neither pops an item nor ends a job must show.
LEMMA StrandedKept ==
  ASSUME StrandedInv, DueInQueue',
         \A k \in Keys : InFlight(k) => InFlight(k)',
         \A k \in Keys : heapIdx'[k] # None =>
           \/ /\ heapIdx'[k] = heapIdx[k]
              /\ heapIdx[k] \in due => heapIdx[k] \in due'
              /\ heapIdx[k] \in heap => heapIdx[k] \in heap' \/ k \in paused'
              /\ k \in paused => k \in paused' \/ heapIdx[k] \in heap'
              /\ heapIdx[k] \in polling' => heapIdx[k] \in polling
           \/ heapIdx'[k] \in heap' /\ heapIdx'[k] \notin polling'
           \/ InFlight(k)'
  PROVE  StrandedInv'
BY DEF StrandedInv, MarkedIsComing, NeverStranded

LEMMA StrandedInvariant == Spec => []StrandedInv
<1>1. Init => StrandedInv
  BY DEF Init, StrandedInv, DueInQueue, MarkedIsComing, NeverStranded
<1>2. TypeOK /\ StrandedInv /\ [Next]_vars => StrandedInv'
  <2> SUFFICES ASSUME TypeOK, StrandedInv, [Next]_vars PROVE StrandedInv'
    OBVIOUS
  <2>h. /\ HeapTypeOK
        /\ \A k \in Keys :
             heapIdx[k] # None => heapIdx[k] \in Items /\ KeyOf(heapIdx[k]) = k
        /\ due \subseteq Items /\ heapIdx \in [Keys -> Items \cup {None}]
        /\ DueInQueue
    BY DEF HeapTypeOK, TypeOK, StrandedInv
  <2>1. ASSUME NEW k \in Keys, NEW ms \in Intervals, Add(k, ms)
        PROVE  StrandedInv'
    <3>1. PICK i \in Items : /\ heapIdx' = [heapIdx EXCEPT ![k] = i]
                             /\ polling' = polling \ {i}
                             /\ HeapPush(i)
      BY <2>1 DEF Add, PushNew
    <3>2. heap' = heap \cup {i}
      BY <3>1, <2>h, PushFacts
    <3>3. \A j \in Keys : InFlight(j) => InFlight(j)'
      BY <2>1, FlightSame DEF Add
    <3>4. DueInQueue' /\ due' = due /\ paused' = paused
      BY <2>1, <2>h DEF Add, loopVars, DueInQueue
    <3> QED
      BY <2>h, <3>1, <3>2, <3>3, <3>4, StrandedKept
  <2>2. ASSUME NEW k \in Keys, NEW ms \in Intervals, UpdateInterval(k, ms)
        PROVE  StrandedInv'
    <3>1. /\ \A j \in Keys : InFlight(j) => InFlight(j)'
          /\ UNCHANGED <<heapIdx, heap, due, loop, polling, paused>>
      BY <2>2, FlightSame DEF UpdateInterval, heapVars, loopVars
    <3> QED
      BY <3>1, <2>h, StrandedKept DEF DueInQueue
  <2>3. ASSUME NEW k \in Keys, Remove(k) PROVE StrandedInv'
    <3>1. /\ \A j \in Keys : InFlight(j) => InFlight(j)'
          /\ UNCHANGED <<due, loop, polling>>
          /\ heapIdx' = [heapIdx EXCEPT ![k] = None]
          /\ paused' = paused \ {k}
      BY <2>3, FlightSame DEF Remove, loopVars, itemVars
    <3>2. heap \ {heapIdx[k]} \subseteq heap'
      BY <2>3, <2>h, RemoveFacts DEF Remove, heapVars
    <3> QED
      BY <3>1, <3>2, <2>h, StrandedKept DEF DueInQueue
  <2>4. ASSUME NEW k \in Pausable, Pause(k) PROVE StrandedInv'
    <3>1. /\ \A j \in Keys : InFlight(j) => InFlight(j)'
          /\ UNCHANGED <<heapIdx, due, loop, polling>>
          /\ paused' = paused \cup {k}
      BY <2>4, FlightSame DEF Pause, loopVars, itemVars
    <3>2. heap \ {heapIdx[k]} \subseteq heap'
      BY <2>4, <2>h, RemoveFacts DEF Pause
    <3> QED
      BY <3>1, <3>2, <2>h, StrandedKept DEF DueInQueue
  <2>5. ASSUME NEW k \in Pausable, Resume(k) PROVE StrandedInv'
    <3>1. /\ \A j \in Keys : InFlight(j) => InFlight(j)'
          /\ UNCHANGED <<heapIdx, due, loop>>
          /\ paused' = paused \ {k}
          /\ polling' = polling \ {heapIdx[k]}
      BY <2>5, FlightSame DEF Resume, loopVars
    <3>2. heap' = heap \cup {heapIdx[k]}
      BY <2>5, <2>h, PushFacts DEF Resume
    <3> QED
      BY <3>1, <3>2, <2>h, StrandedKept DEF DueInQueue
  <2>6. CASE Stop \/ ReadResult \/ Peek \/ Woken \/ TimerFires \/ LoopExit \/ Tick
    <3>1. /\ \A j \in Keys : InFlight(j) => InFlight(j)'
          /\ UNCHANGED <<heapIdx, heap, due, polling, paused>>
          /\ DueInQueue'
      BY <2>6, <2>h, FlightSame DEF Stop, ReadResult, Peek, Woken, TimerFires,
         LoopExit, Tick, heapVars, itemVars, loopVars, DueInQueue
    <3> QED
      BY <3>1, <2>h, StrandedKept
  <2>7. CASE Collect
    <3>1. PICK gone \in SUBSET Due, part \in SUBSET (Due \cap dup) :
            /\ heap' = heap \ gone
            /\ due' = (gone \cup part) \ polling
            /\ polling' = polling \cup gone \cup part
      BY <2>7 DEF Collect
    <3>2. /\ \A j \in Keys : InFlight(j) => InFlight(j)'
          /\ UNCHANGED <<heapIdx, paused>>
          /\ DueInQueue' /\ due = {}
      BY <2>7, <2>h, FlightSame DEF Collect, DueInQueue
    <3> QED
      BY <3>1, <3>2 DEF StrandedInv, MarkedIsComing, NeverStranded
  <2>8. ASSUME NEW i \in due, Enqueue(i) PROVE StrandedInv'
    <3>1. /\ \A j \in Keys : InFlight(j)' <=> InFlight(j) \/ j = KeyOf(i)
          /\ UNCHANGED <<heapIdx, heap, polling, paused>>
          /\ due' = due \ {i} /\ DueInQueue'
      BY <2>8, FlightEnqueue DEF Enqueue, Handled, heapVars, itemVars, DueInQueue
    <3> QED
      BY <3>1, <2>h, StrandedKept
  <2>9. ASSUME NEW i \in due, Requeue(i) PROVE StrandedInv'
    <3>1. /\ \A j \in Keys : InFlight(j) => InFlight(j)'
          /\ UNCHANGED <<heapIdx, paused>>
          /\ polling' = polling \ {i}
          /\ due' = due \ {i} /\ DueInQueue'
      BY <2>9, FlightSame DEF Requeue, Handled, DueInQueue
    <3>2. heap' = heap \cup {i}
      BY <2>9, <2>h, PushFacts DEF Requeue
    <3> QED
      BY <3>1, <3>2, <2>h, StrandedKept
  <2>10. ASSUME NEW w \in Workers, WorkerTake(w) \/ WorkerSend(w) \/ WorkerExit(w)
         PROVE  StrandedInv'
    <3>1. /\ \A j \in Keys : InFlight(j) => InFlight(j)'
          /\ UNCHANGED <<heapIdx, heap, due, loop, polling, paused>>
      BY <2>10, FlightTake, FlightDone DEF WorkerTake, WorkerSend, WorkerExit,
         heapVars, itemVars, loopVars
    <3> QED
      BY <3>1, <2>h, StrandedKept DEF DueInQueue
  <2>11. ASSUME NEW w \in Workers, WorkerComplete(w) PROVE StrandedInv'
    <3> DEFINE k == worker[w].key
               i == heapIdx[k]
    <3>1. k \in Keys
      BY <2>11 DEF TypeOK, WorkerComplete, WorkerStates
    <3>2. /\ \A j \in Keys \ {k} : InFlight(j) => InFlight(j)'
          /\ UNCHANGED <<heapIdx, due, loop>> /\ DueInQueue'
      BY <2>11, <2>h, FlightComplete DEF WorkerComplete, loopVars, DueInQueue
    <3>3. CASE i = None
      <4>1. UNCHANGED <<heap, polling, paused>>
        BY <3>3, <2>11 DEF WorkerComplete, MarkComplete, heapVars
      <4> QED
        BY <3>1, <3>2, <3>3, <4>1
        DEF StrandedInv, MarkedIsComing, NeverStranded
    <3>4. CASE i # None
      <4>1. i \in Items /\ Reschedule(i) /\ paused' = paused \ {k}
        BY <3>1, <3>4, <2>11, <2>h DEF WorkerComplete, MarkComplete
      <4>2. heap' = heap \cup {i} /\ polling' = polling \ {i}
        BY <4>1, <2>h, PushFacts DEF Reschedule, HeapTypeOK
      <4> QED
        BY <2>h, <3>1, <3>2, <4>1, <4>2
        DEF StrandedInv, MarkedIsComing, NeverStranded
    <3> QED
      BY <3>3, <3>4
  <2>12. CASE UNCHANGED vars
    <3>1. /\ \A j \in Keys : InFlight(j) => InFlight(j)'
          /\ UNCHANGED <<heapIdx, heap, due, loop, polling, paused>>
      BY <2>12, FlightSame DEF vars, heapVars, itemVars, loopVars
    <3> QED
      BY <3>1, <2>h, StrandedKept DEF DueInQueue
  <2> QED
    BY NextCases, <2>1, <2>2, <2>3, <2>4, <2>5, <2>6, <2>7, <2>8, <2>9, <2>10,
       <2>11, <2>12
<1> QED
  BY <1>1, <1>2, TypeCorrect, PTL DEF Spec

\* A key of the index always has a next poll ahead, whatever the clients do.
THEOREM NeverStrandedHolds == Spec => []NeverStranded
<1>1. StrandedInv => NeverStranded
  BY DEF StrandedInv
<1> QED
  BY <1>1, StrandedInvariant, PTL

-----------------------------------------------------------------------------
(* How each action keeps a key's jobs single.                              *)

LEMMA SingleSame ==
  ASSUME UNCHANGED <<jobs, worker>>, NEW k \in Keys, SingleFlight(k)
  PROVE  SingleFlight(k)'
BY DEF SingleFlight, Queued, PolledBy

LEMMA SingleEnqueue ==
  ASSUME TypeOK, NEW i \in due, Enqueue(i), NEW k \in Keys, SingleFlight(k),
         k = KeyOf(i) => ~InFlight(k)
  PROVE  SingleFlight(k)'
<1>1. /\ KeyOf(i) \in Keys /\ jobs \in Seq(Keys) /\ worker' = worker
      /\ jobs' = Append(jobs, KeyOf(i))
  BY DEF TypeOK, Enqueue, KeyOf, Items
<1>2. /\ DOMAIN jobs = 1 .. Len(jobs) /\ DOMAIN jobs' = 1 .. Len(jobs) + 1
      /\ Len(jobs) \in Nat
      /\ \A n \in 1 .. Len(jobs) : jobs'[n] = jobs[n]
      /\ jobs'[Len(jobs) + 1] = KeyOf(i)
  BY <1>1
<1>3. \A m, n \in DOMAIN jobs' : jobs'[m] = k /\ jobs'[n] = k => m = n
  BY <1>2 DEF SingleFlight, InFlight, Queued
<1>4. Queued(k)' => Queued(k) \/ k = KeyOf(i)
  BY <1>2 DEF Queued
<1> QED
  BY <1>1, <1>3, <1>4 DEF SingleFlight, InFlight, PolledBy

LEMMA SingleTake ==
  ASSUME TypeOK, NEW w \in Workers, WorkerTake(w), NEW k \in Keys,
         SingleFlight(k)
  PROVE  SingleFlight(k)'
<1> USE TakeJobs
<1>1. worker \in [Workers -> WorkerStates] /\ worker[w].at # "poll"
  BY DEF WorkerTake, TypeOK, Idle
<1>2. /\ PolledBy(w, k)' <=> jobs[1] = k
      /\ \A v \in Workers \ {w} : PolledBy(v, k)' <=> PolledBy(v, k)
  BY <1>1 DEF PolledBy
<1>3. \A n \in DOMAIN jobs' : n \in 1 .. Len(jobs) - 1 /\ n + 1 \in 1 .. Len(jobs)
                              /\ jobs'[n] = jobs[n + 1]
  OBVIOUS
<1>4. ASSUME NEW m \in DOMAIN jobs', NEW n \in DOMAIN jobs',
             jobs'[m] = k, jobs'[n] = k
      PROVE  m = n
  <2>1. m + 1 = n + 1
    BY <1>3, <1>4 DEF SingleFlight
  <2> QED
    BY <2>1, <1>3
<1>5. Queued(k)' => Queued(k) /\ jobs[1] # k
  <2> SUFFICES ASSUME NEW n \in DOMAIN jobs', jobs'[n] = k
               PROVE  Queued(k) /\ jobs[1] # k
    BY DEF Queued
  <2>1. n + 1 \in DOMAIN jobs /\ jobs[n + 1] = k /\ n + 1 # 1 /\ 1 \in DOMAIN jobs
    BY <1>3
  <2> QED
    BY <2>1 DEF Queued, SingleFlight
<1>6. jobs[1] = k => Queued(k)
  BY DEF Queued
<1> QED
  BY <1>2, <1>4, <1>5, <1>6 DEF SingleFlight

LEMMA SingleComplete ==
  ASSUME TypeOK, NEW w \in Workers, WorkerComplete(w), NEW k \in Keys,
         SingleFlight(k)
  PROVE  /\ SingleFlight(k)'
         /\ k = worker[w].key => ~InFlight(k)'
<1>1. worker \in [Workers -> WorkerStates] /\ jobs' = jobs
        /\ worker' = [worker EXCEPT ![w] = HasResult] /\ worker[w].at = "poll"
  BY DEF TypeOK, WorkerComplete
<1>2. /\ \A v \in Workers : PolledBy(v, k)' => PolledBy(v, k) /\ v # w
      /\ k = worker[w].key => PolledBy(w, k)
  BY <1>1 DEF PolledBy, HasResult
<1>3. Queued(k)' <=> Queued(k)
  BY <1>1 DEF Queued
<1> QED
  BY <1>1, <1>2, <1>3 DEF SingleFlight, InFlight

LEMMA SingleDone ==
  ASSUME TypeOK, NEW w \in Workers, WorkerSend(w) \/ WorkerExit(w),
         NEW k \in Keys, SingleFlight(k)
  PROVE  SingleFlight(k)'
<1>1. jobs' = jobs
  BY DEF WorkerSend, WorkerExit
<1> QED
  BY <1>1, FlightDone DEF SingleFlight, Queued

-----------------------------------------------------------------------------
(* StableOnce is inductive once a stable key with a job in flight is known *)
(* to be in the index: otherwise Add could create an item beside the job.  *)

Stable == Keys \ (Removable \cup Pausable)

OnceInv(k) ==
  /\ SingleFlight(k)
  /\ InFlight(k) => heapIdx[k] # None
  /\ heapIdx[k] # None =>
       /\ heapIdx[k] \notin dup
       /\ ~(heapIdx[k] \in heap /\ heapIdx[k] \in due)
       /\ ~(heapIdx[k] \in heap \cup due /\ InFlight(k))
  /\ \A i \in heap \cup due : KeyOf(i) = k => i = heapIdx[k]

\* An action that leaves the places of a key's items alone keeps OnceInv.
LEMMA OnceKept ==
  ASSUME NEW k \in Keys, OnceInv(k), heapIdx'[k] = heapIdx[k],
         heapIdx[k] # None => KeyOf(heapIdx[k]) = k,
         SingleFlight(k)', InFlight(k)' <=> InFlight(k),
         \A i \in heap' \cup due' : KeyOf(i) = k =>
           (i \in heap' => i \in heap) /\ (i \in due' => i \in due),
         heapIdx[k] \in dup' => heapIdx[k] \in dup
  PROVE  OnceInv(k)'
BY DEF OnceInv

LEMMA OnceStep ==
  ASSUME TypeOK, DueInQueue, [Next]_vars, NEW k \in Stable, OnceInv(k)
  PROVE  OnceInv(k)'
<1> USE DEF Stable
<1>h. /\ HeapTypeOK /\ SingleFlight(k)
      /\ \A j \in Keys :
           heapIdx[j] # None => heapIdx[j] \in Items /\ KeyOf(heapIdx[j]) = j
      /\ due \subseteq Items /\ heapIdx \in [Keys -> Items \cup {None}]
      /\ None \notin Items /\ heap \subseteq Items
  BY DEF HeapTypeOK, TypeOK, OnceInv, Items
<1>1. ASSUME NEW j \in Keys, NEW ms \in Intervals, Add(j, ms) PROVE OnceInv(k)'
  <2>1. PICK i \in Items \ Reachable : /\ heapIdx' = [heapIdx EXCEPT ![j] = i]
                                       /\ KeyOf(i) = j
                                       /\ HeapPush(i)
    BY <1>1 DEF Add, PushNew
  <2>2. heap' = heap \cup {i} /\ dup' = dup /\ i \notin heap \cup due /\ i # None
          /\ i \notin dup
    BY <2>1, <1>h, PushFacts DEF Reachable, HeapTypeOK, Items
  <2>3. SingleFlight(k)' /\ (InFlight(k)' <=> InFlight(k)) /\ due' = due
          /\ heapIdx[j] = None
    BY <1>1, <1>h, FlightSame, SingleSame DEF Add, loopVars
  <2>4. CASE j = k
    BY <2>1, <2>2, <2>3, <2>4, <1>h DEF OnceInv
  <2>5. CASE j # k
    BY <2>1, <2>2, <2>3, <2>5, <1>h DEF OnceInv
  <2> QED
    BY <2>4, <2>5
<1>2. ASSUME NEW j \in Keys, NEW ms \in Intervals, UpdateInterval(j, ms)
      PROVE  OnceInv(k)'
  BY <1>2, <1>h, FlightSame, SingleSame, OnceKept
  DEF UpdateInterval, heapVars, loopVars
<1>3. ASSUME NEW j \in Removable, Remove(j) PROVE OnceInv(k)'
  <2>1. j # k /\ j \in Keys
    OBVIOUS
  <2>2. heap' \subseteq heap /\ dup' \subseteq dup
    BY <1>3, <1>h, <2>1, RemoveFacts DEF Remove, heapVars
  <2>3. heapIdx'[k] = heapIdx[k] /\ due' = due
    BY <1>3, <2>1, <1>h DEF Remove, loopVars
  <2> QED
    BY <1>3, <1>h, <2>2, <2>3, FlightSame, SingleSame, OnceKept DEF Remove
<1>4. ASSUME NEW j \in Pausable, Pause(j) PROVE OnceInv(k)'
  <2>1. heap' \subseteq heap /\ dup' \subseteq dup
    BY <1>4, <1>h, RemoveFacts DEF Pause
  <2> QED
    BY <1>4, <1>h, <2>1, FlightSame, SingleSame, OnceKept DEF Pause, loopVars
<1>5. ASSUME NEW j \in Pausable, Resume(j) PROVE OnceInv(k)'
  <2>1. heap' = heap \cup {heapIdx[j]} /\ dup' \subseteq dup \cup {heapIdx[j]}
          /\ KeyOf(heapIdx[j]) = j /\ j # k
    BY <1>5, <1>h, PushFacts DEF Resume, HeapPush
  <2>2. SingleFlight(k)' /\ (InFlight(k)' <=> InFlight(k)) /\ due' = due
          /\ heapIdx' = heapIdx
    BY <1>5, <1>h, FlightSame, SingleSame DEF Resume, loopVars
  <2> QED
    BY <2>1, <2>2, <1>h DEF OnceInv
<1>6. CASE Stop \/ ReadResult \/ Peek \/ Woken \/ TimerFires \/ LoopExit \/ Tick
  <2>1. UNCHANGED <<heapIdx, heap, dup, due, jobs, worker>>
    BY <1>6 DEF Stop, ReadResult, Peek, Woken, TimerFires, LoopExit, Tick,
       heapVars, loopVars
  <2> QED
    BY <2>1, <1>h, FlightSame, SingleSame, OnceKept
<1>7. CASE Collect
  <2>1. PICK gone \in SUBSET Due, part \in SUBSET (Due \cap dup) :
          /\ heap' = heap \ gone
          /\ \E still \in SUBSET part : dup' = (dup \ (gone \cup part)) \cup still
          /\ due' = (gone \cup part) \ polling
    BY <1>7 DEF Collect
  <2>2. SingleFlight(k)' /\ (InFlight(k)' <=> InFlight(k)) /\ due = {}
          /\ heapIdx' = heapIdx
    BY <1>7, <1>h, FlightSame, SingleSame DEF Collect, DueInQueue
  <2> QED
    BY <2>1, <2>2 DEF OnceInv, Due
<1>8. ASSUME NEW i \in due, Enqueue(i) PROVE OnceInv(k)'
  <2>1. /\ UNCHANGED <<heapIdx, heap, dup>> /\ due' = due \ {i}
        /\ InFlight(k)' <=> InFlight(k) \/ k = KeyOf(i)
    BY <1>8, FlightEnqueue DEF Enqueue, Handled, heapVars
  <2>2. k = KeyOf(i) => i = heapIdx[k] /\ i # None /\ ~InFlight(k)
    BY <1>h DEF OnceInv, Items
  <2>3. SingleFlight(k)'
    BY <1>8, <1>h, <2>2, SingleEnqueue
  <2> QED
    BY <2>1, <2>2, <2>3, <1>h DEF OnceInv
<1>9. ASSUME NEW i \in due, Requeue(i) PROVE OnceInv(k)'
  <2>1. /\ UNCHANGED heapIdx /\ due' = due \ {i} /\ SingleFlight(k)'
        /\ InFlight(k)' <=> InFlight(k)
    BY <1>9, <1>h, FlightSame, SingleSame DEF Requeue, Handled
  <2>2. /\ heap' = heap \cup {i} /\ dup' \subseteq dup \cup {i}
        /\ i \notin heap => dup' = dup
    BY <1>9, <1>h, PushFacts DEF Requeue, HeapPush
  <2>3. k = KeyOf(i) => i = heapIdx[k] /\ i # None /\ i \notin heap
    BY <1>h DEF OnceInv, Items
  <2> QED
    BY <2>1, <2>2, <2>3, <1>h DEF OnceInv, HeapTypeOK
<1>10. ASSUME NEW w \in Workers, WorkerTake(w) PROVE OnceInv(k)'
  BY <1>10, <1>h, FlightTake, SingleTake, OnceKept
  DEF WorkerTake, heapVars, loopVars
<1>11. ASSUME NEW w \in Workers, WorkerSend(w) \/ WorkerExit(w) PROVE OnceInv(k)'
  <2>1. UNCHANGED <<heapIdx, heap, dup, due>>
    BY <1>11 DEF WorkerSend, WorkerExit, heapVars, loopVars
  <2> QED
    BY <1>11, <2>1, <1>h, FlightDone, SingleDone, OnceKept
<1>12. ASSUME NEW w \in Workers, WorkerComplete(w) PROVE OnceInv(k)'
  <2> DEFINE j == worker[w].key
  <2>1. j \in Keys /\ PolledBy(w, j)
    BY <1>12 DEF TypeOK, WorkerComplete, WorkerStates, PolledBy
  <2>a. UNCHANGED <<heapIdx, due>>
    BY <1>12 DEF WorkerComplete, loopVars
  <2>b. SingleFlight(k)' /\ (j = k => ~InFlight(k)')
    BY <1>12, <1>h, SingleComplete
  <2>c. j = k => InFlight(k)
    BY <2>1 DEF InFlight
  <2>d. j # k => (InFlight(k)' <=> InFlight(k))
    BY <1>12, FlightComplete
  <2>2. UNCHANGED <<heapIdx, due>> /\ SingleFlight(k)'
          /\ (j = k => InFlight(k) /\ ~InFlight(k)')
          /\ (j # k => (InFlight(k)' <=> InFlight(k)))
    BY <2>a, <2>b, <2>c, <2>d
  <2>3. CASE heapIdx[j] = None
    <3>1. UNCHANGED <<heap, dup>> /\ j # k
      BY <2>3, <2>2, <1>12 DEF WorkerComplete, MarkComplete, heapVars, OnceInv
    <3> QED
      BY <1>h, <2>2, <3>1, OnceKept
  <2>4. CASE heapIdx[j] # None
    <3>1. heapIdx[j] \in Items /\ KeyOf(heapIdx[j]) = j /\ Reschedule(heapIdx[j])
      BY <2>4, <2>1, <1>12, <1>h DEF WorkerComplete, MarkComplete
    <3>2. /\ heap' = heap \cup {heapIdx[j]} /\ dup' \subseteq dup \cup {heapIdx[j]}
          /\ heapIdx[j] \notin heap => dup' = dup
      BY <3>1, <1>h, PushFacts DEF Reschedule, HeapPush, HeapTypeOK
    <3>3. CASE j = k
      BY <3>1, <3>2, <3>3, <2>2, <1>h DEF OnceInv, HeapTypeOK
    <3>4. CASE j # k
      BY <3>1, <3>2, <3>4, <2>2, <1>h DEF OnceInv
    <3> QED
      BY <3>3, <3>4
  <2> QED
    BY <2>3, <2>4
<1>13. CASE UNCHANGED vars
  <2>1. UNCHANGED <<heapIdx, heap, dup, due, jobs, worker>>
    BY <1>13 DEF vars, heapVars, loopVars
  <2> QED
    BY <2>1, <1>h, FlightSame, SingleSame, OnceKept
<1> QED
  BY NextCases, <1>1, <1>2, <1>3, <1>4, <1>5, <1>6, <1>7, <1>8, <1>9, <1>10,
     <1>11, <1>12, <1>13

OnceInvAll == \A k \in Stable : OnceInv(k)

LEMMA OnceInvariant == Spec => []OnceInvAll
<1>1. Init => OnceInvAll
  <2> SUFFICES ASSUME Init, NEW k \in Stable PROVE OnceInv(k)
    BY DEF OnceInvAll
  <2>1. ~Queued(k) /\ DOMAIN jobs = {}
    BY DEF Init, Queued
  <2>2. \A w \in Workers : ~PolledBy(w, k)
    BY DEF Init, PolledBy, Idle
  <2>3. heapIdx[k] = None /\ heap \cup due = {}
    BY DEF Init, Stable
  <2> QED
    BY <2>1, <2>2, <2>3 DEF OnceInv, SingleFlight, InFlight
<1>2. TypeOK /\ StrandedInv /\ OnceInvAll /\ [Next]_vars => OnceInvAll'
  BY OnceStep DEF OnceInvAll, StrandedInv
<1> QED
  BY <1>1, <1>2, TypeCorrect, StrandedInvariant, PTL DEF Spec

\* A key that clients add and leave alone is in one place at a time, so two
\* workers never poll it at once, however the other keys come and go.
THEOREM StableOnceHolds == Spec => []StableOnce
<1>1. OnceInvAll => StableOnce
  BY DEF OnceInvAll, OnceInv, StableOnce, Stable
<1> QED
  BY <1>1, OnceInvariant, PTL

-----------------------------------------------------------------------------
\* If clients never call Remove or Pause, the heap stays a heap and the loop
\* never sleeps past an item: an entry's key is written only while its item is
\* out of the heap (from StableOnce), and every push outside the loop leaves a
\* token.
THEOREM NoOversleepHolds ==
  ASSUME Removable = {}, Pausable = {}
  PROVE  Spec => []NoOversleep
<1>1. Init => NoOversleep
  BY DEF Init, NoOversleep
<1>2. TypeOK /\ OnceInvAll /\ NoOversleep /\ [Next]_vars => NoOversleep'
  <2> SUFFICES ASSUME TypeOK, OnceInvAll, NoOversleep, [Next]_vars
               PROVE  NoOversleep'
    OBVIOUS
  <2>h. /\ HeapTypeOK /\ wait \in [Items -> Nat] /\ sleepMs \in Nat
        /\ \A k \in Keys : heapIdx[k] # None => heapIdx[k] \in Items
        /\ \A k \in Keys : OnceInv(k)
        /\ ordered /\ due \subseteq Items
    BY DEF HeapTypeOK, TypeOK, OnceInvAll, Stable, NoOversleep
  <2>1. ASSUME NEW k \in Keys, NEW ms \in Intervals, Add(k, ms)
        PROVE  NoOversleep'
    <3>1. ordered'
      BY <2>1, <2>h DEF Add, PushNew, HeapPush, Reachable
    <3> QED
      BY <2>1, <3>1 DEF Add, NoOversleep
  <2>2. ASSUME NEW k \in Keys, NEW ms \in Intervals, UpdateInterval(k, ms)
        PROVE  NoOversleep'
    BY <2>2 DEF UpdateInterval, NoOversleep, heapVars, loopVars
  <2>3. CASE Stop \/ ReadResult \/ Woken \/ TimerFires \/ LoopExit
    BY <2>3 DEF Stop, ReadResult, Woken, TimerFires, LoopExit, NoOversleep,
                heapVars, itemVars, loopVars
  <2>4. CASE Peek
    BY <2>4, <2>h DEF Peek, Roots, NoOversleep, heapVars, itemVars
  <2>5. CASE Collect
    BY <2>5, <2>h DEF Collect, NoOversleep
  <2>6. ASSUME NEW i \in due, Enqueue(i) PROVE NoOversleep'
    BY <2>6 DEF Enqueue, Handled, NoOversleep, heapVars
  <2>7. ASSUME NEW i \in due, Requeue(i) PROVE NoOversleep'
    <3>1. KeyOf(i) \in Keys /\ i # None
      BY <2>h DEF KeyOf, Items
    <3>2. i \notin heap
      BY <3>1, <2>h DEF OnceInv
    <3> QED
      BY <2>7, <2>h, <3>2 DEF Requeue, HeapPush, Handled, NoOversleep
  <2>8. ASSUME NEW w \in Workers, WorkerComplete(w) PROVE NoOversleep'
    <3>1. worker[w].key \in Keys /\ PolledBy(w, worker[w].key)
      BY <2>8 DEF TypeOK, WorkerComplete, WorkerStates, PolledBy
    <3>2. heapIdx[worker[w].key] # None /\ heapIdx[worker[w].key] \notin heap
      BY <3>1, <2>h DEF OnceInv, InFlight
    <3>3. ordered' /\ wakeup'
      BY <2>8, <3>2, <2>h
      DEF WorkerComplete, MarkComplete, Reschedule, HeapPush, HeapTypeOK
    <3> QED
      BY <3>3 DEF NoOversleep
  <2>9. ASSUME NEW w \in Workers, WorkerTake(w) \/ WorkerSend(w) \/ WorkerExit(w)
        PROVE  NoOversleep'
    BY <2>9 DEF WorkerTake, WorkerSend, WorkerExit, NoOversleep, heapVars,
                itemVars, loopVars
  <2>10. CASE Tick
    <3>1. \A i \in heap : sleepMs <= wait[i] => Less1(sleepMs) <= Less1(wait[i])
      BY <2>h DEF Less1, HeapTypeOK
    <3> QED
      BY <2>10, <3>1, <2>h DEF Tick, NoOversleep, heapVars, HeapTypeOK
  <2>11. CASE UNCHANGED vars
    BY <2>11 DEF vars, NoOversleep, heapVars, itemVars, loopVars
  <2> QED
    BY NextCases, <2>1, <2>2, <2>3, <2>4, <2>5, <2>6, <2>7, <2>8, <2>9, <2>10,
       <2>11
<1> QED
  BY <1>1, <1>2, TypeCorrect, OnceInvariant, PTL DEF Spec
=============================================================================
