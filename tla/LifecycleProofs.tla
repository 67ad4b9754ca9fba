--------------------------- MODULE LifecycleProofs ---------------------------
(***************************************************************************)
(* Proofs about Lifecycle, for every set of pollers, clients and workers,  *)
(* every choice of requests and every health threshold.                    *)
(***************************************************************************)
EXTENDS Lifecycle, TLAPS

USE ThresholdAssumption, LifecycleAssumption

-----------------------------------------------------------------------------
(* The methods of a state record return a record, and keep its health in   *)
(* agreement with its failures.                                            *)

LEMMA NewState == NewPollerState \in PollerStates /\ HealthFits(NewPollerState)
BY DEF NewPollerState, PollerStates, AdminStates, OperStates, HealthStates, HealthFits

LEMMA AdminMethod ==
  ASSUME NEW s \in PollerStates, NEW admin \in AdminStates
  PROVE  /\ SetAdmin(s, admin) \in PollerStates
         /\ [s EXCEPT !.admin = admin] \in PollerStates
         /\ HealthFits(s) => /\ HealthFits(SetAdmin(s, admin))
                             /\ HealthFits([s EXCEPT !.admin = admin])
BY DEF SetAdmin, PollerStates, HealthFits

LEMMA OperMethods ==
  ASSUME NEW s \in PollerStates
  PROVE  /\ Start(s) \in PollerStates /\ MarkRunning(s) \in PollerStates
         /\ Stop(s) \in PollerStates /\ MarkStopped(s) \in PollerStates
         /\ ClearDirty(s) \in PollerStates
         /\ HealthFits(s) =>
              /\ HealthFits(Start(s)) /\ HealthFits(MarkRunning(s))
              /\ HealthFits(Stop(s)) /\ HealthFits(MarkStopped(s))
              /\ HealthFits(ClearDirty(s))
<1>1. Start(s) \in PollerStates /\ (HealthFits(s) => HealthFits(Start(s)))
  BY DEF Start, PollerStates, OperStates, HealthFits
<1>2. MarkRunning(s) \in PollerStates /\ (HealthFits(s) => HealthFits(MarkRunning(s)))
  BY DEF MarkRunning, PollerStates, OperStates, HealthFits
<1>3. Stop(s) \in PollerStates /\ (HealthFits(s) => HealthFits(Stop(s)))
  BY DEF Stop, PollerStates, OperStates, HealthFits
<1>4. MarkStopped(s) \in PollerStates /\ (HealthFits(s) => HealthFits(MarkStopped(s)))
  BY DEF MarkStopped, PollerStates, OperStates, HealthFits
<1>5. ClearDirty(s) \in PollerStates /\ (HealthFits(s) => HealthFits(ClearDirty(s)))
  BY DEF ClearDirty, PollerStates, HealthFits
<1> QED
  BY <1>1, <1>2, <1>3, <1>4, <1>5

Recorded(s, f, n, h) ==
  [s EXCEPT !.failures = f, !.successes = n, !.health = h, !.dirty = TRUE]

LEMMA CountersSet ==
  ASSUME NEW s \in PollerStates, NEW f \in 0 .. HealthDownThreshold,
         NEW n \in 0 .. HealthRecoveryCount, NEW h \in HealthStates
  PROVE  /\ Recorded(s, f, n, h) \in PollerStates
         /\ Recorded(s, f, n, h).failures = f
         /\ Recorded(s, f, n, h).health = h
BY DEF PollerStates, Recorded

LEMMA ResultMethod ==
  ASSUME NEW s \in PollerStates, NEW success \in BOOLEAN
  PROVE  /\ RecordPollResult(s, success) \in PollerStates
         /\ HealthFits(s) => HealthFits(RecordPollResult(s, success))
<1>0. /\ s.health \in HealthStates
      /\ s.failures \in 0 .. HealthDownThreshold
      /\ s.successes \in 0 .. HealthRecoveryCount
  BY DEF PollerStates
<1>1. RecordSuccess(s) \in PollerStates /\ HealthFits(RecordSuccess(s))
  <2> DEFINE n == Inc(s.successes, HealthRecoveryCount)
             h == IF s.health = "down" /\ n < HealthRecoveryCount THEN "down" ELSE "up"
  <2>1. n \in 0 .. HealthRecoveryCount /\ h \in HealthStates /\ 0 \in 0 .. HealthDownThreshold
    BY <1>0 DEF Inc, HealthStates
  <2>2. RecordSuccess(s) = Recorded(s, 0, n, h)
    BY DEF RecordSuccess, Recorded
  <2> HIDE DEF n, h
  <2>3. RecordSuccess(s) \in PollerStates /\ RecordSuccess(s).failures = 0
    BY <2>1, <2>2, CountersSet
  <2> QED
    BY <2>3 DEF HealthFits
<1>2. RecordFailure(s) \in PollerStates /\ HealthFits(RecordFailure(s))
  <2> DEFINE n == Inc(s.failures, HealthDownThreshold)
             h == HealthAfter(n, s.health)
  <2>1. n \in 0 .. HealthDownThreshold /\ 0 \in 0 .. HealthRecoveryCount
    BY <1>0 DEF Inc
  <2>2. RecordFailure(s) = Recorded(s, n, 0, h)
    BY DEF RecordFailure, Recorded
  <2> HIDE DEF n
  <2>3. h \in HealthStates
    BY <1>0, <2>1 DEF HealthAfter, HealthStates
  <2>4. /\ n >= HealthDownThreshold => h = "down"
        /\ n \in HealthDegradedThreshold .. HealthDownThreshold - 1 => h = "degraded"
    BY <2>1 DEF HealthAfter
  <2> HIDE DEF h
  <2>5. /\ RecordFailure(s) \in PollerStates
        /\ RecordFailure(s).failures = n /\ RecordFailure(s).health = h
    BY <2>1, <2>2, <2>3, CountersSet
  <2> QED
    BY <2>4, <2>5 DEF HealthFits
<1> QED
  BY <1>1, <1>2 DEF RecordPollResult

\* A saved copy has the health and the failures of the record.
LEMMA SavedCopy ==
  ASSUME NEW s \in PollerStates
  PROVE  Saved(s) \in SavedStates /\ (HealthFits(s) => HealthFits(Saved(s)))
BY DEF Saved, SavedStates, PollerStates, HealthFits

\* StateManager.Get returns a record.
LEMMA GotState ==
  ASSUME states \in [Keys -> PollerStates \cup {None}], NEW k \in Keys
  PROVE  /\ GetState(k) \in PollerStates
         /\ (states[k] # None => HealthFits(states[k])) => HealthFits(GetState(k))
BY NewState DEF GetState

-----------------------------------------------------------------------------
(* The moves of a goroutine.                                               *)

ProcOK ==
  /\ proc \in [Procs -> ProcStates]
  /\ \A p \in Procs : proc[p].at # "idle" => proc[p].key \in Keys

Steps == RequestSteps \cup {"idle", "result"}

LEMMA MoveOK ==
  ASSUME ProcOK, NEW p \in Procs, proc[p].at # "idle", NEW step \in Steps
  PROVE  Goto(p, step) => ProcOK'
BY DEF ProcOK, Goto, ProcStates, Steps

LEMMA DoneOK ==
  ASSUME ProcOK, NEW p \in Procs
  PROVE  Done(p) => ProcOK'
BY DEF ProcOK, Done, ProcStates, Idle

LEMMA EnterOK ==
  ASSUME ProcOK, NEW p \in Procs, NEW k \in Keys, NEW step \in Steps,
         NEW arg \in AdminStates \cup {None}, NEW ptr \in BOOLEAN
  PROVE  Enter(p, step, k, arg, ptr) => ProcOK'
BY DEF ProcOK, ProcStates, Steps, Enter

\* The disjuncts of Next.
LEMMA NextCases ==
  ASSUME Next
  PROVE  \/ \E p \in Procs, k \in Keys, op \in Ops, arg \in AdminStates \cup {None} :
              Request(p, k, op, arg)
         \/ \E p \in Procs : Step(p)
         \/ \E w \in Workers, k \in Keys : Poll(w, k)
         \/ \E w \in Workers, success \in BOOLEAN : Result(w, success)
         \/ FlushRead \/ FlushWrite \/ FlushFails \/ FlushClear
         \/ Crash \/ Load \/ (\E k \in Keys : Schedule(k)) \/ Listen
<1>1. ASSUME NEW p \in Clients, Requests(p)
      PROVE  \E q \in Procs, k \in Keys, op \in Ops, arg \in AdminStates \cup {None} :
               Request(q, k, op, arg)
  <2>1. PICK k \in Keys, op \in Ops : 
          \E arg \in IF op = "create" THEN CreateStates ELSE {None} : Request(p, k, op, arg)
    BY <1>1 DEF Requests
  <2>2. PICK arg \in IF op = "create" THEN CreateStates ELSE {None} : Request(p, k, op, arg)
    BY <2>1
  <2>3. arg \in AdminStates \cup {None} /\ p \in Procs
    BY DEF Procs
  <2> QED
    BY <2>2, <2>3
<1> QED
  BY <1>1 DEF Next

-----------------------------------------------------------------------------
\* A pointer into the map of StateManager points to a record of it.
PointersOK ==
  /\ \A p \in Procs : proc[p].held => states[proc[p].key] # None
  /\ \A p \in Procs : proc[p].held => proc[p].at # "idle"
  /\ \A k \in held : states[k] # None

\* Nothing goes on in a process that is not there.
DownIdle ==
  phase = "down" =>
    /\ \A p \in Procs : proc[p] = Idle
    /\ flush = "idle" /\ held = {} /\ sched = {} /\ bootTodo = {}

TypeInv == TypeOK /\ PointersOK /\ DownIdle

RecordsStay == \A k \in Keys : states[k] # None => states'[k] # None

LEMMA SetStays ==
  ASSUME TypeOK, NEW k \in Keys, NEW s \in PollerStates,
         states' = [states EXCEPT ![k] = s]
  PROVE  RecordsStay /\ states'[k] # None
BY DEF TypeOK, RecordsStay

\* While no record leaves the map, a goroutine that moves on keeps its pointer
\* good, one that is done drops it, and one that enters a step with a pointer
\* has it from the map.
LEMMA PointersKept ==
  ASSUME TypeInv, RecordsStay, held' \subseteq held,
         \A q \in Procs :
           proc'[q].held =>
             \/ states'[proc'[q].key] # None /\ proc'[q].at # "idle"
             \/ /\ proc[q].held
                /\ proc'[q].key = proc[q].key
                /\ proc[q].at # "idle" => proc'[q].at # "idle"
  PROVE  PointersOK'
<1>1. ASSUME NEW q \in Procs, proc[q].held
      PROVE  proc[q].at # "idle" /\ proc[q].key \in Keys /\ states[proc[q].key] # None
  BY <1>1 DEF TypeInv, TypeOK, PointersOK
<1>2. ASSUME NEW q \in Procs, proc'[q].held
      PROVE  states'[proc'[q].key] # None /\ proc'[q].at # "idle"
  BY <1>1, <1>2 DEF RecordsStay
<1>3. \A k \in held' : states'[k] # None
  BY DEF TypeInv, TypeOK, PointersOK, RecordsStay
<1> QED
  BY <1>2, <1>3 DEF PointersOK

LEMMA PointersStay ==
  ASSUME TypeInv, RecordsStay, NEW p \in Procs, NEW step \in Steps \ {"idle"},
         Done(p) \/ Goto(p, step), held' \subseteq held
  PROVE  PointersOK'
<1>1. ASSUME NEW q \in Procs, proc'[q].held
      PROVE  /\ proc[q].held
             /\ proc'[q].key = proc[q].key
             /\ proc[q].at # "idle" => proc'[q].at # "idle"
  BY <1>1 DEF TypeInv, TypeOK, ProcStates, Done, Goto, Idle
<1> QED
  BY <1>1, PointersKept

LEMMA PointersEnter ==
  ASSUME TypeInv, RecordsStay, NEW p \in Procs, NEW step \in Steps \ {"idle"},
         NEW k, NEW arg, NEW ptr \in BOOLEAN, Enter(p, step, k, arg, ptr),
         ptr => states'[k] # None, held' \subseteq held
  PROVE  PointersOK'
<1>1. ASSUME NEW q \in Procs, proc'[q].held
      PROVE  \/ states'[proc'[q].key] # None /\ proc'[q].at # "idle"
             \/ proc'[q] = proc[q]
  BY <1>1 DEF TypeInv, TypeOK, Enter
<1> QED
  BY <1>1, PointersKept

LEMMA PointersStep == TypeInv /\ [Next]_vars => PointersOK'
<1> SUFFICES ASSUME TypeInv, [Next]_vars PROVE PointersOK'
  OBVIOUS
<1>p. ProcOK
  BY DEF TypeInv, TypeOK, ProcOK
<1>s. states \in [Keys -> PollerStates \cup {None}]
  BY DEF TypeInv, TypeOK
<1>t. \A q \in Procs : proc[q].held => proc[q].key \in Keys
  BY DEF TypeInv, TypeOK, PointersOK
<1>1. ASSUME NEW p \in Procs, NEW k \in Keys, NEW op \in Ops,
             NEW arg \in AdminStates \cup {None}, Request(p, k, op, arg)
      PROVE  PointersOK'
  BY <1>1, PointersEnter DEF Request, RecordsStay, Steps, RequestSteps, flushVars
<1>2. ASSUME NEW p \in Procs, Step(p) PROVE PointersOK'
  <2>k. proc[p].at # "idle" /\ Key(p) \in Keys
    BY <1>2, <1>p DEF Step, ProcOK, Key, At, CreateRefused, Create, CreateAdd, Enable,
       EnableState, Add, StartState, MarkRunningState, Disable, DisableState, Remove,
       StopState, MarkStoppedState, DeleteCheck, Delete, Lookup, Read, Fill,
       SetAdminState, SetStateAdmin, Finish
  <2>g. GetState(Key(p)) \in PollerStates
    BY <2>k, <1>s, GotState
  <2>d. ASSUME RecordsStay, held' = held,
               Done(p) \/ Got(p) \/ StoreError(p) \/ \E step \in Steps \ {"idle"} : Goto(p, step)
        PROVE  PointersOK'
    BY <2>d, PointersStay DEF Got, StoreError, Steps
  <2> USE DEF flushVars, Steps, RequestSteps
  <2>1. ASSUME UNCHANGED <<states, held>>,
               Done(p) \/ Got(p) \/ StoreError(p) \/ \E step \in Steps \ {"idle"} : Goto(p, step)
        PROVE  PointersOK'
    BY <2>1, <2>d DEF RecordsStay
  <2>r. ReadState(p) => RecordsStay
    BY <2>g, <2>k, SetStays DEF ReadState, TypeInv
  <2>u. states' = states => RecordsStay
    BY DEF RecordsStay
  <2>2. CASE CreateRefused(p) \/ CreateAdd(p) \/ Add(p) \/ Remove(p)
    BY <2>2, <2>d, <2>r, <2>u DEF CreateRefused, CreateAdd, Add, Remove
  <2>3. CASE Lookup(p) \/ Fill(p)
    BY <2>3, <2>1 DEF Lookup, Fill
  <2>4. CASE Read(p)
    <3>1. CASE Got(p)
      BY <3>1, <2>4, <2>1 DEF Read
    <3>2. CASE Enter(p, "fill", Key(p), RowAdmin(Key(p)), FALSE)
      BY <3>2, <2>4, PointersEnter DEF Read, RecordsStay
    <3> QED
      BY <2>4, <3>1, <3>2 DEF Read
  <2>5. CASE Create(p)
    <3>1. AdminOrDefault(proc[p].arg) \in AdminStates
      BY <1>p DEF AdminOrDefault, ProcOK, ProcStates, AdminStates
    <3>2. RecordsStay
      BY <2>5, <2>g, <2>k, <3>1, AdminMethod, SetStays DEF Create, TypeInv
    <3> QED
      BY <2>5, <3>2, <2>d DEF Create
  <2>6. CASE Enable(p) \/ Disable(p)
    BY <2>6, <2>1 DEF Enable, Disable, SetAdminState
  <2>7. CASE EnableState(p) \/ DisableState(p)
    <3>1. PICK admin \in AdminStates : states' = [states EXCEPT ![Key(p)] = SetAdmin(GetState(Key(p)), admin)]
      BY <2>7 DEF EnableState, DisableState, SetStateAdmin, AdminStates
    <3>2. RecordsStay
      BY <3>1, <2>g, <2>k, AdminMethod, SetStays DEF TypeInv
    <3> QED
      BY <2>7, <3>2, <2>d DEF EnableState, DisableState, SetStateAdmin
  <2>8. CASE StartState(p) \/ StopState(p)
    <3>1. RecordsStay /\ states'[Key(p)] # None
      BY <2>8, <2>g, <2>k, OperMethods, SetStays DEF StartState, StopState, TypeInv
    <3> QED
      BY <2>8, <3>1, PointersEnter DEF StartState, StopState
  <2>9. CASE MarkRunningState(p) \/ MarkStoppedState(p)
    <3>1. proc[p].held => states[Key(p)] \in PollerStates
      BY <1>s, <2>k DEF TypeInv, PointersOK, Key
    <3>2. proc[p].held => /\ MarkRunning(states[Key(p)]) \in PollerStates
                          /\ MarkStopped(states[Key(p)]) \in PollerStates
      BY <3>1, OperMethods
    <3>3. RecordsStay
      BY <2>9, <3>2, <1>s, <2>k DEF MarkRunningState, MarkStoppedState, Finish, RecordsStay
    <3> QED
      BY <2>9, <3>3, <2>d DEF MarkRunningState, MarkStoppedState, Finish
  <2>10. CASE DeleteCheck(p)
    BY <2>10, <2>r, <2>d DEF DeleteCheck
  <2>11. CASE Delete(p)
    <3>1. CASE UNCHANGED <<states, held>> /\ (Done(p) \/ StoreError(p))
      BY <3>1, <2>1
    <3>2. CASE /\ states' = [states EXCEPT ![Key(p)] = None]
               /\ Forget(p, Key(p)) /\ held' = held \ {Key(p)}
      <4>1. \A q \in Procs : proc'[q].held => proc'[q] = proc[q] /\ proc[q].key # Key(p)
        BY <3>2, <1>p DEF Forget, ProcOK, ProcStates, Idle
      <4> QED
        BY <3>2, <4>1, <1>s, <1>t, <2>k DEF TypeInv, TypeOK, PointersOK
    <3> QED
      BY <2>11, <3>1, <3>2 DEF Delete
  <2> QED
    BY <1>2, <2>2, <2>3, <2>4, <2>5, <2>6, <2>7, <2>8, <2>9, <2>10, <2>11 DEF Step
<1>3. ASSUME NEW w \in Workers, NEW k \in Keys, Poll(w, k) PROVE PointersOK'
  BY <1>3, PointersEnter DEF Poll, RecordsStay, Steps, RequestSteps, flushVars, Procs
<1>4. ASSUME NEW w \in Workers, NEW success \in BOOLEAN, Result(w, success) PROVE PointersOK'
  <2>1. w \in Procs /\ Key(w) \in Keys
    BY <1>4, <1>p DEF Result, ProcOK, Procs, Key, At
  <2>2. RecordsStay
    BY <1>4, <1>s, <2>1, GotState, ResultMethod, SetStays DEF Result, TypeInv
  <2> QED
    BY <1>4, <2>1, <2>2, PointersStay DEF Result, flushVars, Steps
<1>5. CASE FlushRead
  BY <1>5 DEF FlushRead, Dirty, PointersOK, TypeInv
<1>6. CASE FlushWrite \/ FlushFails
  BY <1>6 DEF FlushWrite, FlushFails, PointersOK, TypeInv
<1>7. CASE FlushClear
  <2>1. \A k \in held : ClearDirty(states[k]) \in PollerStates
    BY <1>s, OperMethods DEF TypeInv, PointersOK, TypeOK
  <2> QED
    BY <1>7, <2>1, <1>s, <1>t DEF FlushClear, PointersOK, TypeInv
<1>8. CASE Crash
  BY <1>8 DEF Crash, PointersOK, Idle
<1>9. CASE Load
  BY <1>9 DEF Load, PointersOK, DownIdle, TypeInv, Idle, flushVars
<1>10. ASSUME NEW k \in Keys, Schedule(k) PROVE PointersOK'
  BY <1>10, PointersEnter DEF Schedule, RecordsStay, Steps, RequestSteps, flushVars, Procs
<1>11. CASE Listen \/ UNCHANGED vars
  BY <1>11 DEF Listen, vars, PointersOK, TypeInv, flushVars
<1> QED
  BY <1>1, <1>2, <1>3, <1>4, <1>5, <1>6, <1>7, <1>8, <1>9, <1>10, <1>11, NextCases

LEMMA DownStep == TypeInv /\ [Next]_vars => DownIdle'
<1> SUFFICES ASSUME TypeInv, [Next]_vars, phase' = "down"
             PROVE  /\ \A p \in Procs : proc'[p] = Idle
                    /\ flush' = "idle" /\ held' = {} /\ sched' = {} /\ bootTodo' = {}
  BY DEF DownIdle
<1>1. CASE Crash
  BY <1>1 DEF Crash
<1>2. ASSUME ~Crash, phase # "down" PROVE FALSE
  <2> USE <1>2 DEF bootVars
  <2>1. ASSUME NEW p \in Procs, Step(p) PROVE phase' = phase
    BY <2>1 DEF Step, CreateRefused, Create, CreateAdd, Enable,
       EnableState, Add, StartState, MarkRunningState, Disable, DisableState, Remove,
       StopState, MarkStoppedState, DeleteCheck, Delete, Lookup, Read, Fill,
       SetAdminState, SetStateAdmin, Finish
  <2> QED
    BY <2>1, NextCases DEF Request, Poll, Result, FlushRead, FlushWrite, FlushFails,
       FlushClear, Load, Schedule, Listen, vars
<1>3. ASSUME ~Crash, phase = "down" PROVE UNCHANGED vars
  <2>1. \A p \in Procs : proc[p].at = "idle"
    BY <1>3 DEF TypeInv, DownIdle, Idle
  <2>2. ASSUME NEW p \in Procs, Step(p) PROVE FALSE
    BY <2>1, <2>2 DEF Step, At, CreateRefused, Create, CreateAdd, Enable,
       EnableState, Add, StartState, MarkRunningState, Disable, DisableState, Remove,
       StopState, MarkStoppedState, DeleteCheck, Delete, Lookup, Read, Fill,
       SetAdminState, SetStateAdmin, Finish
  <2>3. ~Load
    BY DEF Load
  <2>4. \A w \in Workers, success \in BOOLEAN : ~Result(w, success)
    BY <2>1 DEF Result, At, Procs
  <2> QED
    BY <1>3, <2>2, <2>3, <2>4, NextCases DEF Request, Poll, FlushRead, FlushWrite, FlushFails,
       FlushClear, Schedule, Listen, TypeInv, DownIdle
<1> QED
  BY <1>1, <1>2, <1>3 DEF TypeInv, DownIdle, vars, flushVars, bootVars

LEMMA TypeInvAlways == Spec => []TypeInv
<1> USE DEF AdminStates
<1>1. Init => TypeInv
  <2> SUFFICES ASSUME Init PROVE TypeInv
    OBVIOUS
  <2>1. Idle \in ProcStates
    BY DEF Idle, ProcStates
  <2>2. proc \in [Procs -> ProcStates] /\ \A p \in Procs : proc[p].at = "idle"
    BY <2>1 DEF Init, Idle
  <2>3. \A p \in Procs : ~proc[p].held
    BY DEF Init, Idle
  <2> QED
    BY <2>2, <2>3 DEF Init, TypeOK, TypeInv, PointersOK, DownIdle
<1>2. TypeInv /\ [Next]_vars => TypeOK'
  <2> SUFFICES ASSUME TypeInv, [Next]_vars PROVE TypeOK'
    OBVIOUS
  <2> USE DEF TypeInv
  <2>p. ProcOK
    BY DEF TypeOK, ProcOK
  <2>s. states \in [Keys -> PollerStates \cup {None}]
    BY DEF TypeOK
  <2>1. ASSUME NEW p \in Procs, NEW k \in Keys, NEW op \in Ops,
               NEW arg \in AdminStates \cup {None}, Request(p, k, op, arg)
        PROVE  TypeOK'
    <3>1. ProcOK'
      BY <2>1, <2>p, EnterOK DEF Request, Steps, RequestSteps
    <3> QED
      BY <2>1, <3>1 DEF Request, TypeOK, ProcOK, flushVars, bootVars, Overlap
  <2>2. ASSUME NEW p \in Procs, Step(p) PROVE TypeOK'
    <3> DEFINE k == Key(p)
    <3>k. proc[p].at # "idle" /\ k \in Keys
      BY <2>2, <2>p DEF Step, ProcOK, Key, At, CreateRefused, Create, CreateAdd, Enable,
         EnableState, Add, StartState, MarkRunningState, Disable, DisableState, Remove,
         StopState, MarkStoppedState, DeleteCheck, Delete, Lookup, Read, Fill,
         SetAdminState, SetStateAdmin, Finish
    <3>m. \A step \in Steps : Goto(p, step) => ProcOK'
      BY <2>p, <3>k, MoveOK
    <3>d. Done(p) => ProcOK'
      BY <2>p, DoneOK
    <3>g. Got(p) => ProcOK'
      BY <3>m, <3>d DEF Got, Steps
    <3>e. StoreError(p) => ProcOK' /\ disturbed' \subseteq disturbed \cup {k}
      BY <3>d DEF StoreError
    <3>r. ReadState(p) => states' \in [Keys -> PollerStates \cup {None}]
      BY <2>s, <3>k, GotState DEF ReadState
    <3> USE <2>p, <3>k DEF flushVars, bootVars
    <3> HIDE DEF k
    <3>1. CASE CreateRefused(p)
      BY <3>1, <3>d DEF CreateRefused, TypeOK, ProcOK
    <3>2. CASE Create(p)
      <4> DEFINE admin == AdminOrDefault(proc[p].arg)
      <4>1. admin \in AdminStates
        BY DEF AdminOrDefault, ProcOK, ProcStates
      <4>2. ProcOK'
        BY <3>2, <3>m, <3>d DEF Create, Steps, RequestSteps
      <4>3. [admin |-> admin, saved |-> Saved(NewPollerState)] \in Rows
        BY <4>1, NewState, SavedCopy DEF Rows
      <4>4. [GetState(k) EXCEPT !.admin = admin] \in PollerStates
        BY <2>s, <4>1, GotState, AdminMethod
      <4> HIDE DEF admin
      <4> QED
        BY <3>2, <4>1, <4>2, <4>3, <4>4 DEF Create, TypeOK, ProcOK, k, admin
    <3>3. CASE CreateAdd(p)
      <4>1. ProcOK'
        BY <3>3, <3>e, <3>d DEF CreateAdd
      <4> QED
        BY <3>3, <3>e, <4>1 DEF CreateAdd, TypeOK, ProcOK, k
    <3>4. ASSUME NEW step \in Steps, NEW admin \in AdminStates, NEW next \in Steps,
                 SetAdminState(p, step, admin, next)
          PROVE  TypeOK'
      <4>1. ProcOK'
        BY <3>4, <3>e, <3>d, <3>m DEF SetAdminState
      <4>2. [k1 \in Keys |-> row[k1]] = row /\ \A r \in Rows : [r EXCEPT !.admin = admin] \in Rows
        BY DEF TypeOK, Rows
      <4>3. row' \in [Keys -> Rows \cup {None}]
        BY <3>4, <4>2 DEF SetAdminState, TypeOK, UpdatePollerAdminState, k
      <4> QED
        BY <3>4, <3>e, <4>1, <4>3 DEF SetAdminState, TypeOK, ProcOK, k
    <3>5. ASSUME NEW step \in Steps, NEW admin \in AdminStates, NEW next \in Steps,
                 SetStateAdmin(p, step, admin, next)
          PROVE  TypeOK'
      <4>1. ProcOK'
        BY <3>5, <3>m DEF SetStateAdmin
      <4>2. SetAdmin(GetState(k), admin) \in PollerStates
        BY <2>s, GotState, AdminMethod
      <4> QED
        BY <3>5, <4>1, <4>2 DEF SetStateAdmin, TypeOK, ProcOK, k
    <3>6. CASE Add(p)
      <4>1. ProcOK'
        BY <3>6, <3>e, <3>m DEF Add, Steps, RequestSteps
      <4> QED
        BY <3>6, <3>e, <3>r, <4>1 DEF Add, TypeOK, ProcOK, k
    <3>7. CASE StartState(p)
      <4>1. ProcOK'
        BY <3>7, EnterOK DEF StartState, Steps, RequestSteps, k
      <4>2. Start(GetState(k)) \in PollerStates
        BY <2>s, GotState, OperMethods
      <4> QED
        BY <3>7, <4>1, <4>2 DEF StartState, TypeOK, ProcOK, k
    <3>8. CASE Remove(p)
      <4>1. ProcOK'
        BY <3>8, <3>m DEF Remove, Steps, RequestSteps
      <4> QED
        BY <3>8, <3>r, <4>1 DEF Remove, TypeOK, ProcOK
    <3>9. CASE StopState(p)
      <4>1. ProcOK'
        BY <3>9, EnterOK DEF StopState, Steps, RequestSteps, k
      <4>2. Stop(GetState(k)) \in PollerStates
        BY <2>s, GotState, OperMethods
      <4> QED
        BY <3>9, <4>1, <4>2 DEF StopState, TypeOK, ProcOK, k
    <3>10. CASE MarkRunningState(p)
      <4>1. ProcOK'
        BY <3>10, <3>d DEF MarkRunningState, Finish
      <4>2. proc[p].held => states[k] \in PollerStates
        BY <2>s DEF PointersOK, k, Key
      <4>3. proc[p].held => MarkRunning(states[k]) \in PollerStates
        BY <4>2, OperMethods
      <4> QED
        BY <3>10, <4>1, <4>3 DEF MarkRunningState, Finish, TypeOK, ProcOK, k
    <3>11. CASE MarkStoppedState(p)
      <4>1. ProcOK'
        BY <3>11, <3>d DEF MarkStoppedState, Finish
      <4>2. proc[p].held => states[k] \in PollerStates
        BY <2>s DEF PointersOK, k, Key
      <4>3. proc[p].held => MarkStopped(states[k]) \in PollerStates
        BY <4>2, OperMethods
      <4> QED
        BY <3>11, <4>1, <4>3 DEF MarkStoppedState, Finish, TypeOK, ProcOK, k
    <3>12. CASE DeleteCheck(p)
      <4>1. ProcOK'
        BY <3>12, <3>d, <3>m DEF DeleteCheck, Steps, RequestSteps
      <4> QED
        BY <3>12, <3>r, <4>1 DEF DeleteCheck, TypeOK, ProcOK
    <3>13. CASE Delete(p)
      <4>1. Forget(p, k) => ProcOK'
        <5>1. \A r \in ProcStates : LET t == [r EXCEPT !.held = FALSE]
                                    IN  t \in ProcStates /\ t.at = r.at /\ t.key = r.key
          BY DEF ProcStates
        <5>2. Idle \in ProcStates /\ Idle.at = "idle"
          BY DEF Idle, ProcStates
        <5> QED
          BY <5>1, <5>2 DEF Forget, ProcOK
      <4>2. ProcOK'
        BY <3>13, <3>d, <3>e, <4>1 DEF Delete, k
      <4> QED
        BY <3>13, <3>e, <4>2 DEF Delete, TypeOK, ProcOK, k
    <3>14. CASE Lookup(p)
      <4>1. ProcOK'
        BY <3>14, <3>m, <3>g DEF Lookup, Steps, RequestSteps
      <4> QED
        BY <3>14, <4>1 DEF Lookup, TypeOK, ProcOK, Overlap, k
    <3>15. CASE Read(p)
      <4>1. row[k] # None => RowAdmin(k) \in AdminStates
        BY DEF TypeOK, RowAdmin, Rows
      <4>2. ProcOK'
        BY <3>15, <4>1, <3>g, EnterOK DEF Read, Steps, RequestSteps, k
      <4> QED
        BY <3>15, <4>2 DEF Read, TypeOK, ProcOK
    <3>16. CASE Fill(p)
      <4>1. ProcOK'
        BY <3>16, <3>g DEF Fill
      <4>2. proc[p].arg \in AdminStates \cup {None}
        BY DEF ProcOK, ProcStates
      <4> QED
        BY <3>16, <4>1, <4>2 DEF Fill, TypeOK, ProcOK, k
    <3>17. CASE Enable(p) \/ Disable(p)
      BY <3>17, <3>4 DEF Enable, Disable, Steps, RequestSteps
    <3>18. CASE EnableState(p) \/ DisableState(p)
      BY <3>18, <3>5 DEF EnableState, DisableState, Steps, RequestSteps
    <3> QED
      BY <2>2, <3>1, <3>2, <3>3, <3>6, <3>7, <3>8, <3>9, <3>10, <3>11, <3>12,
         <3>13, <3>14, <3>15, <3>16, <3>17, <3>18 DEF Step
  <2>3. ASSUME NEW w \in Workers, NEW k \in Keys, Poll(w, k) PROVE TypeOK'
    <3>1. ProcOK'
      BY <2>3, <2>p, EnterOK DEF Poll, Steps, RequestSteps, Procs
    <3> QED
      BY <2>3, <3>1 DEF Poll, TypeOK, ProcOK, flushVars, bootVars
  <2>4. ASSUME NEW w \in Workers, NEW success \in BOOLEAN, Result(w, success)
        PROVE  TypeOK'
    <3>1. w \in Procs /\ Key(w) \in Keys
      BY <2>4, <2>p DEF Result, ProcOK, Procs, Key, At
    <3>2. ProcOK'
      BY <2>4, <2>p, <3>1, DoneOK DEF Result
    <3>3. RecordPollResult(GetState(Key(w)), success) \in PollerStates
      BY <2>s, <3>1, GotState, ResultMethod
    <3> QED
      BY <2>4, <3>1, <3>2, <3>3 DEF Result, TypeOK, ProcOK, flushVars, bootVars
  <2>5. CASE FlushRead
    <3>1. \A k \in Dirty : Saved(states[k]) \in SavedStates
      BY <2>s, SavedCopy DEF Dirty
    <3> QED
      BY <2>5, <3>1 DEF FlushRead, TypeOK, Dirty, bootVars
  <2>6. CASE FlushWrite
    <3>1. \A k \in Keys : row[k] # None /\ batch[k] # None
                           => [row[k] EXCEPT !.saved = batch[k]] \in Rows
      BY DEF TypeOK, Rows
    <3> QED
      BY <2>6, <3>1 DEF FlushWrite, TypeOK, bootVars
  <2>7. CASE FlushFails
    BY <2>7 DEF FlushFails, TypeOK, bootVars
  <2>8. CASE FlushClear
    <3>1. \A k \in held : ClearDirty(states[k]) \in PollerStates
      BY <2>s, OperMethods DEF PointersOK, TypeOK
    <3> QED
      BY <2>8, <3>1 DEF FlushClear, TypeOK, bootVars
  <2>9. CASE Crash
    <3>1. Idle \in ProcStates /\ Idle.at = "idle"
      BY DEF Idle, ProcStates
    <3> QED
      BY <2>9, <3>1 DEF Crash, TypeOK
  <2>10. CASE Load
    <3>1. \A k \in Keys : row[k] # None => LoadedState(k) \in PollerStates
      <4> SUFFICES ASSUME NEW k \in Keys, row[k] # None
                   PROVE  LoadedState(k) \in PollerStates
        OBVIOUS
      <4>1. row[k] \in Rows /\ row[k].saved \in SavedStates
        BY DEF TypeOK, Rows
      <4> QED
        BY <4>1 DEF LoadedState, PollerStates, Rows, SavedStates
    <3>2. \A k \in Keys : RowAdmin(k) \in AdminStates \cup {None}
      BY DEF RowAdmin, TypeOK, Rows
    <3> QED
      BY <2>10, <3>1, <3>2 DEF Load, TypeOK, flushVars
  <2>11. ASSUME NEW k \in Keys, Schedule(k) PROVE TypeOK'
    <3>1. ProcOK'
      BY <2>11, <2>p, EnterOK DEF Schedule, Steps, RequestSteps, Procs
    <3> QED
      BY <2>11, <3>1 DEF Schedule, TypeOK, ProcOK, flushVars
  <2>12. CASE Listen
    BY <2>12 DEF Listen, TypeOK, flushVars
  <2>13. CASE UNCHANGED vars
    BY <2>13 DEF vars, TypeOK, flushVars, bootVars
  <2> QED
    BY <2>1, <2>2, <2>3, <2>4, <2>5, <2>6, <2>7, <2>8, <2>9, <2>10, <2>11,
       <2>12, <2>13, NextCases
<1>3. TypeInv /\ [Next]_vars => PointersOK' /\ DownIdle'
  BY PointersStep, DownStep
<1> QED
  BY <1>1, <1>2, <1>3, PTL DEF Spec, TypeInv

\* The type invariant; with it, that a goroutine in the middle of a request
\* has a key.  It is inductive only with PointersOK: a method called through a
\* pointer that is no longer in the map must not bring the record back.
THEOREM TypeCorrect == Spec => []TypeOK
BY TypeInvAlways, PTL DEF TypeInv

-----------------------------------------------------------------------------
(* The health of every record, row and copy agrees with its failures.      *)

LEMMA HealthSet ==
  ASSUME TypeInv, HealthAgrees, NEW k \in Keys, NEW s \in PollerStates, HealthFits(s),
         states' = [states EXCEPT ![k] = s], UNCHANGED <<row, batch>>
  PROVE  HealthAgrees'
BY DEF TypeInv, TypeOK, HealthAgrees

LEMMA HealthKept ==
  ASSUME HealthAgrees, UNCHANGED <<states, row, batch>>
  PROVE  HealthAgrees'
BY DEF HealthAgrees

LEMMA HealthStep == TypeInv /\ HealthAgrees /\ [Next]_vars => HealthAgrees'
<1> SUFFICES ASSUME TypeInv, HealthAgrees, [Next]_vars PROVE HealthAgrees'
  OBVIOUS
<1>s. states \in [Keys -> PollerStates \cup {None}]
  BY DEF TypeInv, TypeOK
<1>g. \A k \in Keys : GetState(k) \in PollerStates /\ HealthFits(GetState(k))
  BY <1>s, GotState DEF HealthAgrees
<1> USE DEF flushVars
<1>1. ASSUME NEW p \in Procs, Step(p) PROVE HealthAgrees'
  <2> DEFINE k == Key(p)
  <2>k. proc[p].at # "idle" /\ k \in Keys
    BY <1>1 DEF TypeInv, TypeOK, Step, Key, At, CreateRefused, Create, CreateAdd, Enable,
       EnableState, Add, StartState, MarkRunningState, Disable, DisableState, Remove,
       StopState, MarkStoppedState, DeleteCheck, Delete, Lookup, Read, Fill,
       SetAdminState, SetStateAdmin, Finish
  <2>s. GetState(k) \in PollerStates /\ HealthFits(GetState(k))
    BY <2>k, <1>g
  <2> HIDE DEF k
  <2>r. ReadState(p) /\ UNCHANGED <<row, batch>> => HealthAgrees'
    BY <2>k, <2>s, HealthSet DEF ReadState, k
  <2>1. CASE CreateRefused(p) \/ CreateAdd(p) \/ Add(p) \/ Remove(p)
    BY <2>1, <2>r, HealthKept DEF CreateRefused, CreateAdd, Add, Remove
  <2>2. CASE Lookup(p) \/ Read(p) \/ Fill(p)
    BY <2>2, HealthKept DEF Lookup, Read, Fill
  <2>3. CASE Create(p)
    <3> DEFINE admin == AdminOrDefault(proc[p].arg)
    <3>1. admin \in AdminStates
      BY DEF AdminOrDefault, TypeInv, TypeOK, ProcStates, AdminStates
    <3>2. /\ [GetState(k) EXCEPT !.admin = admin] \in PollerStates
          /\ HealthFits([GetState(k) EXCEPT !.admin = admin])
      BY <2>s, <3>1, AdminMethod
    <3>3. HealthFits(Saved(NewPollerState))
      BY NewState, SavedCopy
    <3>4. row' = [row EXCEPT ![k] = [admin |-> admin, saved |-> Saved(NewPollerState)]]
      BY <2>3 DEF Create, k
    <3>5. states' = [states EXCEPT ![k] = [GetState(k) EXCEPT !.admin = admin]] /\ batch' = batch
      BY <2>3 DEF Create, k
    <3> HIDE DEF admin
    <3>6. \A j \in Keys : row'[j] # None => HealthFits(row'[j].saved)
      BY <3>3, <3>4, <2>k DEF TypeInv, TypeOK, HealthAgrees
    <3>7. \A j \in Keys : states'[j] # None => HealthFits(states'[j])
      BY <3>2, <3>5, <2>k DEF TypeInv, TypeOK, HealthAgrees
    <3> QED
      BY <3>5, <3>6, <3>7 DEF HealthAgrees
  <2>4. ASSUME NEW step, NEW admin \in AdminStates, NEW next,
               SetAdminState(p, step, admin, next)
        PROVE  HealthAgrees'
    <3>1. \A r \in Rows : [r EXCEPT !.admin = admin].saved = r.saved
      BY DEF Rows
    <3>2. CASE row' = row
      BY <3>2, <2>4, HealthKept DEF SetAdminState
    <3>3. CASE UpdatePollerAdminState(k, admin)
      <4>1. row \in [Keys -> Rows \cup {None}]
        BY DEF TypeInv, TypeOK
      <4>2. ASSUME NEW j \in Keys, row'[j] # None
            PROVE  row[j] # None /\ row'[j].saved = row[j].saved
        <5>1. CASE j # k
          BY <3>3, <4>1, <4>2, <5>1 DEF UpdatePollerAdminState
        <5>2. CASE j = k
          <6>1. row[k] # None /\ row'[k] = [row[k] EXCEPT !.admin = admin]
            BY <3>3, <4>1, <4>2, <5>2 DEF UpdatePollerAdminState
          <6> QED
            BY <3>1, <4>1, <5>2, <6>1
        <5> QED
          BY <5>1, <5>2
      <4> QED
        BY <2>4, <4>2 DEF SetAdminState, HealthAgrees
    <3> QED
      BY <2>4, <3>2, <3>3 DEF SetAdminState, k
  <2>5. CASE Enable(p) \/ Disable(p)
    BY <2>4, <2>5 DEF Enable, Disable, AdminStates
  <2>6. CASE EnableState(p) \/ DisableState(p)
    <3>1. PICK admin \in AdminStates : states' = [states EXCEPT ![k] = SetAdmin(GetState(k), admin)]
      BY <2>6 DEF EnableState, DisableState, SetStateAdmin, AdminStates, k
    <3>2. SetAdmin(GetState(k), admin) \in PollerStates /\ HealthFits(SetAdmin(GetState(k), admin))
      BY <2>s, AdminMethod
    <3> QED
      BY <2>6, <2>k, <3>1, <3>2, HealthSet DEF EnableState, DisableState, SetStateAdmin
  <2>7. CASE StartState(p)
    BY <2>7, <2>k, <2>s, OperMethods, HealthSet DEF StartState, k
  <2>8. CASE StopState(p)
    BY <2>8, <2>k, <2>s, OperMethods, HealthSet DEF StopState, k
  <2>9. CASE MarkRunningState(p) \/ MarkStoppedState(p)
    <3>1. proc[p].held => states[k] \in PollerStates /\ HealthFits(states[k])
      BY <1>s, <2>k DEF TypeInv, PointersOK, HealthAgrees, Key, k
    <3>2. proc[p].held => /\ HealthFits(MarkRunning(states[k]))
                          /\ HealthFits(MarkStopped(states[k]))
      BY <3>1, OperMethods
    <3>3. \A j \in Keys : states'[j] # None => HealthFits(states'[j])
      BY <2>9, <3>2, <1>s, <2>k
         DEF MarkRunningState, MarkStoppedState, Finish, HealthAgrees, k
    <3> QED
      BY <2>9, <3>3 DEF MarkRunningState, MarkStoppedState, Finish, HealthAgrees
  <2>10. CASE DeleteCheck(p)
    BY <2>10, <2>r DEF DeleteCheck
  <2>11. CASE Delete(p)
    <3>1. CASE UNCHANGED <<states, row>>
      BY <3>1, <2>11, HealthKept DEF Delete
    <3>2. CASE states' = [states EXCEPT ![k] = None] /\ row' = [row EXCEPT ![k] = None]
      BY <3>2, <2>11, <2>k DEF Delete, HealthAgrees, TypeInv, TypeOK
    <3> QED
      BY <2>11, <3>1, <3>2 DEF Delete, k
  <2> QED
    BY <1>1, <2>1, <2>2, <2>3, <2>5, <2>6, <2>7, <2>8, <2>9, <2>10, <2>11 DEF Step
<1>2. ASSUME NEW w \in Workers, NEW success \in BOOLEAN, Result(w, success)
      PROVE  HealthAgrees'
  <2>1. w \in Procs /\ Key(w) \in Keys
    BY <1>2 DEF Result, TypeInv, TypeOK, Procs, Key, At
  <2> QED
    BY <1>2, <1>g, <2>1, ResultMethod, HealthSet DEF Result
<1>3. CASE FlushRead
  <2>1. \A k \in Dirty : HealthFits(Saved(states[k]))
    BY <1>s, SavedCopy DEF Dirty, HealthAgrees
  <2> QED
    BY <1>3, <2>1 DEF FlushRead, HealthAgrees
<1>4. CASE FlushWrite
  <2>1. \A r \in Rows, b \in SavedStates : [r EXCEPT !.saved = b].saved = b
    BY DEF Rows
  <2>2. \A k \in Keys : row'[k] # None => HealthFits(row'[k].saved)
    BY <1>4, <2>1 DEF FlushWrite, HealthAgrees, TypeInv, TypeOK
  <2> QED
    BY <1>4, <2>2 DEF FlushWrite, HealthAgrees
<1>5. CASE FlushFails
  BY <1>5 DEF FlushFails, HealthAgrees
<1>6. CASE FlushClear
  <2>1. \A k \in held : k \in Keys /\ HealthFits(ClearDirty(states[k]))
    BY <1>s, OperMethods DEF TypeInv, PointersOK, TypeOK, HealthAgrees
  <2> QED
    BY <1>6, <2>1 DEF FlushClear, HealthAgrees
<1>7. CASE Crash
  BY <1>7 DEF Crash, HealthAgrees
<1>8. CASE Load
  <2>1. \A k \in Keys : row[k] # None => HealthFits(LoadedState(k))
    BY DEF LoadedState, HealthFits, HealthAgrees
  <2> QED
    BY <1>8, <2>1 DEF Load, HealthAgrees
<1>9. ASSUME UNCHANGED <<states, row, batch>> PROVE HealthAgrees'
  BY <1>9, HealthKept
<1> QED
  BY <1>1, <1>2, <1>3, <1>4, <1>5, <1>6, <1>7, <1>8, <1>9, NextCases
     DEF Request, Poll, Schedule, Listen, vars

\* In every record, row and copy the health agrees with the number of
\* consecutive failures, through polls, flushes, deletions and restarts, for
\* all thresholds.
THEOREM HealthAgreesHolds == Spec => []HealthAgrees
<1>1. Init => HealthAgrees
  BY DEF Init, HealthAgrees
<1> QED
  BY <1>1, TypeInvAlways, HealthStep, PTL DEF Spec

-----------------------------------------------------------------------------
(* The cache of PollerManager and the rows of the store.                   *)

\* What keeps the two equal for a poller no requests overlapped on: only one
\* goroutine works on it, one that found it in neither place finds no row
\* either, and none is about to put an old row into the cache.
Settled(k) ==
  /\ cache[k] = RowAdmin(k)
  /\ \A p, q \in Procs : Active(p, k) /\ Active(q, k) => p = q
  /\ \A p \in Procs : proc[p].key = k => /\ proc[p].at # "fill"
                                         /\ proc[p].at = "read" => row[k] = None
CacheInv == phase # "down" => \A k \in Keys \ disturbed : Settled(k)

\* While Run schedules the enabled pollers nothing else changes the cache, and
\* the polls that are already made find their poller in it.
BootInv ==
  phase = "boot" =>
    /\ \A p \in Procs \ {Main} : proc[p].at \in {"idle", "lookup", "result"}
    /\ proc[Main].at \in {"idle", "add", "start", "markRunning"}
    /\ \A p \in Procs : proc[p].at # "idle" => cache[proc[p].key] # None
    /\ \A k \in sched \cup bootTodo : cache[k] # None

\* p goes to a step, on the same key or on none; the others stay.
MovedTo(p, step) ==
  /\ proc'[p].at = step
  /\ proc'[p].key \in {Key(p), None}
  /\ \A q \in Procs \ {p} : proc'[q].at = proc[q].at /\ proc'[q].key = proc[q].key

LEMMA Moves ==
  ASSUME TypeInv, NEW p \in Procs
  PROVE  /\ \A step \in Steps : Goto(p, step) => MovedTo(p, step)
         /\ Done(p) \/ StoreError(p) => MovedTo(p, "idle")
         /\ Got(p) => MovedTo(p, "idle") \/ MovedTo(p, "result")
         /\ \A step \in Steps, arg \in AdminStates \cup {None}, ptr \in BOOLEAN :
              Enter(p, step, Key(p), arg, ptr) => MovedTo(p, step)
         /\ \A k \in Keys : Forget(p, k) => MovedTo(p, "idle")
<1>1. proc \in [Procs -> ProcStates]
  BY DEF TypeInv, TypeOK
<1>2. ASSUME NEW step \in Steps, Goto(p, step) PROVE MovedTo(p, step)
  BY <1>1, <1>2 DEF Goto, MovedTo, ProcStates, Key
<1>3. ASSUME Done(p) PROVE MovedTo(p, "idle")
  BY <1>1, <1>3 DEF Done, MovedTo, Idle
<1>4. ASSUME NEW step \in Steps, NEW arg \in AdminStates \cup {None}, NEW ptr \in BOOLEAN,
             Enter(p, step, Key(p), arg, ptr)
      PROVE  MovedTo(p, step)
  BY <1>1, <1>4 DEF Enter, MovedTo
<1>5. ASSUME NEW k \in Keys, Forget(p, k) PROVE MovedTo(p, "idle")
  BY <1>1, <1>5 DEF Forget, MovedTo, Idle, ProcStates
<1> QED
  BY <1>2, <1>3, <1>4, <1>5 DEF Got, StoreError, Steps

\* A poller stays settled when p moves and is the only one to change its row.
LEMMA SettledStep ==
  ASSUME NEW k \in Keys, Settled(k), NEW p \in Procs,
         \A q \in Procs \ {p} : proc'[q].at = proc[q].at /\ proc'[q].key = proc[q].key,
         cache'[k] = RowAdmin(k)',
         Active(p, k)' => Active(p, k) \/ \A q \in Procs \ {p} : ~Active(q, k),
         proc'[p].key = k => /\ proc'[p].at # "fill"
                             /\ proc'[p].at = "read" => row'[k] = None,
         row[k] = None => row'[k] = None \/ Active(p, k)
  PROVE  Settled(k)'
<1>1. \A q \in Procs \ {p} : Active(q, k)' <=> Active(q, k)
  BY DEF Active
<1>2. \A q, r \in Procs : Active(q, k)' /\ Active(r, k)' => q = r
  BY <1>1 DEF Settled
<1>3. ASSUME NEW q \in Procs, proc'[q].key = k
      PROVE  proc'[q].at # "fill" /\ (proc'[q].at = "read" => row'[k] = None)
  <2>1. CASE q = p
    BY <2>1, <1>3
  <2>2. CASE q # p
    <3>1. proc[q].key = k /\ proc'[q].at = proc[q].at
      BY <2>2, <1>3
    <3>2. proc[q].at = "read" => row[k] = None /\ Active(q, k)
      BY <3>1 DEF Settled, Active
    <3>3. proc[q].at = "read" => ~Active(p, k)
      BY <3>2, <2>2 DEF Settled
    <3> QED
      BY <3>1, <3>2, <3>3 DEF Settled
  <2> QED
    BY <2>1, <2>2
<1> QED
  BY <1>2, <1>3 DEF Settled

\* The steps of a goroutine that works on Key(p), other than those of Get.
LEMMA SettledMove ==
  ASSUME TypeInv, NEW k \in Keys, Settled(k), NEW p \in Procs, NEW step \in Steps,
         MovedTo(p, step), step \notin {"read", "fill"},
         \/ k # Key(p) /\ row'[k] = row[k] /\ cache'[k] = cache[k]
         \/ k = Key(p) /\ Active(p, k) /\ cache'[k] = RowAdmin(k)'
         \/ k = Key(p) /\ step \in {"idle", "result"} /\ row'[k] = row[k] /\ cache'[k] = cache[k]
  PROVE  Settled(k)'
<1>1. k # None
  OBVIOUS
<1>2. CASE k # Key(p) /\ row'[k] = row[k] /\ cache'[k] = cache[k]
  <2>1. proc'[p].key # k /\ ~(Active(p, k)')
    BY <1>1, <1>2 DEF MovedTo, Active
  <2>2. cache'[k] = RowAdmin(k)'
    BY <1>2 DEF Settled, RowAdmin
  <2> QED
    BY <1>2, <2>1, <2>2, SettledStep DEF MovedTo
<1>3. CASE k = Key(p) /\ Active(p, k) /\ cache'[k] = RowAdmin(k)'
  BY <1>3, SettledStep DEF MovedTo
<1>4. CASE k = Key(p) /\ step \in {"idle", "result"} /\ row'[k] = row[k] /\ cache'[k] = cache[k]
  <2>1. ~(Active(p, k)')
    BY <1>4 DEF MovedTo, Active
  <2>2. cache'[k] = RowAdmin(k)'
    BY <1>4 DEF Settled, RowAdmin
  <2> QED
    BY <1>4, <2>1, <2>2, SettledStep DEF MovedTo
<1> QED
  BY <1>2, <1>3, <1>4

\* A goroutine that takes a step is one of a running process.
LEMMA Stepping ==
  ASSUME TypeInv, NEW p \in Procs, Step(p)
  PROVE  /\ proc[p].at # "idle" /\ Key(p) \in Keys
         /\ phase # "down" /\ UNCHANGED bootVars
         /\ disturbed \subseteq disturbed'
<1>1. proc[p].at # "idle"
  BY DEF Step, Key, At, CreateRefused, Create, CreateAdd, Enable,
     EnableState, Add, StartState, MarkRunningState, Disable, DisableState, Remove,
     StopState, MarkStoppedState, DeleteCheck, Delete, Lookup, Read, Fill,
     SetAdminState, SetStateAdmin, Finish
<1>2. UNCHANGED bootVars
  BY DEF Step, CreateRefused, Create, CreateAdd, Enable,
     EnableState, Add, StartState, MarkRunningState, Disable, DisableState, Remove,
     StopState, MarkStoppedState, DeleteCheck, Delete, Lookup, Read, Fill,
     SetAdminState, SetStateAdmin, Finish, bootVars
<1>3. disturbed \subseteq disturbed'
  BY DEF Step, CreateRefused, Create, CreateAdd, Enable, StoreError,
     EnableState, Add, StartState, MarkRunningState, Disable, DisableState, Remove,
     StopState, MarkStoppedState, DeleteCheck, Delete, Lookup, Read, Fill,
     SetAdminState, SetStateAdmin, Finish
<1> QED
  BY <1>1, <1>2, <1>3 DEF TypeInv, TypeOK, DownIdle, Idle, Key

\* The steps of a goroutine keep a poller settled.
LEMMA SettledSteps ==
  ASSUME TypeInv, NEW p \in Procs, Step(p), NEW k \in Keys, Settled(k), k \notin disturbed'
  PROVE  Settled(k)'
<1>k. proc[p].at # "idle" /\ Key(p) \in Keys
  BY Stepping
<1>r. row \in [Keys -> Rows \cup {None}] /\ cache \in [Keys -> AdminStates \cup {None}]
  BY DEF TypeInv, TypeOK
<1>e. StoreError(p) => k # Key(p)
  BY DEF StoreError
<1> USE DEF Steps, RequestSteps
\* Steps that change neither the cache nor a row.
<1>1. ASSUME NEW step \in Steps \ {"read", "fill"}, MovedTo(p, step), UNCHANGED <<row, cache>>,
             proc[p].at \notin {"lookup", "result"} \/ step \in {"idle", "result"}
      PROVE  Settled(k)'
  <2>1. cache'[k] = RowAdmin(k)'
    BY <1>1 DEF Settled, RowAdmin
  <2>2. proc[p].at \notin {"lookup", "result"} /\ k = Key(p) => Active(p, k)
    BY <1>k DEF Active, Key
  <2> QED
    BY <1>1, <2>1, <2>2, SettledMove
<1>2. CASE CreateRefused(p) \/ CreateAdd(p) \/ Add(p) \/ Remove(p)
  BY <1>2, <1>1, Moves DEF CreateRefused, CreateAdd, Add, Remove, At
<1>3. CASE EnableState(p) \/ DisableState(p) \/ DeleteCheck(p)
  BY <1>3, <1>1, Moves DEF EnableState, DisableState, SetStateAdmin, DeleteCheck, At
<1>4. CASE StartState(p) \/ StopState(p)
  BY <1>4, <1>1, Moves DEF StartState, StopState, At
<1>5. CASE MarkRunningState(p) \/ MarkStoppedState(p)
  BY <1>5, <1>1, Moves DEF MarkRunningState, MarkStoppedState, Finish, At
<1>6. CASE Create(p)
  <2> DEFINE admin == AdminOrDefault(proc[p].arg)
             new == [admin |-> admin, saved |-> Saved(NewPollerState)]
  <2>1. admin \in AdminStates
    BY DEF AdminOrDefault, TypeInv, TypeOK, ProcStates, AdminStates
  <2>2. new \in Rows /\ new.admin = admin
    BY <2>1, NewState, SavedCopy DEF Rows
  <2>3. /\ row' = [row EXCEPT ![Key(p)] = new] /\ cache' = [cache EXCEPT ![Key(p)] = admin]
        /\ proc[p].at = "create"
        /\ Goto(p, "createAdd") \/ Done(p)
    BY <1>6 DEF Create, At
  <2> HIDE DEF admin, new
  <2>4. k = Key(p) => Active(p, k) /\ cache'[k] = RowAdmin(k)'
    BY <2>2, <2>3, <1>k, <1>r DEF Active, Key, RowAdmin
  <2>5. k # Key(p) => row'[k] = row[k] /\ cache'[k] = cache[k]
    BY <2>3, <1>r
  <2>6. MovedTo(p, "createAdd") \/ MovedTo(p, "idle")
    BY <2>3, Moves
  <2> QED
    BY <2>4, <2>5, <2>6, SettledMove
<1>7. ASSUME NEW step \in Steps \ {"idle", "lookup", "result"}, NEW admin \in AdminStates,
             NEW next \in Steps \ {"read", "fill"}, SetAdminState(p, step, admin, next)
      PROVE  Settled(k)'
  <2>1. proc[p].at = step
    BY <1>7 DEF SetAdminState, At
  <2>2. MovedTo(p, "idle") \/ MovedTo(p, next)
    BY <1>7, Moves DEF SetAdminState
  <2>3. k # Key(p) => row'[k] = row[k] /\ cache'[k] = cache[k]
    BY <1>7, <1>r DEF SetAdminState, UpdatePollerAdminState
  <2>4. ASSUME k = Key(p) PROVE cache'[k] = RowAdmin(k)'
    <3>1. CASE cache[k] = None
      BY <3>1, <2>4, <1>7 DEF SetAdminState, Settled, RowAdmin
    <3>2. CASE cache[k] # None
      <4>1. cache'[k] = admin /\ UpdatePollerAdminState(k, admin)
        BY <3>2, <2>4, <1>7, <1>e, <1>r DEF SetAdminState
      <4>2. row[k] # None
        BY <3>2 DEF Settled, RowAdmin
      <4>3. row'[k] = [row[k] EXCEPT !.admin = admin] /\ row[k] \in Rows
        BY <4>1, <4>2, <1>r DEF UpdatePollerAdminState
      <4>4. \A r \in Rows : [r EXCEPT !.admin = admin] \in Rows /\ [r EXCEPT !.admin = admin].admin = admin
        BY DEF Rows
      <4> QED
        BY <4>1, <4>3, <4>4 DEF RowAdmin
    <3> QED
      BY <3>1, <3>2
  <2>5. k = Key(p) => Active(p, k)
    BY <2>1 DEF Active, Key
  <2> QED
    BY <2>2, <2>3, <2>4, <2>5, SettledMove
<1>8. CASE Enable(p) \/ Disable(p)
  BY <1>8, <1>7 DEF Enable, Disable, AdminStates
<1>9. CASE Delete(p)
  <2>1. proc[p].at = "delete" /\ MovedTo(p, "idle")
    BY <1>9, <1>k, Moves DEF Delete, At
  <2>2. k # Key(p) => row'[k] = row[k] /\ cache'[k] = cache[k]
    BY <1>9, <1>r DEF Delete
  <2>3. k = Key(p) => cache'[k] = RowAdmin(k)'
    BY <1>9, <1>e, <1>r DEF Delete, Settled, RowAdmin
  <2>4. k = Key(p) => Active(p, k)
    BY <2>1 DEF Active, Key
  <2> QED
    BY <2>1, <2>2, <2>3, <2>4, SettledMove
<1>10. CASE Lookup(p)
  <2>1. CASE Got(p)
    BY <2>1, <1>10, <1>1, Moves DEF Lookup
  <2>2. CASE /\ cache[Key(p)] = None /\ Goto(p, "read")
             /\ disturbed' = disturbed \cup Overlap(p, Key(p))
    <3>1. MovedTo(p, "read")
      BY <2>2, Moves
    <3>2. UNCHANGED <<row, cache>>
      BY <1>10 DEF Lookup
    <3>3. cache'[k] = RowAdmin(k)'
      BY <3>2 DEF Settled, RowAdmin
    <3>4. k = Key(p) => row'[k] = None
      BY <2>2, <3>2, <1>r DEF Settled, RowAdmin, Rows
    <3>5. k = Key(p) => \A q \in Procs \ {p} : ~Active(q, k)
      BY <2>2 DEF Overlap
    <3>6. proc'[p].key = k => k = Key(p)
      BY <3>1 DEF MovedTo
    <3>7. Active(p, k)' => proc'[p].key = k
      BY DEF Active
    <3> QED
      BY <3>1, <3>2, <3>3, <3>4, <3>5, <3>6, <3>7, SettledStep DEF MovedTo
  <2> QED
    BY <1>10, <2>1, <2>2 DEF Lookup
<1>11. CASE Read(p)
  <2>1. CASE Got(p)
    BY <2>1, <1>11, <1>1, Moves DEF Read
  <2>2. CASE row[Key(p)] # None /\ Enter(p, "fill", Key(p), RowAdmin(Key(p)), FALSE)
    <3>1. k # Key(p)
      BY <1>11, <2>2 DEF Read, At, Settled, Key
    <3>2. RowAdmin(Key(p)) \in AdminStates
      BY <1>k, <1>r, <2>2 DEF RowAdmin, Rows
    <3>3. MovedTo(p, "fill")
      BY <2>2, <3>2, Moves
    <3>4. proc'[p].key # k /\ ~(Active(p, k)')
      BY <3>1, <3>3 DEF MovedTo, Active
    <3>5. UNCHANGED <<row, cache>>
      BY <1>11 DEF Read
    <3>6. cache'[k] = RowAdmin(k)'
      BY <3>5 DEF Settled, RowAdmin
    <3> QED
      BY <3>3, <3>4, <3>5, <3>6, SettledStep DEF MovedTo
  <2> QED
    BY <1>11, <2>1, <2>2 DEF Read
<1>12. CASE Fill(p)
  <2>1. k # Key(p)
    BY <1>12 DEF Fill, At, Settled, Key
  <2>2. MovedTo(p, "idle") \/ MovedTo(p, "result")
    BY <1>12, Moves DEF Fill
  <2>3. row'[k] = row[k] /\ cache'[k] = cache[k]
    BY <1>12, <2>1, <1>r DEF Fill
  <2> QED
    BY <2>1, <2>2, <2>3, SettledMove
<1> QED
  BY <1>2, <1>3, <1>4, <1>5, <1>6, <1>8, <1>9, <1>10, <1>11, <1>12 DEF Step

LEMMA CacheStep == TypeInv /\ CacheInv /\ BootInv /\ [Next]_vars => CacheInv'
<1> SUFFICES ASSUME TypeInv, CacheInv, BootInv, [Next]_vars, phase' # "down",
                    NEW k \in Keys, k \notin disturbed'
             PROVE  Settled(k)'
  BY DEF CacheInv
<1>p. proc \in [Procs -> ProcStates] /\ row \in [Keys -> Rows \cup {None}]
  BY DEF TypeInv, TypeOK
<1> USE DEF flushVars, bootVars
<1>1. ASSUME NEW p \in Procs, Step(p) PROVE Settled(k)'
  BY <1>1, Stepping, SettledSteps DEF CacheInv
\* The steps that begin something: p was idle, and works on j now.
<1>2. ASSUME NEW p \in Procs, NEW j \in Keys, NEW step \in Steps \ {"read", "fill"},
             NEW arg, Enter(p, step, j, arg, FALSE), UNCHANGED <<row, cache>>, Settled(k),
             step # "lookup" /\ j = k => \A q \in Procs \ {p} : ~Active(q, k)
      PROVE  Settled(k)'
  <2>1. /\ proc'[p].at = step /\ proc'[p].key = j
        /\ \A q \in Procs \ {p} : proc'[q] = proc[q]
    BY <1>2, <1>p DEF Enter
  <2>2. cache'[k] = RowAdmin(k)'
    BY <1>2 DEF Settled, RowAdmin
  <2>3. Active(p, k)' => step # "lookup" /\ j = k
    BY <2>1 DEF Active
  <2> QED
    BY <1>2, <2>1, <2>2, <2>3, SettledStep
<1>3. ASSUME NEW p \in Procs, NEW j \in Keys, NEW op \in Ops, NEW arg, Request(p, j, op, arg)
      PROVE  Settled(k)'
  <2>1. op \in Steps \ {"read", "fill"}
    BY DEF Steps, RequestSteps
  <2>2. Settled(k)
    BY <1>3 DEF Request, CacheInv
  <2>3. op # "lookup" /\ j = k => \A q \in Procs \ {p} : ~Active(q, k)
    BY <1>3 DEF Request, Overlap
  <2> QED
    BY <1>2, <1>3, <2>1, <2>2, <2>3 DEF Request
<1>4. ASSUME NEW w \in Workers, NEW j \in Keys, Poll(w, j) PROVE Settled(k)'
  BY <1>2, <1>4 DEF Poll, CacheInv, Steps, RequestSteps, Procs
<1>5. ASSUME NEW w \in Workers, NEW success \in BOOLEAN, Result(w, success) PROVE Settled(k)'
  <2>1. w \in Procs /\ Key(w) \in Keys /\ Settled(k) /\ "idle" \in Steps
    BY <1>5 DEF Result, TypeInv, TypeOK, DownIdle, Idle, CacheInv, Procs, Key, At, Steps
  <2>2. MovedTo(w, "idle")
    BY <1>5, <2>1, Moves DEF Result
  <2> QED
    BY <1>5, <2>1, <2>2, SettledMove DEF Result
\* The flush changes no admin state and no entry of the cache.
<1>6. ASSUME UNCHANGED <<proc, cache, phase, disturbed>>,
             \A j \in Keys : (row'[j] = None <=> row[j] = None) /\ RowAdmin(j)' = RowAdmin(j)
      PROVE  Settled(k)'
  BY <1>6 DEF CacheInv, Settled, Active
<1>7. CASE FlushWrite
  <2>1. \A r \in Rows, b \in SavedStates : /\ [r EXCEPT !.saved = b] \in Rows
                                           /\ [r EXCEPT !.saved = b].admin = r.admin
    BY DEF Rows
  <2>2. batch \in [Keys -> SavedStates \cup {None}]
    BY DEF TypeInv, TypeOK
  <2>3. ASSUME NEW j \in Keys
        PROVE  (row'[j] = None <=> row[j] = None) /\ RowAdmin(j)' = RowAdmin(j)
    <3>1. CASE row'[j] = row[j]
      BY <3>1 DEF RowAdmin
    <3>2. CASE row[j] # None /\ batch[j] # None /\ row'[j] = [row[j] EXCEPT !.saved = batch[j]]
      BY <3>2, <1>p, <2>1, <2>2 DEF RowAdmin
    <3> QED
      BY <3>1, <3>2, <1>7 DEF FlushWrite
  <2> QED
    BY <1>6, <1>7, <2>3 DEF FlushWrite
<1>8. CASE FlushRead \/ FlushFails \/ FlushClear
  BY <1>6, <1>8 DEF FlushRead, FlushFails, FlushClear, RowAdmin
<1>9. CASE Load
  <2>1. \A p \in Procs : proc'[p] = Idle
    BY <1>9 DEF Load, TypeInv, DownIdle
  <2>2. cache'[k] = RowAdmin(k)'
    BY <1>9 DEF Load, RowAdmin
  <2> QED
    BY <2>1, <2>2 DEF Settled, Active, Idle
<1>10. ASSUME NEW j \in Keys, Schedule(j) PROVE Settled(k)'
  <2>1. \A q \in Procs \ {Main} : ~Active(q, k)
    BY <1>10 DEF Schedule, BootInv, Active
  <2> QED
    BY <1>2, <1>10, <2>1 DEF Schedule, CacheInv, Steps, RequestSteps, Procs
<1>11. CASE Listen
  BY <1>11 DEF Listen, CacheInv, Settled, Active, RowAdmin
<1>12. CASE UNCHANGED vars
  BY <1>12 DEF vars, CacheInv, Settled, Active, RowAdmin
<1>13. CASE Crash
  BY <1>13 DEF Crash
<1> QED
  BY <1>1, <1>3, <1>4, <1>5, <1>7, <1>8, <1>9, <1>10, <1>11, <1>12, <1>13, NextCases

LEMMA BootStep == TypeInv /\ BootInv /\ [Next]_vars => BootInv'
<1> SUFFICES ASSUME TypeInv, BootInv, [Next]_vars, phase' = "boot"
             PROVE  /\ \A p \in Procs \ {Main} : proc'[p].at \in {"idle", "lookup", "result"}
                    /\ proc'[Main].at \in {"idle", "add", "start", "markRunning"}
                    /\ \A p \in Procs : proc'[p].at # "idle" => cache'[proc'[p].key] # None
                    /\ \A k \in sched' \cup bootTodo' : cache'[k] # None
  BY DEF BootInv
<1>p. proc \in [Procs -> ProcStates] /\ Main \in Procs
  BY DEF TypeInv, TypeOK, Procs
<1> USE DEF flushVars, bootVars
<1>1. ASSUME NEW p \in Procs, Step(p) PROVE BootInv'
  <2>1. phase = "boot" /\ proc[p].at # "idle" /\ UNCHANGED bootVars
    BY <1>1, Stepping
  <2>2. p = Main => proc[p].at \in {"add", "start", "markRunning"}
    BY <2>1 DEF BootInv
  <2>3. p # Main => proc[p].at \in {"lookup", "result"}
    BY <2>1 DEF BootInv
  <2>4. cache[Key(p)] # None
    BY <2>1 DEF BootInv, Key
  <2>5. ASSUME NEW step \in Steps, MovedTo(p, step), cache' = cache,
               sched' = sched \/ sched' = sched \cup {Key(p)},
               IF p = Main THEN step \in {"idle", "start", "markRunning"}
                           ELSE step \in {"idle", "result"},
               step = "idle" \/ proc'[p].key = Key(p)
        PROVE  BootInv'
    <3>1. \A q \in Procs \ {p} : proc'[q].at = proc[q].at /\ proc'[q].key = proc[q].key
      BY <2>5 DEF MovedTo
    <3>2. proc'[p].at = step
      BY <2>5 DEF MovedTo
    <3>3. \A q \in Procs : proc'[q].at # "idle" => cache'[proc'[q].key] # None
      BY <2>1, <2>4, <2>5, <3>1, <3>2 DEF BootInv
    <3>4. \A k \in sched' \cup bootTodo' : cache'[k] # None
      BY <2>1, <2>4, <2>5 DEF BootInv
    <3> QED
      BY <1>p, <2>1, <2>5, <3>1, <3>2, <3>3, <3>4 DEF BootInv
  <2>6. \A step \in Steps : Goto(p, step) => proc'[p].key = Key(p)
    BY <1>p DEF Goto, Key, ProcStates
  <2>7. CASE Add(p) /\ p = Main
    BY <2>5, <2>6, <2>7, Moves DEF Add, Steps, RequestSteps
  <2>8. CASE StartState(p) /\ p = Main
    <3>1. proc'[p].key = Key(p)
      BY <1>p, <2>8 DEF StartState, Enter
    <3> QED
      BY <2>5, <2>8, <3>1, Moves DEF StartState, Steps, RequestSteps
  <2>9. CASE MarkRunningState(p) /\ p = Main
    BY <2>5, <2>9, Moves DEF MarkRunningState, Finish, Steps
  <2>10. CASE Lookup(p) /\ p # Main
    <3>1. Got(p) /\ UNCHANGED <<cache, sched>>
      BY <2>4, <2>10 DEF Lookup
    <3> QED
      BY <3>1, <2>5, <2>6, <2>10, Moves DEF Got, Steps
  <2> QED
    BY <1>1, <2>2, <2>3, <2>7, <2>8, <2>9, <2>10
       DEF Step, At, CreateRefused, Create, CreateAdd, Enable,
           EnableState, Add, StartState, MarkRunningState, Disable, DisableState, Remove,
           StopState, MarkStoppedState, DeleteCheck, Delete, Lookup, Read, Fill,
           SetAdminState, SetStateAdmin, Finish
<1>2. ASSUME NEW p \in Procs, NEW k \in Keys, NEW op \in Ops, NEW arg, Request(p, k, op, arg)
      PROVE  BootInv'
  BY <1>2 DEF Request
<1>3. ASSUME NEW w \in Workers, NEW k \in Keys, Poll(w, k) PROVE BootInv'
  <2>1. w \in Procs \ {Main}
    BY DEF Procs
  <2>2. /\ proc'[w].at = "lookup" /\ proc'[w].key = k
        /\ \A q \in Procs \ {w} : proc'[q] = proc[q]
    BY <1>3, <1>p, <2>1 DEF Poll, Enter
  <2> QED
    BY <1>3, <1>p, <2>1, <2>2 DEF Poll, BootInv
<1>4. ASSUME NEW w \in Workers, NEW success \in BOOLEAN, Result(w, success) PROVE BootInv'
  <2>1. w \in Procs \ {Main}
    BY DEF Procs
  <2>2. proc'[w].at = "idle" /\ \A q \in Procs \ {w} : proc'[q] = proc[q]
    BY <1>4, <1>p, <2>1 DEF Result, Done, Idle
  <2> QED
    BY <1>4, <1>p, <2>1, <2>2 DEF Result, BootInv
<1>5. CASE FlushRead \/ FlushWrite \/ FlushFails \/ FlushClear \/ UNCHANGED vars
  BY <1>5 DEF FlushRead, FlushWrite, FlushFails, FlushClear, vars, BootInv
<1>6. CASE Load
  <2>1. \A p \in Procs : proc'[p].at = "idle"
    BY <1>6 DEF Load, TypeInv, DownIdle, Idle
  <2>2. sched' = {}
    BY <1>6 DEF Load, TypeInv, DownIdle
  <2>3. \A k \in bootTodo' : cache'[k] # None
    BY <1>6 DEF Load, AdminStates
  <2> QED
    BY <1>p, <2>1, <2>2, <2>3 DEF BootInv
<1>7. ASSUME NEW k \in Keys, Schedule(k) PROVE BootInv'
  <2>1. /\ proc'[Main].at = "add" /\ proc'[Main].key = k
        /\ \A q \in Procs \ {Main} : proc'[q] = proc[q]
    BY <1>7, <1>p DEF Schedule, Enter
  <2> QED
    BY <1>7, <1>p, <2>1 DEF Schedule, BootInv
<1>8. CASE Listen \/ Crash
  BY <1>8 DEF Listen, Crash
<1> QED
  BY <1>1, <1>2, <1>3, <1>4, <1>5, <1>6, <1>7, <1>8, NextCases DEF BootInv

\* The cache of PollerManager and the store agree on every poller that no two
\* requests changed at the same time and for which no statement failed, for
\* any number of pollers, clients and workers and across crashes: the misses
\* of Get that race with nothing put no old row into the cache.
THEOREM CacheMatchesRowHolds == Spec => []CacheMatchesRow
<1>1. Init => CacheInv /\ BootInv
  BY DEF Init, CacheInv, BootInv, Settled, RowAdmin, Active, Idle
<1>2. CacheInv => CacheMatchesRow
  BY DEF CacheInv, CacheMatchesRow, Settled
<1> QED
  BY <1>1, <1>2, TypeInvAlways, CacheStep, BootStep, PTL DEF Spec

-----------------------------------------------------------------------------
(* The registration with the scheduler and the admin state of the records. *)

\* The steps of a request, and of Run, after which the registration or the state
\* record is still to follow the row.
Enabling == {"createAdd", "enableState", "add"}
Disabling == {"disableState", "remove"}
Setting == {"enableState", "disableState"}

\* Somebody is going to register k or to remove it; somebody is going to set the
\* admin state of its record.
Due(k) ==
  \/ k \in bootTodo
  \/ \E p \in Procs : proc[p].key = k /\ proc[p].at \in Enabling \cup Disabling
StateDue(k) == \E p \in Procs : proc[p].key = k /\ proc[p].at \in Setting

Fits(k) == row[k] # None => states[k] # None /\ states[k].admin = row[k].admin

\* Who is going to bring the scheduler and the record in line knows the row, and
\* when nobody is, they are in line.
Ready(k) ==
  /\ k \in bootTodo => RowAdmin(k) = "enabled"
  /\ \A p \in Procs :
       proc[p].key = k => /\ proc[p].at \in Enabling => RowAdmin(k) = "enabled"
                          /\ proc[p].at \in Disabling => RowAdmin(k) = "disabled"
  /\ Due(k) \/ (k \in sched <=> RowAdmin(k) = "enabled")
  /\ StateDue(k) \/ Fits(k)
ReadyInv == phase # "down" => \A k \in Keys \ disturbed : Ready(k)
BootDone == phase # "boot" => bootTodo = {}

\* Nothing happens to k but that goroutines move between other steps.
LEMMA ReadySame ==
  ASSUME NEW k, Ready(k), RowAdmin(k)' = RowAdmin(k), Fits(k) => Fits(k)',
         k \in sched' <=> k \in sched, k \in bootTodo' <=> k \in bootTodo,
         \A q \in Procs :
           \/ proc'[q].key = proc[q].key /\ proc'[q].at = proc[q].at
           \/ /\ proc[q].key # k \/ proc[q].at \notin Enabling \cup Disabling
              /\ proc'[q].key # k \/ proc'[q].at \notin Enabling \cup Disabling
  PROVE  Ready(k)'
<1>1. ASSUME NEW q \in Procs
      PROVE  /\ (proc'[q].key = k /\ proc'[q].at \in Enabling) <=> (proc[q].key = k /\ proc[q].at \in Enabling)
             /\ (proc'[q].key = k /\ proc'[q].at \in Disabling) <=> (proc[q].key = k /\ proc[q].at \in Disabling)
             /\ (proc'[q].key = k /\ proc'[q].at \in Setting) <=> (proc[q].key = k /\ proc[q].at \in Setting)
  BY DEF Enabling, Disabling, Setting
<1> HIDE DEF Enabling, Disabling, Setting
<1>2. Due(k)' <=> Due(k)
  BY <1>1 DEF Due
<1>3. StateDue(k)' <=> StateDue(k)
  BY <1>1 DEF StateDue
<1> QED BY <1>1, <1>2, <1>3 DEF Ready

\* The only goroutine that works on k takes a step.
LEMMA ReadyOwn ==
  ASSUME TypeInv, NEW k \in Keys, Settled(k), NEW p \in Procs, Active(p, k), NEW step,
         MovedTo(p, step), step # "idle" => proc'[p].key = k, bootTodo' = bootTodo,
         k \in bootTodo => RowAdmin(k)' = "enabled",
         step \in Enabling => RowAdmin(k)' = "enabled",
         step \in Disabling => RowAdmin(k)' = "disabled",
         step \in Enabling \cup Disabling \/ k \in bootTodo \/ (k \in sched' <=> RowAdmin(k)' = "enabled"),
         step \in Setting \/ Fits(k)'
  PROVE  Ready(k)'
<1>1. \A q \in Procs : q # p => ~Active(q, k)
  BY DEF Settled
<1>2. "idle" \notin Enabling \cup Disabling \cup Setting
  BY DEF Enabling, Disabling, Setting
<1>3. ASSUME NEW q \in Procs, q # p, proc'[q].key = k
      PROVE  proc'[q].at \notin Enabling \cup Disabling \cup Setting
  <2>1. proc'[q].at \in {"idle", "lookup", "result"}
    BY <1>1, <1>3 DEF MovedTo, Active
  <2> QED BY <2>1 DEF Enabling, Disabling, Setting
<1> HIDE DEF Enabling, Disabling, Setting
<1>4. proc'[p].at = step /\ (step # "idle" => proc'[p].key = k)
  BY DEF MovedTo
<1>5. ASSUME NEW q \in Procs, proc'[q].key = k
      PROVE  /\ proc'[q].at \in Enabling => RowAdmin(k)' = "enabled"
             /\ proc'[q].at \in Disabling => RowAdmin(k)' = "disabled"
  BY <1>3, <1>4, <1>5
<1>6. step \in Enabling \cup Disabling \/ k \in bootTodo => Due(k)'
  BY <1>2, <1>4 DEF Due
<1>7. step \in Setting => StateDue(k)'
  BY <1>2, <1>4 DEF StateDue
<1> QED BY <1>5, <1>6, <1>7 DEF Ready

\* What a goroutine that works on k alone may rely on.
LEMMA ReadyHere ==
  ASSUME NEW k \in Keys, Settled(k), Ready(k), NEW p \in Procs, Active(p, k)
  PROVE  /\ k \in bootTodo => RowAdmin(k) = "enabled"
         /\ proc[p].at \in Enabling => RowAdmin(k) = "enabled"
         /\ proc[p].at \in Disabling => RowAdmin(k) = "disabled"
         /\ proc[p].at \in Enabling \cup Disabling \/ k \in bootTodo \/ (k \in sched <=> RowAdmin(k) = "enabled")
         /\ proc[p].at \in Setting \/ Fits(k)
<1>1. ASSUME NEW q \in Procs, q # p, proc[q].key = k
      PROVE  proc[q].at \notin Enabling \cup Disabling \cup Setting
  <2>1. ~Active(q, k)
    BY <1>1 DEF Settled
  <2> QED BY <1>1, <2>1 DEF Active, Enabling, Disabling, Setting
<1>2. proc[p].key = k
  BY DEF Active
<1> HIDE DEF Enabling, Disabling, Setting
<1>3. Due(k) => k \in bootTodo \/ proc[p].at \in Enabling \cup Disabling
  BY <1>1 DEF Due
<1>4. StateDue(k) => proc[p].at \in Setting
  BY <1>1 DEF StateDue
<1> QED BY <1>2, <1>3, <1>4 DEF Ready

\* The methods of a record other than SetAdmin leave its admin state.
LEMMA AdminKept ==
  ASSUME NEW s \in PollerStates
  PROVE  /\ Start(s).admin = s.admin /\ MarkRunning(s).admin = s.admin
         /\ Stop(s).admin = s.admin /\ MarkStopped(s).admin = s.admin
         /\ ClearDirty(s).admin = s.admin
         /\ \A success \in BOOLEAN : RecordPollResult(s, success).admin = s.admin
<1>1. s.oper \in OperStates
  BY DEF PollerStates
<1>2. Stop(s).admin = s.admin
  BY <1>1 DEF Stop, OperStates, PollerStates
<1>3. /\ Start(s).admin = s.admin /\ MarkRunning(s).admin = s.admin
      /\ MarkStopped(s).admin = s.admin /\ ClearDirty(s).admin = s.admin
  BY DEF Start, MarkRunning, MarkStopped, ClearDirty, PollerStates
<1>4. RecordSuccess(s).admin = s.admin /\ RecordFailure(s).admin = s.admin
  BY DEF RecordSuccess, RecordFailure, PollerStates
<1> QED BY <1>2, <1>3, <1>4 DEF RecordPollResult

\* A record with the same admin state in its place.
LEMMA FitsKept ==
  ASSUME TypeInv, NEW k \in Keys, NEW s \in PollerStates, row'[k] = row[k],
         states'[k] = s, states[k] # None => s.admin = states[k].admin
  PROVE  Fits(k) => Fits(k)'
<1>1. s # None
  BY LifecycleAssumption
<1> QED BY <1>1 DEF Fits

\* A step on another key.
LEMMA ReadyElsewhere ==
  ASSUME TypeInv, NEW p \in Procs, Step(p), NEW k \in Keys, k # Key(p), Ready(k)
  PROVE  Ready(k)'
<1>k. proc[p].at # "idle" /\ Key(p) \in Keys /\ UNCHANGED bootVars
  BY Stepping
<1>r. /\ row \in [Keys -> Rows \cup {None}] /\ states \in [Keys -> PollerStates \cup {None}]
      /\ proc \in [Procs -> ProcStates] /\ sched \subseteq Keys
  BY DEF TypeInv, TypeOK
<1> USE DEF Steps, RequestSteps
<1>1. row'[k] = row[k] /\ states'[k] = states[k] /\ (k \in sched' <=> k \in sched)
  BY <1>k, <1>r DEF Step, CreateRefused, Create, CreateAdd, Enable, UpdatePollerAdminState,
     EnableState, Add, StartState, MarkRunningState, Disable, DisableState, Remove, ReadState,
     StopState, MarkStoppedState, DeleteCheck, Delete, Lookup, Read, Fill,
     SetAdminState, SetStateAdmin, Finish
<1>2. \E step \in Steps : MovedTo(p, step)
  <2>1. CASE Read(p)
    <3>1. CASE row[Key(p)] # None /\ Enter(p, "fill", Key(p), RowAdmin(Key(p)), FALSE)
      <4>1. RowAdmin(Key(p)) \in AdminStates
        BY <1>k, <1>r, <3>1 DEF RowAdmin, Rows
      <4> QED BY <3>1, <4>1, Moves
    <3> QED BY <2>1, <3>1, Moves DEF Read
  <2>2. CASE ~Read(p)
    BY <1>k, <2>2, Moves DEF Step, CreateRefused, Create, CreateAdd, Enable,
       EnableState, Add, StartState, MarkRunningState, Disable, DisableState, Remove,
       StopState, MarkStoppedState, DeleteCheck, Delete, Lookup, Fill,
       SetAdminState, SetStateAdmin, Finish
  <2> QED BY <2>1, <2>2
<1>3. PICK step \in Steps : MovedTo(p, step)
  BY <1>2
<1>4. proc[p].key # k /\ proc'[p].key # k
  BY <1>3 DEF MovedTo, Key
<1>5. \A q \in Procs \ {p} : proc'[q].key = proc[q].key /\ proc'[q].at = proc[q].at
  BY <1>3 DEF MovedTo
<1>6. RowAdmin(k)' = RowAdmin(k) /\ (Fits(k) => Fits(k)')
  BY <1>1 DEF RowAdmin, Fits
<1>7. k \in bootTodo' <=> k \in bootTodo
  BY <1>k DEF bootVars
<1> QED BY <1>1, <1>4, <1>5, <1>6, <1>7, ReadySame

\* A goroutine moves on without having anything due, and leaves the row and the
\* scheduler alone.
LEMMA ReadyCalm ==
  ASSUME TypeInv, NEW p \in Procs, NEW step \in Steps, MovedTo(p, step), bootTodo' = bootTodo,
         NEW k \in Keys, k = Key(p), Ready(k), row'[k] = row[k], k \in sched' <=> k \in sched,
         Fits(k) => Fits(k)',
         proc[p].at \notin Enabling \cup Disabling, step \notin Enabling \cup Disabling
  PROVE  Ready(k)'
<1>1. RowAdmin(k)' = RowAdmin(k)
  BY DEF RowAdmin
<1>2. proc'[p].at = step /\ \A q \in Procs \ {p} : proc'[q].key = proc[q].key /\ proc'[q].at = proc[q].at
  BY DEF MovedTo
<1> QED BY <1>1, <1>2, ReadySame

\* The steps of a goroutine on its own key.
LEMMA ReadySteps ==
  ASSUME TypeInv, BootInv, BootDone, NEW p \in Procs, Step(p), NEW k \in Keys, k = Key(p),
         Settled(k), Ready(k), k \notin disturbed'
  PROVE  Ready(k)'
<1>k. proc[p].at # "idle" /\ proc[p].key = k /\ UNCHANGED bootVars /\ phase # "down"
  BY Stepping DEF Key
<1>b. bootTodo' = bootTodo
  BY <1>k DEF bootVars
<1>r. /\ row \in [Keys -> Rows \cup {None}] /\ states \in [Keys -> PollerStates \cup {None}]
      /\ proc \in [Procs -> ProcStates] /\ sched \subseteq Keys
  BY DEF TypeInv, TypeOK
<1>e. ~StoreError(p)
  BY DEF StoreError
<1>g. GetState(k) \in PollerStates /\ (states[k] # None => GetState(k) = states[k])
  BY <1>r, GotState DEF GetState
<1>n. None \notin PollerStates /\ None \notin Rows
  BY LifecycleAssumption
<1>m. \A step \in Steps : Goto(p, step) => MovedTo(p, step) /\ proc'[p].key = k
  <2>1. \A step \in Steps : Goto(p, step) => proc'[p].key = proc[p].key
    BY <1>r DEF Goto, ProcStates
  <2> QED BY <1>k, <2>1, Moves
<1>d. Done(p) => MovedTo(p, "idle")
  BY Moves
<1>o. Got(p) => \E step \in {"idle", "result"} : MovedTo(p, step)
  BY Moves
<1> USE DEF Steps, RequestSteps
\* Outside boot only requests run, and nobody waits to be scheduled.
<1>t. proc[p].at \notin {"add", "start", "markRunning", "lookup", "result"} => k \notin bootTodo
  <2>1. phase = "boot" => proc[p].at \in {"add", "start", "markRunning", "lookup", "result"}
    BY <1>k DEF BootInv
  <2> QED BY <2>1 DEF BootDone
<1>f. ASSUME NEW s \in PollerStates, states' = [states EXCEPT ![k] = s], row' = row,
             states[k] # None => s.admin = states[k].admin
      PROVE  Fits(k) => Fits(k)'
  <2>1. states'[k] = s /\ row'[k] = row[k]
    BY <1>f, <1>r
  <2> QED BY <1>f, <2>1, FitsKept
<1>u. UNCHANGED <<row, states>> => (Fits(k) => Fits(k)')
  BY DEF Fits
\* Steps that are followed by nothing that is due.
<1>1. ASSUME NEW step \in Steps \ (Enabling \cup Disabling), MovedTo(p, step),
             UNCHANGED <<row, sched>>, Fits(k) => Fits(k)', proc[p].at \notin Enabling \cup Disabling
      PROVE  Ready(k)'
  BY <1>1, <1>b, ReadyCalm
<1>2. CASE CreateRefused(p) \/ Lookup(p) \/ Read(p) \/ Fill(p)
  <2>1. UNCHANGED <<row, states, sched>> /\ proc[p].at \notin Enabling \cup Disabling
    BY <1>2 DEF CreateRefused, Lookup, Read, Fill, At, Enabling, Disabling
  <2>2. PICK step \in {"idle", "result", "read", "fill"} : MovedTo(p, step)
    <3>1. CASE CreateRefused(p) \/ Lookup(p) \/ Fill(p)
      BY <3>1, <1>m, <1>d, <1>o DEF CreateRefused, Lookup, Fill
    <3>2. CASE Read(p) /\ Got(p)
      BY <3>2, <1>o
    <3>3. CASE Enter(p, "fill", k, RowAdmin(k), FALSE) /\ row[k] # None
      <4>1. RowAdmin(k) \in AdminStates
        BY <1>r, <3>3 DEF RowAdmin, Rows
      <4> QED BY <3>3, <4>1, Moves
    <3> QED BY <1>2, <3>1, <3>2, <3>3 DEF Read
  <2>3. step \in Steps \ (Enabling \cup Disabling)
    BY <2>2 DEF Enabling, Disabling
  <2> QED BY <1>1, <1>u, <2>1, <2>2, <2>3
<1>3. CASE StartState(p) \/ StopState(p)
  <2>1. PICK step \in {"markRunning", "markStopped"} : Enter(p, step, k, None, TRUE)
    BY <1>3 DEF StartState, StopState
  <2>2. MovedTo(p, step)
    BY <2>1, Moves
  <2>3. UNCHANGED <<row, sched>> /\ proc[p].at \notin Enabling \cup Disabling
    BY <1>3 DEF StartState, StopState, At, Enabling, Disabling
  <2>4. PICK s \in {Start(GetState(k)), Stop(GetState(k))} : states' = [states EXCEPT ![k] = s]
    BY <1>3 DEF StartState, StopState
  <2>5. s \in PollerStates /\ s.admin = GetState(k).admin
    BY <1>g, <2>4, OperMethods, AdminKept
  <2>6. Fits(k) => Fits(k)'
    BY <1>f, <1>g, <2>3, <2>4, <2>5
  <2>7. step \in Steps \ (Enabling \cup Disabling)
    BY <2>1 DEF Enabling, Disabling
  <2> QED BY <1>1, <2>2, <2>3, <2>6, <2>7
<1>4. CASE MarkRunningState(p) \/ MarkStoppedState(p)
  <2>1. /\ MovedTo(p, "idle") /\ UNCHANGED <<row, sched>>
        /\ proc[p].at \notin Enabling \cup Disabling
    BY <1>4, <1>d DEF MarkRunningState, MarkStoppedState, Finish, At, Enabling, Disabling
  <2>2. \/ states'[k] = states[k]
        \/ proc[p].held /\ states'[k] \in {MarkRunning(states[k]), MarkStopped(states[k])}
    BY <1>4, <1>r DEF MarkRunningState, MarkStoppedState, Finish
  <2>3. Fits(k) => Fits(k)'
    <3>1. CASE states'[k] = states[k]
      BY <2>1, <3>1 DEF Fits
    <3>2. CASE proc[p].held /\ states'[k] \in {MarkRunning(states[k]), MarkStopped(states[k])}
      <4>1. states[k] \in PollerStates
        BY <1>k, <1>r, <3>2 DEF TypeInv, PointersOK
      <4>2. states'[k] \in PollerStates /\ states'[k].admin = states[k].admin
        BY <3>2, <4>1, OperMethods, AdminKept
      <4> QED BY <2>1, <4>2, FitsKept
    <3> QED BY <2>2, <3>1, <3>2
  <2>4. "idle" \in Steps \ (Enabling \cup Disabling)
    BY DEF Enabling, Disabling
  <2> QED BY <1>1, <2>1, <2>3, <2>4
<1>5. CASE DeleteCheck(p)
  <2>1. PICK step \in {"idle", "delete"} : MovedTo(p, step)
    BY <1>5, <1>m, <1>d DEF DeleteCheck
  <2>2. /\ UNCHANGED <<row, sched>> /\ proc[p].at \notin Enabling \cup Disabling
        /\ states' = [states EXCEPT ![k] = GetState(k)]
    BY <1>5 DEF DeleteCheck, ReadState, At, Enabling, Disabling
  <2>3. Fits(k) => Fits(k)'
    BY <1>f, <1>g, <2>2
  <2>4. step \in Steps \ (Enabling \cup Disabling)
    BY <2>1 DEF Enabling, Disabling
  <2> QED BY <1>1, <2>1, <2>2, <2>3, <2>4
\* The other steps are of a request that works on k alone.
<1>a. proc[p].at \notin {"lookup", "result"} => Active(p, k)
  BY <1>k DEF Active
<1>h. ASSUME proc[p].at \notin {"lookup", "result"}
      PROVE  /\ k \in bootTodo => RowAdmin(k) = "enabled"
             /\ proc[p].at \in Enabling => RowAdmin(k) = "enabled"
             /\ proc[p].at \in Disabling => RowAdmin(k) = "disabled"
             /\ proc[p].at \in Enabling \cup Disabling \/ k \in bootTodo \/ (k \in sched <=> RowAdmin(k) = "enabled")
             /\ proc[p].at \in Setting \/ Fits(k)
  BY <1>a, <1>h, ReadyHere
<1>6. CASE Create(p)
  <2> DEFINE admin == AdminOrDefault(proc[p].arg)
             new == [admin |-> admin, saved |-> Saved(NewPollerState)]
             s == [GetState(k) EXCEPT !.admin = admin]
  <2>1. admin \in AdminStates
    BY <1>r DEF AdminOrDefault, ProcStates, AdminStates
  <2>2. new \in Rows /\ new.admin = admin
    BY <2>1, NewState, SavedCopy DEF Rows
  <2>3. s \in PollerStates /\ s.admin = admin
    BY <1>g, <2>1 DEF PollerStates
  <2>4. /\ row' = [row EXCEPT ![k] = new] /\ states' = [states EXCEPT ![k] = s]
        /\ IF admin = "enabled" THEN Goto(p, "createAdd") ELSE Done(p)
        /\ sched' = sched /\ row[k] = None /\ proc[p].at = "create"
    BY <1>6 DEF Create, At
  <2> HIDE DEF admin, new, s
  <2>5. row'[k] = new /\ states'[k] = s
    BY <1>r, <2>4
  <2>6. RowAdmin(k)' = admin /\ Fits(k)'
    BY <1>n, <2>2, <2>3, <2>5 DEF RowAdmin, Fits
  <2>7. k \notin sched /\ k \notin bootTodo
    <3>1. k \notin bootTodo
      BY <1>t, <2>4
    <3>2. RowAdmin(k) # "enabled"
      BY <2>4, LifecycleAssumption DEF RowAdmin, AdminStates
    <3>3. proc[p].at \notin Enabling \cup Disabling \cup {"lookup", "result"}
      BY <2>4 DEF Enabling, Disabling
    <3> QED BY <1>h, <3>1, <3>2, <3>3
  <2>8. CASE admin = "enabled"
    <3>1. MovedTo(p, "createAdd") /\ proc'[p].key = k
      BY <1>m, <2>4, <2>8
    <3>2. "createAdd" \in Enabling /\ "createAdd" \notin Disabling /\ Active(p, k)
      BY <1>a, <2>4 DEF Enabling, Disabling
    <3> QED BY <1>b, <2>6, <2>7, <2>8, <3>1, <3>2, ReadyOwn
  <2>9. CASE admin # "enabled"
    <3>1. MovedTo(p, "idle")
      BY <1>d, <2>4, <2>9
    <3>2. "idle" \notin Enabling \cup Disabling /\ Active(p, k)
      BY <1>a, <2>4 DEF Enabling, Disabling
    <3> QED BY <1>b, <2>4, <2>6, <2>7, <2>9, <3>1, <3>2, ReadyOwn
  <2> QED BY <2>8, <2>9
<1>7. CASE CreateAdd(p) \/ Add(p)
  <2>1. /\ sched' = sched \cup {k} /\ row' = row /\ proc[p].at \in {"createAdd", "add"}
        /\ states' = states \/ states' = [states EXCEPT ![k] = GetState(k)]
        /\ Done(p) \/ Goto(p, "start")
    BY <1>e, <1>7 DEF CreateAdd, Add, ReadState, At
  <2>2. PICK step \in {"idle", "start"} : MovedTo(p, step) /\ (step # "idle" => proc'[p].key = k)
    BY <1>d, <1>m, <2>1
  <2>3. RowAdmin(k) = "enabled" /\ Fits(k) /\ Active(p, k)
    BY <1>a, <1>h, <2>1 DEF Enabling, Setting
  <2>4. RowAdmin(k)' = "enabled" /\ Fits(k)'
    BY <1>f, <1>g, <1>u, <2>1, <2>3 DEF RowAdmin
  <2>5. k \in sched' /\ step \notin Enabling \cup Disabling
    BY <2>1, <2>2 DEF Enabling, Disabling
  <2> QED BY <1>b, <2>2, <2>3, <2>4, <2>5, ReadyOwn
<1>8. CASE Remove(p)
  <2>1. /\ sched' = sched \ {k} /\ row' = row /\ proc[p].at = "remove"
        /\ states' = [states EXCEPT ![k] = GetState(k)] /\ Goto(p, "stop")
    BY <1>8 DEF Remove, ReadState, At
  <2>2. MovedTo(p, "stop") /\ proc'[p].key = k
    BY <1>m, <2>1
  <2>3. RowAdmin(k) = "disabled" /\ Fits(k) /\ Active(p, k) /\ k \notin bootTodo
    BY <1>a, <1>h, <1>t, <2>1 DEF Disabling, Setting
  <2>4. RowAdmin(k)' = "disabled" /\ Fits(k)'
    BY <1>f, <1>g, <2>1, <2>3 DEF RowAdmin
  <2>5. k \notin sched' /\ "stop" \notin Enabling \cup Disabling
    BY <2>1 DEF Enabling, Disabling
  <2> QED BY <1>b, <2>2, <2>3, <2>4, <2>5, ReadyOwn
<1>9. CASE EnableState(p) \/ DisableState(p)
  <2>1. PICK admin \in AdminStates, step \in {"add", "remove"} :
          /\ states' = [states EXCEPT ![k] = SetAdmin(GetState(k), admin)]
          /\ Goto(p, step) /\ row' = row
          /\ \/ admin = "enabled" /\ step = "add" /\ proc[p].at = "enableState"
             \/ admin = "disabled" /\ step = "remove" /\ proc[p].at = "disableState"
    BY <1>9 DEF EnableState, DisableState, SetStateAdmin, AdminStates, At
  <2>2. MovedTo(p, step) /\ proc'[p].key = k
    BY <1>m, <2>1
  <2>3. RowAdmin(k) = admin /\ Active(p, k) /\ k \notin bootTodo
    BY <1>a, <1>h, <1>t, <2>1 DEF Enabling, Disabling
  <2>4. SetAdmin(GetState(k), admin) \in PollerStates /\ SetAdmin(GetState(k), admin).admin = admin
    BY <1>g DEF SetAdmin, PollerStates
  <2>5. states'[k] \in PollerStates /\ states'[k].admin = admin
    BY <1>r, <2>1, <2>4
  <2>6. RowAdmin(k)' = admin /\ Fits(k)'
    BY <1>n, <2>1, <2>3, <2>5 DEF RowAdmin, Fits
  <2>7. step \in Enabling => admin = "enabled"
    BY <2>1 DEF Enabling
  <2>8. step \in Disabling => admin = "disabled"
    BY <2>1 DEF Disabling
  <2>9. step \in Enabling \cup Disabling
    BY <2>1 DEF Enabling, Disabling
  <2> QED BY <1>b, <2>2, <2>3, <2>6, <2>7, <2>8, <2>9, ReadyOwn
<1>10. CASE Enable(p) \/ Disable(p)
  <2>1. PICK at0 \in {"enable", "disable"}, admin \in AdminStates, step \in Setting :
          /\ SetAdminState(p, at0, admin, step)
          /\ \/ admin = "enabled" /\ step = "enableState"
             \/ admin = "disabled" /\ step = "disableState"
    BY <1>10 DEF Enable, Disable, AdminStates, Setting
  <2>2. proc[p].at = at0 /\ UNCHANGED <<states, sched>>
    BY <2>1 DEF SetAdminState, At
  <2>3. proc[p].at \notin Enabling \cup Disabling
    BY <2>2 DEF Enabling, Disabling
  <2>4. CASE cache[k] = None
    <3>1. MovedTo(p, "idle") /\ row' = row
      BY <1>d, <2>1, <2>4 DEF SetAdminState
    <3>2. "idle" \in Steps \ (Enabling \cup Disabling)
      BY DEF Enabling, Disabling
    <3> QED BY <1>1, <1>u, <2>2, <2>3, <3>1, <3>2
  <2>5. CASE cache[k] # None
    <3>1. UpdatePollerAdminState(k, admin) /\ Goto(p, step)
      BY <1>e, <2>1, <2>5 DEF SetAdminState
    <3>2. row[k] # None /\ row[k] \in Rows
      BY <1>r, <2>5 DEF Settled, RowAdmin
    <3>3. row'[k] = [row[k] EXCEPT !.admin = admin]
      BY <1>r, <3>1, <3>2 DEF UpdatePollerAdminState
    <3>4. [row[k] EXCEPT !.admin = admin] \in Rows /\ [row[k] EXCEPT !.admin = admin].admin = admin
      BY <3>2 DEF Rows
    <3>5. RowAdmin(k)' = admin
      BY <1>n, <3>3, <3>4 DEF RowAdmin
    <3>6. step \in Steps /\ step # "idle"
      BY DEF Setting
    <3>7. MovedTo(p, step) /\ proc'[p].key = k
      BY <1>m, <3>1, <3>6
    <3>8. /\ step \in Enabling => admin = "enabled"
          /\ step \in Disabling => admin = "disabled"
          /\ step \in Enabling \cup Disabling
      BY <2>1 DEF Enabling, Disabling
    <3>9. Active(p, k) /\ k \notin bootTodo
      BY <1>a, <1>t, <2>2
    <3> QED BY <1>b, <3>5, <3>7, <3>8, <3>9, ReadyOwn
  <2> QED BY <2>4, <2>5
<1>11. CASE Delete(p)
  <2>1. proc[p].at = "delete"
    BY <1>11 DEF Delete, At
  <2>2. "idle" \in Steps \ (Enabling \cup Disabling)
    BY DEF Enabling, Disabling
  <2>3. CASE cache[k] = None
    <3>1. MovedTo(p, "idle") /\ UNCHANGED <<row, states, sched>>
      BY <1>11, <1>d, <2>3 DEF Delete
    <3>2. proc[p].at \notin Enabling \cup Disabling
      BY <2>1 DEF Enabling, Disabling
    <3> QED BY <1>1, <1>u, <2>2, <3>1, <3>2
  <2>4. CASE cache[k] # None
    <3>1. sched' = sched \ {k} /\ row' = [row EXCEPT ![k] = None] /\ Forget(p, k)
      BY <1>11, <1>e, <2>4 DEF Delete
    <3>2. MovedTo(p, "idle")
      BY <3>1, Moves
    <3>3. row'[k] = None
      BY <1>r, <3>1
    <3>4. RowAdmin(k)' # "enabled" /\ Fits(k)'
      BY <3>3, LifecycleAssumption DEF RowAdmin, Fits, AdminStates
    <3>5. Active(p, k) /\ k \notin bootTodo
      BY <1>a, <1>t, <2>1
    <3> QED BY <1>b, <2>2, <3>1, <3>2, <3>4, <3>5, ReadyOwn
  <2> QED BY <2>3, <2>4
<1> QED
  BY <1>2, <1>3, <1>4, <1>5, <1>6, <1>7, <1>8, <1>9, <1>10, <1>11 DEF Step

\* Load makes a record.
LEMMA LoadedNotNone ==
  ASSUME TypeInv, NEW k \in Keys, row[k] # None
  PROVE  LoadedState(k) # None /\ LoadedState(k).admin = row[k].admin
<1>1. row[k] \in Rows
  BY DEF TypeInv, TypeOK
<1>2. row[k].admin \in AdminStates /\ row[k].saved \in SavedStates
  BY <1>1 DEF Rows
<1>3. LoadedState(k) \in PollerStates
  BY <1>2, ThresholdAssumption DEF LoadedState, SavedStates, PollerStates
<1> QED BY <1>3, LifecycleAssumption DEF LoadedState

LEMMA ReadyStep == TypeInv /\ CacheInv /\ BootInv /\ BootDone /\ ReadyInv /\ [Next]_vars => ReadyInv'
<1> SUFFICES ASSUME TypeInv, CacheInv, BootInv, BootDone, ReadyInv, [Next]_vars, phase' # "down",
                    NEW k \in Keys, k \notin disturbed'
             PROVE  Ready(k)'
  BY DEF ReadyInv
<1>r. /\ row \in [Keys -> Rows \cup {None}] /\ states \in [Keys -> PollerStates \cup {None}]
      /\ proc \in [Procs -> ProcStates]
  BY DEF TypeInv, TypeOK
<1>1. ASSUME NEW p \in Procs, Step(p) PROVE Ready(k)'
  <2>1. phase # "down" /\ k \notin disturbed
    BY <1>1, Stepping
  <2>2. Settled(k) /\ Ready(k)
    BY <2>1 DEF CacheInv, ReadyInv
  <2> QED BY <1>1, <2>2, ReadySteps, ReadyElsewhere
\* The steps that begin something that is not due.
<1>2. ASSUME NEW p \in Procs, NEW j, NEW step, NEW arg, Enter(p, step, j, arg, FALSE),
             UNCHANGED <<row, states, sched, bootTodo>>, Ready(k),
             proc[p].at = "idle", step \notin Enabling \cup Disabling
      PROVE  Ready(k)'
  <2>1. proc'[p].at = step /\ \A q \in Procs \ {p} : proc'[q] = proc[q]
    BY <1>2, <1>r DEF Enter
  <2>2. "idle" \notin Enabling \cup Disabling
    BY DEF Enabling, Disabling
  <2>3. RowAdmin(k)' = RowAdmin(k) /\ (Fits(k) => Fits(k)')
    BY <1>2 DEF RowAdmin, Fits
  <2> QED BY <1>2, <2>1, <2>2, <2>3, ReadySame
<1>3. ASSUME NEW p \in Procs, NEW j \in Keys, NEW op \in Ops, NEW arg, Request(p, j, op, arg)
      PROVE  Ready(k)'
  <2>1. op \notin Enabling \cup Disabling
    BY LifecycleAssumption DEF Enabling, Disabling
  <2>2. Ready(k)
    BY <1>3 DEF Request, ReadyInv
  <2> QED BY <1>2, <1>3, <2>1, <2>2 DEF Request, At, bootVars
<1>4. ASSUME NEW w \in Workers, NEW j \in Keys, Poll(w, j) PROVE Ready(k)'
  <2>1. w \in Procs /\ "lookup" \notin Enabling \cup Disabling /\ Ready(k)
    BY <1>4 DEF Poll, Enabling, Disabling, Procs, ReadyInv
  <2> QED BY <1>2, <1>4, <2>1 DEF Poll, At, bootVars
<1>5. ASSUME NEW w \in Workers, NEW success \in BOOLEAN, Result(w, success) PROVE Ready(k)'
  <2> DEFINE s == RecordPollResult(GetState(Key(w)), success)
  <2>1. w \in Procs /\ proc[w].at = "result" /\ Key(w) \in Keys /\ Ready(k)
    BY <1>5 DEF Result, TypeInv, TypeOK, DownIdle, Idle, ReadyInv, Procs, Key, At
  <2>2. GetState(Key(w)) \in PollerStates /\ (states[Key(w)] # None => GetState(Key(w)) = states[Key(w)])
    BY <1>r, <2>1, GotState DEF GetState
  <2>3. s \in PollerStates /\ s.admin = GetState(Key(w)).admin
    BY <2>2, ResultMethod, AdminKept
  <2>4. states' = [states EXCEPT ![Key(w)] = s] /\ UNCHANGED <<row, sched, bootTodo>> /\ Done(w)
    BY <1>5 DEF Result, bootVars
  <2> HIDE DEF s
  <2>5. Fits(k) => Fits(k)'
    <3>1. CASE k = Key(w)
      <4>1. states'[k] = s /\ row'[k] = row[k]
        BY <1>r, <2>4, <3>1
      <4> QED BY <2>2, <2>3, <3>1, <4>1, FitsKept
    <3>2. CASE k # Key(w)
      BY <2>4, <3>2, <1>r DEF Fits
    <3> QED BY <3>1, <3>2
  <2>6. proc'[w].at = "idle" /\ \A q \in Procs \ {w} : proc'[q] = proc[q]
    BY <1>r, <2>1, <2>4 DEF Done, Idle
  <2>7. "idle" \notin Enabling \cup Disabling /\ "result" \notin Enabling \cup Disabling
    BY DEF Enabling, Disabling
  <2>8. RowAdmin(k)' = RowAdmin(k)
    BY <2>4 DEF RowAdmin
  <2> QED BY <2>1, <2>4, <2>5, <2>6, <2>7, <2>8, ReadySame
\* The flush changes no admin state.
<1>6. ASSUME UNCHANGED <<proc, sched, bootTodo, phase, disturbed>>,
             RowAdmin(k)' = RowAdmin(k), Fits(k) => Fits(k)'
      PROVE  Ready(k)'
  <2>1. Ready(k)
    BY <1>6 DEF ReadyInv
  <2> QED BY <1>6, <2>1, ReadySame
<1>7. CASE FlushWrite
  <2>1. \A x \in Rows, b \in SavedStates : /\ [x EXCEPT !.saved = b] \in Rows
                                           /\ [x EXCEPT !.saved = b].admin = x.admin
    BY DEF Rows
  <2>2. batch \in [Keys -> SavedStates \cup {None}]
    BY DEF TypeInv, TypeOK
  <2>3. /\ row'[k] = None <=> row[k] = None
        /\ row[k] # None => row'[k].admin = row[k].admin
    <3>1. CASE row'[k] = row[k]
      BY <3>1
    <3>2. CASE row[k] # None /\ batch[k] # None /\ row'[k] = [row[k] EXCEPT !.saved = batch[k]]
      BY <3>2, <1>r, <2>1, <2>2, LifecycleAssumption
    <3> QED
      BY <3>1, <3>2, <1>7 DEF FlushWrite
  <2>4. RowAdmin(k)' = RowAdmin(k) /\ (Fits(k) => Fits(k)')
    BY <1>7, <2>3 DEF FlushWrite, RowAdmin, Fits
  <2> QED BY <1>6, <1>7, <2>4 DEF FlushWrite, bootVars
<1>8. CASE FlushRead \/ FlushFails
  BY <1>6, <1>8 DEF FlushRead, FlushFails, bootVars, RowAdmin, Fits
<1>9. CASE FlushClear
  <2>1. row'[k] = row[k] /\ RowAdmin(k)' = RowAdmin(k)
    BY <1>9 DEF FlushClear, RowAdmin
  <2>2. Fits(k) => Fits(k)'
    <3>1. CASE k \notin held
      BY <1>9, <2>1, <3>1 DEF FlushClear, Fits
    <3>2. CASE k \in held
      <4>1. states[k] \in PollerStates /\ states'[k] = ClearDirty(states[k])
        BY <1>9, <1>r, <3>2 DEF FlushClear, TypeInv, PointersOK
      <4>2. states'[k] \in PollerStates /\ states'[k].admin = states[k].admin
        BY <4>1, OperMethods, AdminKept
      <4> QED BY <2>1, <4>2, FitsKept
    <3> QED BY <3>1, <3>2
  <2> QED BY <1>6, <1>9, <2>1, <2>2 DEF FlushClear, bootVars
<1>10. CASE Load
  <2>1. PICK bad \in SUBSET {j \in Keys : StoreMayFail /\ row[j] # None} :
          /\ states' = [j \in Keys |-> IF row[j] = None \/ j \in bad THEN None ELSE LoadedState(j)]
          /\ disturbed' = bad
    BY <1>10 DEF Load
  <2>2. bootTodo' = {j \in Keys : RowAdmin(j) = "enabled"} /\ row' = row /\ sched' = {} /\ proc' = proc
    BY <1>10 DEF Load, TypeInv, DownIdle
  <2>3. \A p \in Procs : proc'[p].at = "idle"
    BY <1>10, <2>2 DEF Load, TypeInv, DownIdle, Idle
  <2>4. RowAdmin(k)' = RowAdmin(k)
    BY <2>2 DEF RowAdmin
  <2>5. Fits(k)'
    <3>1. row[k] # None => states'[k] = LoadedState(k)
      BY <2>1
    <3>2. row[k] # None => LoadedState(k) # None /\ LoadedState(k).admin = row[k].admin
      BY LoadedNotNone
    <3> QED BY <2>2, <3>1, <3>2 DEF Fits
  <2>6. "idle" \notin Enabling \cup Disabling
    BY DEF Enabling, Disabling
  <2>7. Due(k)' \/ (k \in sched' <=> RowAdmin(k)' = "enabled")
    BY <2>2, <2>4 DEF Due
  <2> QED BY <2>2, <2>3, <2>4, <2>5, <2>6, <2>7 DEF Ready
<1>11. ASSUME NEW j \in Keys, Schedule(j) PROVE Ready(k)'
  <2>1. /\ proc[Main].at = "idle" /\ j \in bootTodo /\ bootTodo' = bootTodo \ {j} /\ Ready(k)
        /\ UNCHANGED <<row, states, sched>>
    BY <1>11 DEF Schedule, At, ReadyInv
  <2>2. /\ Main \in Procs /\ proc'[Main].at = "add" /\ proc'[Main].key = j
        /\ \A q \in Procs \ {Main} : proc'[q] = proc[q]
    BY <1>11, <1>r DEF Schedule, Enter, Procs
  <2>3. RowAdmin(k)' = RowAdmin(k) /\ (Fits(k) => Fits(k)')
    BY <2>1 DEF RowAdmin, Fits
  <2>4. /\ "idle" \notin Enabling \cup Disabling \cup Setting /\ "add" \in Enabling
        /\ "add" \notin Disabling \cup Setting
    BY DEF Enabling, Disabling, Setting
  <2>5. CASE j # k
    BY <2>1, <2>2, <2>3, <2>4, <2>5, ReadySame
  <2>6. CASE j = k
    <3>1. RowAdmin(k) = "enabled"
      BY <2>1, <2>6 DEF Ready
    <3>2. Due(k)'
      BY <2>2, <2>4, <2>6 DEF Due
    <3>3. StateDue(k) => StateDue(k)'
      BY <2>1, <2>2, <2>4 DEF StateDue
    <3>4. ASSUME NEW q \in Procs, proc'[q].key = k
          PROVE  /\ proc'[q].at \in Enabling => RowAdmin(k)' = "enabled"
                 /\ proc'[q].at \in Disabling => RowAdmin(k)' = "disabled"
      <4>1. CASE q = Main
        BY <2>2, <2>3, <2>4, <3>1, <4>1
      <4>2. CASE q # Main
        BY <2>1, <2>2, <2>3, <3>4, <4>2 DEF Ready
      <4> QED BY <4>1, <4>2
    <3> QED BY <2>1, <2>3, <3>1, <3>2, <3>3, <3>4 DEF Ready
  <2> QED BY <2>5, <2>6
<1>12. CASE Listen
  <2>1. Ready(k) /\ UNCHANGED <<row, states, sched, bootTodo, proc>>
    BY <1>12 DEF Listen, ReadyInv
  <2> QED BY <2>1, ReadySame DEF RowAdmin, Fits
<1>13. CASE UNCHANGED vars
  <2>1. Ready(k) /\ UNCHANGED <<row, states, sched, bootTodo, proc>>
    BY <1>13 DEF vars, bootVars, ReadyInv
  <2> QED BY <2>1, ReadySame DEF RowAdmin, Fits
<1>14. CASE Crash
  BY <1>14 DEF Crash
<1> QED
  BY <1>1, <1>3, <1>4, <1>5, <1>7, <1>8, <1>9, <1>10, <1>11, <1>12, <1>13, <1>14, NextCases

LEMMA BootDoneStep == TypeInv /\ BootDone /\ [Next]_vars => BootDone'
<1> SUFFICES ASSUME TypeInv, BootDone, [Next]_vars, phase' # "boot" PROVE bootTodo' = {}
  BY DEF BootDone
<1> USE DEF bootVars
<1>1. ASSUME NEW p \in Procs, Step(p) PROVE bootTodo' = {}
  BY <1>1, Stepping DEF BootDone
<1>2. CASE Crash \/ Load \/ Listen
  BY <1>2 DEF Crash, Load, Listen
<1>3. CASE \E k \in Keys : Schedule(k)
  BY <1>3 DEF Schedule
<1> QED
  BY <1>1, <1>2, <1>3, NextCases DEF Request, Poll, Result, FlushRead, FlushWrite, FlushFails,
     FlushClear, vars, BootDone

\* Between requests exactly the enabled pollers are registered with the scheduler, and
\* the records have the stored admin state: for any number of pollers, clients and
\* workers, whatever the flush does in between, and again after a crash at any step.
THEOREM ScheduledIffEnabledHolds == Spec => []ScheduledIffEnabled
<1>1. Init => CacheInv /\ BootInv /\ BootDone /\ ReadyInv
  <2> SUFFICES ASSUME Init PROVE CacheInv /\ BootInv /\ BootDone /\ ReadyInv
    OBVIOUS
  <2>1. CacheInv /\ BootInv /\ BootDone
    BY DEF Init, CacheInv, BootInv, BootDone, Settled, RowAdmin, Active, Idle
  <2>2. ASSUME NEW k \in Keys PROVE Ready(k)
    <3>1. row[k] = None /\ bootTodo = {} /\ sched = {} /\ \A p \in Procs : proc[p].at = "idle"
      BY DEF Init, Idle
    <3>2. RowAdmin(k) # "enabled"
      BY <3>1, LifecycleAssumption DEF RowAdmin, AdminStates
    <3> QED BY <3>1, <3>2 DEF Ready, Fits, Enabling, Disabling
  <2> QED BY <2>1, <2>2 DEF ReadyInv
<1>2. ASSUME BootDone, ReadyInv PROVE ScheduledIffEnabled
  <2> SUFFICES ASSUME phase = "serve", NEW k \in Keys \ disturbed, Quiet(k)
               PROVE  /\ k \in sched <=> RowAdmin(k) = "enabled"
                      /\ Fits(k)
    BY DEF ScheduledIffEnabled, Fits
  <2>1. Ready(k) /\ bootTodo = {}
    BY <1>2 DEF ReadyInv, BootDone
  <2>2. ~Due(k) /\ ~StateDue(k)
    BY <2>1 DEF Quiet, Active, Due, StateDue, Enabling, Disabling, Setting
  <2> QED BY <2>1, <2>2 DEF Ready
<1> QED
  BY <1>1, <1>2, TypeInvAlways, CacheStep, BootStep, BootDoneStep, ReadyStep, PTL DEF Spec
=============================================================================
