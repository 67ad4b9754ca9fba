------------------------------ MODULE Lifecycle ------------------------------
(***************************************************************************)
(* The life of pollers in the server: the requests that create, enable,    *)
(* disable, delete and look up a poller (internal/server/dispatch.go,      *)
(* internal/handler/poller.go, internal/manager/poller.go), the scheduler  *)
(* registration they keep (abstracted to a set; Scheduler.tla has the      *)
(* scheduler itself), the polls and their results, the flush of the states *)
(* (internal/manager/sync.go) and a crash with the reload that follows it  *)
(* (internal/server/server.go Run).                                        *)
(*                                                                         *)
(* A request is a sequence of steps; a step ends where the code releases   *)
(* a lock.  `at` is the next step of a goroutine, and a goroutine that got *)
(* a state record from StateManager.Get keeps a pointer to it: `held` says *)
(* that the record is still the one in the manager's map.                  *)
(***************************************************************************)
EXTENDS PollerState

CONSTANTS
  Keys,          \* the poller keys
  Clients,       \* the goroutines that serve requests
  Workers,       \* the goroutines that poll
  Main,          \* the goroutine of Server.Run
  Ops,           \* the requests clients make
  CreateStates,  \* the admin states of create requests; None: not given
  StoreMayFail,  \* a statement of the store may fail
  None

\* The rows of the tables pollers and poller_state.
Rows == [admin : AdminStates, saved : SavedStates]

ASSUME LifecycleAssumption ==
  /\ Ops \subseteq {"create", "enable", "disable", "check", "lookup"}
  /\ CreateStates \subseteq AdminStates \cup {None}
  /\ StoreMayFail \in BOOLEAN
  /\ None \notin Keys \cup PollerStates \cup SavedStates \cup AdminStates \cup Rows
  /\ Main \notin Clients \cup Workers
  /\ Clients \cap Workers = {}

Procs == Clients \cup Workers \cup {Main}

VARIABLES
  row,        \* the rows of pollers and poller_state, or None
  cache,      \* PollerManager.pollers: the AdminState of the entry, or None
  states,     \* StateManager.states: the state record, or None
  sched,      \* the keys registered with the scheduler
  proc,       \* what each goroutine does next
  flush,      \* where flushStates is
  batch,      \* the copies flushStates made, or None
  held,       \* the keys of dirtyStates whose record is still in the map
  phase,      \* of the server process
  bootTodo,   \* enabled pollers Run has not scheduled yet
  disturbed   \* history, since the start: the keys with overlapping requests
              \* or a failed statement of the store

flushVars == <<flush, batch, held>>
bootVars == <<phase, bootTodo>>
vars == <<row, cache, states, sched, proc, flushVars, bootVars, disturbed>>

RequestSteps ==
  {"create", "createAdd", "enable", "enableState", "add", "start",
   "markRunning", "disable", "disableState", "remove", "stop", "markStopped",
   "check", "delete", "lookup", "read", "fill"}
ProcStates ==
  [at : RequestSteps \cup {"idle", "result"}, key : Keys \cup {None},
   arg : AdminStates \cup {None}, held : BOOLEAN]
Idle == [at |-> "idle", key |-> None, arg |-> None, held |-> FALSE]

TypeOK ==
  /\ row \in [Keys -> Rows \cup {None}]
  /\ cache \in [Keys -> AdminStates \cup {None}]
  /\ states \in [Keys -> PollerStates \cup {None}]
  /\ sched \subseteq Keys
  /\ proc \in [Procs -> ProcStates]
  /\ \A p \in Procs : proc[p].at # "idle" => proc[p].key \in Keys
  /\ flush \in {"idle", "write", "clear"}
  /\ batch \in [Keys -> SavedStates \cup {None}]
  /\ held \subseteq Keys
  /\ phase \in {"down", "boot", "serve"}
  /\ bootTodo \subseteq Keys
  /\ disturbed \subseteq Keys

Init ==
  /\ row = [k \in Keys |-> None]
  /\ cache = [k \in Keys |-> None]
  /\ states = [k \in Keys |-> None]
  /\ sched = {}
  /\ proc = [p \in Procs |-> Idle]
  /\ flush = "idle" /\ batch = [k \in Keys |-> None] /\ held = {}
  /\ phase = "serve" /\ bootTodo = {}
  /\ disturbed = {}

-----------------------------------------------------------------------------
At(p, step) == proc[p].at = step
Key(p) == proc[p].key
Goto(p, step) == proc' = [proc EXCEPT ![p].at = step]
Enter(p, step, k, arg, ptr) ==
  proc' = [proc EXCEPT ![p] = [at |-> step, key |-> k, arg |-> arg, held |-> ptr]]
Done(p) == proc' = [proc EXCEPT ![p] = Idle]

\* A goroutine works on k.  A poll counts only when its lookup missed.
Active(q, k) ==
  /\ proc[q].key = k
  /\ proc[q].at \notin {"idle", "lookup", "result"}
Overlap(p, k) == IF \E q \in Procs \ {p} : Active(q, k) THEN {k} ELSE {}

\* StateManager.Get: the record of k, a new one if there is none.
GetState(k) == IF states[k] = None THEN NewPollerState ELSE states[k]

RowAdmin(k) == IF row[k] = None THEN None ELSE row[k].admin

\* UPDATE pollers SET admin_state: no row, no effect, no error.
UpdatePollerAdminState(k, admin) ==
  row' = [row EXCEPT ![k] = IF @ = None THEN None ELSE [@ EXCEPT !.admin = admin]]

\* A statement of the store fails and the request ends there.
StoreError(p) ==
  /\ StoreMayFail
  /\ Done(p)
  /\ disturbed' = disturbed \cup {Key(p)}

-----------------------------------------------------------------------------
(* Requests.                                                               *)

Request(p, k, op, arg) ==
  /\ phase = "serve"
  /\ At(p, "idle")
  /\ Enter(p, op, k, arg, FALSE)
  /\ disturbed' = IF op = "lookup" THEN disturbed ELSE disturbed \cup Overlap(p, k)
  /\ UNCHANGED <<row, cache, states, sched, flushVars, bootVars>>

\* handleCreatePoller: PollerManager.Create, one step under its mutex.  (The
\* target exists and the name is valid.)
CreateRefused(p) ==
  /\ At(p, "create")
  /\ cache[Key(p)] # None \/ row[Key(p)] # None \/ StoreMayFail
  /\ Done(p)
  /\ UNCHANGED <<row, cache, states, sched, flushVars, bootVars, disturbed>>

\* Mutant of AdminOrDefault: no default.
AdminAsGiven(arg) == arg
AdminOrDefault(arg) == IF arg = None THEN "disabled" ELSE arg

Create(p) ==
  LET k == Key(p)
      admin == AdminOrDefault(proc[p].arg)
  IN  /\ At(p, "create")
      /\ cache[k] = None /\ row[k] = None
      /\ row' = [row EXCEPT ![k] = [admin |-> admin, saved |-> Saved(NewPollerState)]]
      /\ cache' = [cache EXCEPT ![k] = admin]
      /\ states' = [states EXCEPT ![k] = [GetState(k) EXCEPT !.admin = admin]]
      /\ IF admin = "enabled" THEN Goto(p, "createAdd") ELSE Done(p)
      /\ UNCHANGED <<sched, flushVars, bootVars, disturbed>>

\* "If created enabled, start polling": the oper state is not touched.
CreateAdd(p) ==
  /\ At(p, "createAdd")
  /\ \/ sched' = sched \cup {Key(p)} /\ Done(p) /\ UNCHANGED disturbed
     \/ StoreError(p) /\ UNCHANGED sched
  /\ UNCHANGED <<row, cache, states, flushVars, bootVars>>

\* PollerManager.Enable and Disable: the cache entry and the row, under the
\* mutex; the cache entry is changed even if the statement then fails.
SetAdminState(p, step, admin, next) ==
  LET k == Key(p)
  IN  /\ At(p, step)
      /\ \/ /\ cache[k] = None
            /\ Done(p)
            /\ UNCHANGED <<row, cache, disturbed>>
         \/ /\ cache[k] # None
            /\ cache' = [cache EXCEPT ![k] = admin]
            /\ \/ UpdatePollerAdminState(k, admin) /\ Goto(p, next) /\ UNCHANGED disturbed
               \/ StoreError(p) /\ UNCHANGED row
      /\ UNCHANGED <<states, sched, flushVars, bootVars>>

Enable(p) == SetAdminState(p, "enable", "enabled", "enableState")
Disable(p) == SetAdminState(p, "disable", "disabled", "disableState")

\* StateManager.Get, then a method of the record.
SetStateAdmin(p, step, admin, next) ==
  /\ At(p, step)
  /\ states' = [states EXCEPT ![Key(p)] = SetAdmin(GetState(Key(p)), admin)]
  /\ Goto(p, next)
  /\ UNCHANGED <<row, cache, sched, flushVars, bootVars, disturbed>>

EnableState(p) == SetStateAdmin(p, "enableState", "enabled", "add")
DisableState(p) == SetStateAdmin(p, "disableState", "disabled", "remove")

\* A handler reads the state, for its response or to check it: StateManager.Get.
ReadState(p) == states' = [states EXCEPT ![Key(p)] = GetState(Key(p))]

\* The rest of handleEnablePoller, and one round of scheduleEnabledPollers:
\* resolve the configuration, Scheduler.Add, Start, MarkRunning.
Add(p) ==
  /\ At(p, "add")
  /\ IF p = Main THEN UNCHANGED states ELSE ReadState(p)
  /\ \/ sched' = sched \cup {Key(p)} /\ Goto(p, "start") /\ UNCHANGED disturbed
     \/ StoreError(p) /\ UNCHANGED sched
  /\ UNCHANGED <<row, cache, flushVars, bootVars>>

StartState(p) ==
  /\ At(p, "start")
  /\ states' = [states EXCEPT ![Key(p)] = Start(GetState(Key(p)))]
  /\ Enter(p, "markRunning", Key(p), None, TRUE)
  /\ UNCHANGED <<row, cache, sched, flushVars, bootVars, disturbed>>

\* The last method call of a request, on the record it holds.
Finish(p, step, F(_)) ==
  /\ At(p, step)
  /\ states' = [states EXCEPT ![Key(p)] = IF proc[p].held THEN F(@) ELSE @]
  /\ Done(p)
  /\ UNCHANGED <<row, cache, sched, flushVars, bootVars, disturbed>>

MarkRunningState(p) == Finish(p, "markRunning", MarkRunning)

\* The rest of handleDisablePoller: Scheduler.Remove, Stop, MarkStopped.
Remove(p) ==
  /\ At(p, "remove")
  /\ ReadState(p)
  /\ sched' = sched \ {Key(p)}
  /\ Goto(p, "stop")
  /\ UNCHANGED <<row, cache, flushVars, bootVars, disturbed>>

StopState(p) ==
  /\ At(p, "stop")
  /\ states' = [states EXCEPT ![Key(p)] = Stop(GetState(Key(p)))]
  /\ Enter(p, "markStopped", Key(p), None, TRUE)
  /\ UNCHANGED <<row, cache, sched, flushVars, bootVars, disturbed>>

MarkStoppedState(p) == Finish(p, "markStopped", MarkStopped)

\* handler.DeletePoller: the check that the poller does not run...
DeleteCheck(p) ==
  /\ At(p, "check")
  /\ ReadState(p)
  /\ IF GetState(Key(p)).oper = "running" THEN Done(p) ELSE Goto(p, "delete")
  /\ UNCHANGED <<row, cache, sched, flushVars, bootVars, disturbed>>

\* ... and PollerManager.Delete, one step under its mutex.  Pointers to the
\* record it removes from the map are no longer pointers into the map.
Forget(p, k) ==
  proc' = [q \in Procs |->
             IF q = p THEN Idle
             ELSE IF proc[q].key = k THEN [proc[q] EXCEPT !.held = FALSE]
             ELSE proc[q]]

\* Mutant of Delete: the cache entry stays.
DeleteKeepsCache(p) ==
  LET k == Key(p)
  IN  /\ At(p, "delete")
      /\ cache[k] # None
      /\ sched' = sched \ {k}
      /\ row' = [row EXCEPT ![k] = None]
      /\ states' = [states EXCEPT ![k] = None]
      /\ Forget(p, k)
      /\ held' = held \ {k}
      /\ UNCHANGED <<cache, flush, batch, bootVars, disturbed>>

Delete(p) ==
  LET k == Key(p)
  IN  /\ At(p, "delete")
      /\ \/ /\ cache[k] = None
            /\ Done(p)
            /\ UNCHANGED <<row, cache, states, sched, held, disturbed>>
         \/ /\ cache[k] # None
            /\ sched' = sched \ {k}
            /\ \/ /\ row' = [row EXCEPT ![k] = None]
                  /\ cache' = [cache EXCEPT ![k] = None]
                  /\ states' = [states EXCEPT ![k] = None]
                  /\ Forget(p, k)
                  /\ held' = held \ {k}
                  /\ UNCHANGED disturbed
               \/ StoreError(p) /\ UNCHANGED <<row, cache, states, held>>
      /\ UNCHANGED <<flush, batch, bootVars>>

-----------------------------------------------------------------------------
(* PollerManager.Get, by a request or by executePoll, and the results.     *)

\* A poll goes on to its result, a request ends.
Got(p) == IF p \in Workers THEN Goto(p, "result") ELSE Done(p)

Lookup(p) ==
  /\ At(p, "lookup")
  /\ \/ cache[Key(p)] # None /\ Got(p) /\ UNCHANGED disturbed
     \/ /\ cache[Key(p)] = None
        /\ Goto(p, "read")
        /\ disturbed' = disturbed \cup Overlap(p, Key(p))
  /\ UNCHANGED <<row, cache, states, sched, flushVars, bootVars>>

Read(p) ==
  /\ At(p, "read")
  /\ \/ /\ row[Key(p)] = None \/ StoreMayFail
        /\ Got(p)
     \/ /\ row[Key(p)] # None
        /\ Enter(p, "fill", Key(p), RowAdmin(Key(p)), FALSE)
  /\ UNCHANGED <<row, cache, states, sched, flushVars, bootVars, disturbed>>

Fill(p) ==
  /\ At(p, "fill")
  /\ cache' = [cache EXCEPT ![Key(p)] = proc[p].arg]
  /\ Got(p)
  /\ UNCHANGED <<row, states, sched, flushVars, bootVars, disturbed>>

\* A worker takes a job of the scheduler.
Poll(w, k) ==
  /\ phase # "down"
  /\ At(w, "idle")
  /\ k \in sched
  /\ Enter(w, "lookup", k, None, FALSE)
  /\ UNCHANGED <<row, cache, states, sched, flushVars, bootVars, disturbed>>

\* handlePollResult: Manager.RecordPollResult.
Result(w, success) ==
  /\ At(w, "result")
  /\ states' = [states EXCEPT ![Key(w)] = RecordPollResult(GetState(Key(w)), success)]
  /\ Done(w)
  /\ UNCHANGED <<row, cache, sched, flushVars, bootVars, disturbed>>

-----------------------------------------------------------------------------
(* SyncManager.flushStates.  Each record is copied under its own mutex; no *)
(* property relates the copies of two pollers, so they are one step.       *)

Dirty == {k \in Keys : states[k] # None /\ states[k].dirty}

FlushRead ==
  /\ phase # "down"
  /\ flush = "idle"
  /\ Dirty # {}
  /\ batch' = [k \in Keys |-> IF k \in Dirty THEN Saved(states[k]) ELSE None]
  /\ held' = Dirty
  /\ flush' = "write"
  /\ UNCHANGED <<row, cache, states, sched, proc, bootVars, disturbed>>

\* One transaction of UPDATEs; a copy without a row has no effect.
FlushWrite ==
  /\ flush = "write"
  /\ row' = [k \in Keys |->
               IF row[k] # None /\ batch[k] # None
               THEN [row[k] EXCEPT !.saved = batch[k]]
               ELSE row[k]]
  /\ flush' = "clear"
  /\ batch' = [k \in Keys |-> None]
  /\ UNCHANGED <<cache, states, sched, proc, held, bootVars, disturbed>>

FlushFails ==
  /\ StoreMayFail
  /\ flush = "write"
  /\ flush' = "idle"
  /\ batch' = [k \in Keys |-> None]
  /\ held' = {}
  /\ UNCHANGED <<row, cache, states, sched, proc, bootVars, disturbed>>

FlushClear ==
  /\ flush = "clear"
  /\ states' = [k \in Keys |-> IF k \in held THEN ClearDirty(states[k]) ELSE states[k]]
  /\ flush' = "idle"
  /\ held' = {}
  /\ UNCHANGED <<row, cache, sched, proc, batch, bootVars, disturbed>>

-----------------------------------------------------------------------------
(* A crash, and the start of the next process.                             *)

Crash ==
  /\ phase # "down"
  /\ phase' = "down"
  /\ cache' = [k \in Keys |-> None]
  /\ states' = [k \in Keys |-> None]
  /\ sched' = {}
  /\ proc' = [p \in Procs |-> Idle]
  /\ flush' = "idle" /\ batch' = [k \in Keys |-> None] /\ held' = {}
  /\ bootTodo' = {}
  /\ disturbed' = {}
  /\ UNCHANGED row

\* RecentSuccesses is not saved.
LoadedState(k) ==
  [admin |-> row[k].admin, oper |-> row[k].saved.oper,
   health |-> row[k].saved.health, failures |-> row[k].saved.failures,
   successes |-> 0, dirty |-> FALSE]

\* Mutant of Load: enabled pollers are not scheduled again.
LoadSchedulesNone ==
  /\ phase = "down"
  /\ cache' = [k \in Keys |-> RowAdmin(k)]
  /\ states' = [k \in Keys |-> IF row[k] = None THEN None ELSE LoadedState(k)]
  /\ phase' = "boot"
  /\ UNCHANGED <<row, sched, proc, flushVars, bootTodo, disturbed>>

\* PollerManager.Load.  A state that cannot be read (`bad`) is left out.
Load ==
  /\ phase = "down"
  /\ cache' = [k \in Keys |-> RowAdmin(k)]
  /\ \E bad \in SUBSET {k \in Keys : StoreMayFail /\ row[k] # None} :
       /\ states' = [k \in Keys |->
                       IF row[k] = None \/ k \in bad THEN None ELSE LoadedState(k)]
       /\ disturbed' = bad
  /\ phase' = "boot"
  /\ bootTodo' = {k \in Keys : RowAdmin(k) = "enabled"}
  /\ UNCHANGED <<row, sched, proc, flushVars>>

\* scheduleEnabledPollers, the next poller.
Schedule(k) ==
  /\ phase = "boot"
  /\ At(Main, "idle")
  /\ k \in bootTodo
  /\ bootTodo' = bootTodo \ {k}
  /\ Enter(Main, "add", k, None, FALSE)
  /\ UNCHANGED <<row, cache, states, sched, flushVars, phase, disturbed>>

\* The listener is opened after the pollers are scheduled.
Listen ==
  /\ phase = "boot"
  /\ At(Main, "idle")
  /\ bootTodo = {}
  /\ phase' = "serve"
  /\ UNCHANGED <<row, cache, states, sched, proc, flushVars, bootTodo, disturbed>>

-----------------------------------------------------------------------------
Requests(p) ==
  \E k \in Keys, op \in Ops :
    \E arg \in IF op = "create" THEN CreateStates ELSE {None} :
      Request(p, k, op, arg)

Step(p) ==
  \/ CreateRefused(p) \/ Create(p) \/ CreateAdd(p)
  \/ Enable(p) \/ EnableState(p) \/ Add(p) \/ StartState(p) \/ MarkRunningState(p)
  \/ Disable(p) \/ DisableState(p) \/ Remove(p) \/ StopState(p) \/ MarkStoppedState(p)
  \/ DeleteCheck(p) \/ Delete(p)
  \/ Lookup(p) \/ Read(p) \/ Fill(p)

Next ==
  \/ \E p \in Clients : Requests(p)
  \/ \E p \in Procs : Step(p)
  \/ \E w \in Workers, k \in Keys : Poll(w, k)
  \/ \E w \in Workers, success \in BOOLEAN : Result(w, success)
  \/ FlushRead \/ FlushWrite \/ FlushFails \/ FlushClear
  \/ Crash \/ Load \/ (\E k \in Keys : Schedule(k)) \/ Listen

Spec == Init /\ [][Next]_vars

-----------------------------------------------------------------------------
(* Properties.                                                             *)

\* PollerManager's cache and the store agree on which pollers exist and which
\* are enabled, at every moment after Load: for each poller that no two
\* requests changed at the same time and for which no statement failed.
CacheMatchesRow ==
  phase # "down" => \A k \in Keys \ disturbed : cache[k] = RowAdmin(k)

\* Between requests, exactly the enabled pollers are registered with the
\* scheduler, and the state record's admin state is the stored one; across
\* crashes at any step of a request, whatever happens to other pollers.
Quiet(k) == \A p \in Procs : ~Active(p, k)

ScheduledIffEnabled ==
  phase = "serve" =>
    \A k \in Keys \ disturbed :
      Quiet(k) =>
        /\ k \in sched <=> RowAdmin(k) = "enabled"
        /\ row[k] # None =>
             states[k] # None /\ states[k].admin = row[k].admin

\* In every record, row and copy the health agrees with the number of
\* consecutive failures (state.go 209-248): neither a restart nor a flush of an
\* old copy mixes the two up.
HealthAgrees ==
  \A k \in Keys :
    /\ states[k] # None => HealthFits(states[k])
    /\ row[k] # None => HealthFits(row[k].saved)
    /\ batch[k] # None => HealthFits(batch[k])
=============================================================================
