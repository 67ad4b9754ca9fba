------------------------------ MODULE Resolver ------------------------------
(***************************************************************************)
(* The configuration of a poller: the levels it is inherited from          *)
(* (internal/manager/config_resolver.go), the cache of resolved            *)
(* configurations, and the three uses of a result: the interval with which *)
(* the poller is scheduled (internal/server/dispatch.go), the comparison   *)
(* of intervals in PollerManager.Update, and the timeout of a poll         *)
(* (Server.executePoll, internal/scheduler/snmp.go).                       *)
(*                                                                         *)
(* Every field of a configuration is inherited on its own and in the same  *)
(* way, so one value stands for all of them: a level sets it or does not.  *)
(* Resolve holds no lock: it reads the four rows one after the other while *)
(* clients change them.  Secrets are left out: nothing calls               *)
(* ResolveSecrets.                                                         *)
(***************************************************************************)
EXTENDS Naturals, Sequences

CONSTANTS
  Values,         \* the values a level may set
  ServerDefault,  \* the value of the server level, set before the server runs
  OwnTimeouts,    \* timeout_ms of the protocol configuration: a value, or None
  Fallback,       \* the interval PollerManager.Update assumes when Resolve fails
  BuiltIn,        \* the timeout ParseSNMPConfig puts in when there is none
  Workers,        \* the workers of the scheduler
  Clients,        \* the connections
  TTL,            \* cacheTTL, in ticks of the clock
  MaxChanges,     \* bound: changes of the configuration
  None

ASSUME ResolverAssumption ==
  /\ ServerDefault \in Values
  /\ OwnTimeouts \subseteq Values \cup {None}
  /\ TTL \in Nat \ {0}
  /\ MaxChanges \in Nat
  /\ None \notin Values \cup {Fallback, BuiltIn} \cup [value : Values, age : Nat]

Callers == Workers \cup Clients
\* The levels as Resolve applies them, with the last two swapped.
LevelsSwapped == <<"server", "namespace", "poller", "target">>
\* The levels in the order in which Resolve applies them.
Levels == <<"server", "namespace", "target", "poller">>
Level == {"server", "namespace", "target", "poller"}

VARIABLES
  row,       \* what the row of a level sets, or None
  exists,    \* the poller exists
  object,    \* PollingConfig of the cached poller, which handlers change in place
  own,       \* timeout_ms of the poller's protocol configuration, or None
  cache,     \* the cached result with its age, or None
  interval,  \* the interval of the scheduled item, or None
  job,       \* what a caller is doing and how far it is
  used,      \* the timeout of the last poll of a worker, with what it was due, or None
  changes    \* history: changes of the configuration

vars == <<row, exists, object, own, cache, interval, job, used, changes>>
store == <<row, exists, object, own, changes>>

\* level: the rows read; value: the result so far; old: oldInterval of Update;
\* steady: no row has changed since Resolve began.
NoJob == [at |-> "idle", for |-> "get", level |-> 0, value |-> None, old |-> None,
          timeout |-> None, new |-> None, steady |-> TRUE]

TypeOK ==
  /\ row \in [Level -> Values \cup {None}] /\ row["server"] # None
  /\ exists \in BOOLEAN
  /\ object \in Values \cup {None}
  /\ own \in OwnTimeouts
  /\ cache \in [value : Values, age : 0 .. TTL] \cup {None}
  /\ interval \in Values \cup {Fallback, None}
  /\ job \in [Callers ->
       [at : {"idle", "lookup", "read", "store", "resolved", "write"},
        for : {"get", "poll", "schedule", "old", "new"}, level : 0 .. Len(Levels) - 1,
        value : Values \cup {None}, old : Values \cup {Fallback, None},
        timeout : Values \cup {BuiltIn, None}, new : Values \cup {None}, steady : BOOLEAN]]
  /\ used \in [Workers -> [timeout : Values \cup {BuiltIn}, due : Values \cup {BuiltIn}] \cup {None}]
  /\ changes \in 0 .. MaxChanges

Init ==
  /\ row = [l \in Level |-> IF l = "server" THEN ServerDefault ELSE None]
  /\ exists = TRUE
  /\ object = None
  /\ own \in OwnTimeouts
  /\ cache = None
  /\ interval = None
  /\ job = [c \in Callers |-> NoJob]
  /\ used = [w \in Workers |-> None]
  /\ changes = 0
-----------------------------------------------------------------------------
(* Resolve. *)

\* An entry that never expires.
FreshAlways(entry) == entry # None
\* The entry may be used.
Fresh(entry) == IF entry = None THEN FALSE ELSE entry.age < TTL

\* Applying a level without the test whether it sets the field.
ApplyUnset(value, set) == set
\* A level overrides the result so far if it sets the field.
Apply(value, set) == IF set = None THEN value ELSE set

\* The configuration that is in force: the most specific level that sets it.
Effective(rows) ==
  IF rows["poller"] # None THEN rows["poller"]
  ELSE IF rows["target"] # None THEN rows["target"]
  ELSE IF rows["namespace"] # None THEN rows["namespace"]
  ELSE rows["server"]

Lookup(c) ==
  /\ job[c].at = "lookup"
  /\ job' = [job EXCEPT ![c] =
       IF Fresh(cache) THEN [@ EXCEPT !.at = "resolved", !.value = cache.value]
       ELSE [@ EXCEPT !.at = "read", !.value = None]]
  /\ UNCHANGED <<store, cache, interval, used>>

ReadLevel(c) ==
  LET next == job[c].level + 1 IN
  /\ job[c].at = "read"
  /\ job' = [job EXCEPT ![c].value = Apply(@, row[Levels[next]]),
                        ![c].level = IF next = Len(Levels) THEN 0 ELSE next,
                        ![c].at = IF next = Len(Levels) THEN "store" ELSE @]
  /\ UNCHANGED <<store, cache, interval, used>>

\* A row cannot be read: the caller gets no configuration.
ReadError(c) ==
  /\ job[c].at = "read"
  /\ job' = [job EXCEPT ![c].at = "resolved", ![c].value = None, ![c].level = 0, ![c].steady = TRUE]
  /\ UNCHANGED <<store, cache, interval, used>>

CacheStore(c) ==
  /\ job[c].at = "store"
  /\ cache' = [value |-> job[c].value, age |-> 0]
  /\ job' = [job EXCEPT ![c].at = "resolved", ![c].steady = TRUE]
  /\ UNCHANGED <<store, interval, used>>

\* Time passes for the cached result.
Tick ==
  /\ cache # None
  /\ cache.age < TTL
  /\ cache' = [cache EXCEPT !.age = @ + 1]
  /\ UNCHANGED <<store, interval, job, used>>
-----------------------------------------------------------------------------
(* The callers. *)

\* PollerManager.Update has the manager's mutex.
Updating == \E c \in Clients : job[c].for \in {"old", "new"}
Begin(c, for) == job' = [job EXCEPT ![c] = [NoJob EXCEPT !.at = "lookup", !.for = for]]
End(c) == job' = [job EXCEPT ![c] = NoJob]

GetResolvedConfig(c) ==
  /\ job[c].at = "idle"
  /\ Begin(c, "get")
  /\ UNCHANGED <<store, cache, interval, used>>

GetDone(c) ==
  /\ job[c].at = "resolved" /\ job[c].for = "get"
  /\ End(c)
  /\ UNCHANGED <<store, cache, interval, used>>

\* handleEnablePoller, and handleCreatePoller for a poller created enabled.
StartSchedule(c) ==
  /\ job[c].at = "idle"
  /\ exists /\ ~Updating
  /\ Begin(c, "schedule")
  /\ UNCHANGED <<store, cache, interval, used>>

\* Scheduler.Add leaves an item that is there alone.
Schedule(c) ==
  /\ job[c].at = "resolved" /\ job[c].for = "schedule"
  /\ interval' = IF interval = None THEN job[c].value ELSE interval
  /\ End(c)
  /\ UNCHANGED <<store, cache, used>>

\* What ParseSNMPConfig makes of the protocol configuration.
ParsedTimeout == IF own = None THEN BuiltIn ELSE own

\* executePoll: the poller is cached and its protocol configuration is parsed, which
\* fills the timeout in, before the resolved configuration is asked for.
StartPoll(w) ==
  /\ job[w].at = "idle"
  /\ interval # None
  /\ exists /\ ~Updating
  /\ job' = [job EXCEPT ![w] = [NoJob EXCEPT !.at = "lookup", !.for = "poll",
                                             !.timeout = ParsedTimeout, !.new = own]]
  /\ used' = [used EXCEPT ![w] = None]
  /\ UNCHANGED <<store, cache, interval>>

\* A timeout of zero (None) is replaced by the resolved one.
PollTimeout(parsed, resolved) == IF parsed = None /\ resolved # None THEN resolved ELSE parsed

\* new is the timeout of the poller's own protocol configuration.
Poll(w) ==
  /\ job[w].at = "resolved" /\ job[w].for = "poll"
  /\ used' = [used EXCEPT ![w] =
       [timeout |-> PollTimeout(job[w].timeout, job[w].value),
        due |-> CASE job[w].new # None -> job[w].new
                  [] job[w].new = None /\ job[w].value # None -> job[w].value
                  [] OTHER -> BuiltIn]]
  /\ End(w)
  /\ UNCHANGED <<store, cache, interval>>
-----------------------------------------------------------------------------
(* Changes of the configuration. *)

Change == changes < MaxChanges /\ changes' = changes + 1
\* The row of a level changes: a Resolve under way has seen the old one or will see
\* the new one.
Moved(jobs) ==
  [c \in Callers |-> IF jobs[c].at \in {"read", "store"} THEN [jobs[c] EXCEPT !.steady = FALSE]
                     ELSE jobs[c]]

\* UpdateNamespace and UpdateTarget with new defaults; no cached result is dropped.
UpdateLevel(l, v) ==
  /\ l \in {"namespace", "target"}
  /\ row[l] # v
  /\ Change
  /\ row' = [row EXCEPT ![l] = v]
  /\ job' = Moved(job)
  /\ UNCHANGED <<exists, object, own, cache, interval, used>>

\* UpdatePoller changes the cached poller in place and calls PollerManager.Update,
\* which asks for the interval of the cached poller: its own, or the resolved one.
StartUpdate(c, v) ==
  /\ job[c].at = "idle"
  /\ exists /\ ~Updating
  /\ v # object
  /\ Change
  /\ object' = v
  /\ job' = [job EXCEPT ![c] =
       IF v = None THEN [NoJob EXCEPT !.at = "lookup", !.for = "old", !.new = v]
       ELSE [NoJob EXCEPT !.at = "write", !.for = "old", !.old = v, !.new = v]]
  /\ UNCHANGED <<row, exists, own, cache, interval, used>>

OldInterval(c) ==
  /\ job[c].at = "resolved" /\ job[c].for = "old"
  /\ job' = [job EXCEPT ![c].at = "write", ![c].value = None,
                        ![c].old = IF job[c].value = None THEN Fallback ELSE job[c].value]
  /\ UNCHANGED <<store, cache, interval, used>>

\* The row is written; the new interval is again that of the poller, or resolved.
\* It is equal to the old one when the poller sets it: nothing more happens then.
WritePoller(c) ==
  /\ job[c].at = "write"
  /\ row' = [row EXCEPT !["poller"] = job[c].new]
  /\ job' = [Moved(job) EXCEPT ![c] =
       IF job[c].new # None THEN NoJob ELSE [@ EXCEPT !.at = "lookup", !.for = "new"]]
  /\ UNCHANGED <<exists, object, own, cache, interval, used, changes>>

\* The statement fails: Update returns, and the cached poller keeps the change.
WriteError(c) ==
  /\ job[c].at = "write"
  /\ End(c)
  /\ UNCHANGED <<store, cache, interval, used>>

\* onPollerUpdated: Scheduler.UpdateInterval if the intervals differ.
NewInterval(c) ==
  LET new == IF job[c].value = None THEN Fallback ELSE job[c].value IN
  /\ job[c].at = "resolved" /\ job[c].for = "new"
  /\ interval' = IF new # job[c].old /\ interval # None THEN new ELSE interval
  /\ End(c)
  /\ UNCHANGED <<store, cache, used>>

\* PollerManager.Delete: the item, the row, the cached poller and the cached result go.
DeletePoller(c) ==
  /\ job[c].at = "idle"
  /\ exists /\ ~Updating
  /\ Change
  /\ exists' = FALSE
  /\ row' = [row EXCEPT !["poller"] = None]
  /\ object' = None
  /\ interval' = None
  /\ cache' = None
  /\ job' = Moved(job)
  /\ UNCHANGED <<own, used>>

\* The poller is created, with another protocol configuration.
CreatePoller(c, v, o) ==
  /\ job[c].at = "idle"
  /\ ~exists /\ ~Updating
  /\ Change
  /\ exists' = TRUE
  /\ row' = [row EXCEPT !["poller"] = v]
  /\ object' = v
  /\ own' = o
  /\ job' = Moved(job)
  /\ UNCHANGED <<cache, interval, used>>
-----------------------------------------------------------------------------
ResolveStep(c) == Lookup(c) \/ ReadLevel(c) \/ ReadError(c) \/ CacheStore(c)
Finish(c) == GetDone(c) \/ Schedule(c) \/ OldInterval(c) \/ NewInterval(c)
WriteStep(c) == WritePoller(c) \/ WriteError(c)
Request(c) ==
  \/ GetResolvedConfig(c) \/ StartSchedule(c) \/ DeletePoller(c)
  \/ \E v \in Values \cup {None} : StartUpdate(c, v)
  \/ \E v \in Values \cup {None}, o \in OwnTimeouts : CreatePoller(c, v, o)
Next ==
  \/ \E c \in Clients : Request(c) \/ Finish(c) \/ WriteStep(c)
  \/ \E w \in Workers : StartPoll(w) \/ Poll(w)
  \/ \E c \in Callers : ResolveStep(c)
  \/ \E l \in Level, v \in Values \cup {None} : UpdateLevel(l, v)
  \/ Tick
Spec == Init /\ [][Next]_vars
\* Time passes, and a goroutine that resolves a configuration goes on.
FairSpec == Spec /\ WF_vars(Tick) /\ \A c \in Callers : WF_vars(ResolveStep(c))
-----------------------------------------------------------------------------
(* Properties. *)

\* A configuration that is resolved while no row changes is the one the inheritance
\* asks for: the most specific level that sets a field wins, whatever was read first.
ResolvesEffective ==
  \A c \in Callers :
    job[c].at = "store" /\ job[c].steady => job[c].value = Effective(row)

\* Changes reach the polls: nothing tells the cache of a change of the namespace or of
\* the target, and a Resolve that read the old rows may store its result after the
\* change or after the deletion of the poller; but when the configuration stays as it
\* is, from some time on every result that may still be used is the one in force.
ConfigCatchesUp == <>[](Fresh(cache) => cache.value = Effective(row))

\* "Poller: timeout_ms: 1000 <- overrides everything. Result: poller uses timeout_ms:
\* 1000": a poll is made with the timeout of its own protocol configuration or, when
\* that has none, with the resolved one.
UsesResolvedTimeout == \A w \in Workers : used[w] # None => used[w].timeout = used[w].due
=============================================================================
