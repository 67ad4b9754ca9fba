--------------------------- MODULE ResolverProofs ---------------------------
(***************************************************************************)
(* Proofs about Resolver, for every set of values, workers and clients and *)
(* every time to live of a cached result.                                  *)
(***************************************************************************)
EXTENDS Resolver, TLAPS

USE ResolverAssumption

Jobs ==
  [at : {"idle", "lookup", "read", "store", "resolved", "write"},
   for : {"get", "poll", "schedule", "old", "new"}, level : 0 .. 3,
   value : Values \cup {None}, old : Values \cup {Fallback, None},
   timeout : Values \cup {BuiltIn, None}, new : Values \cup {None}, steady : BOOLEAN]

\* What the first n levels set.
Upto(rows, n) ==
  LET ns == Apply(rows["server"], rows["namespace"])
      target == Apply(ns, rows["target"])
  IN IF n = 0 THEN None
     ELSE IF n = 1 THEN rows["server"]
     ELSE IF n = 2 THEN ns
     ELSE IF n = 3 THEN target
     ELSE Apply(target, rows["poller"])

\* How far a job is, apart from the rows: Resolve counts levels only while it reads, has a
\* value once it has read the level of the server, and a poll has a timeout.
JobOK(j) ==
  /\ j \in Jobs
  /\ j.at # "read" => j.level = 0
  /\ j.at = "read" /\ j.level # 0 => j.value # None
  /\ j.at = "store" => j.value # None
  /\ j.for = "poll" => j.timeout # None
\* When no row has changed, a Resolve under way has what the levels it has read set.
ReadOK(j, rows) ==
  /\ j.at = "read" /\ j.steady => j.value = Upto(rows, j.level)
  /\ j.at = "store" /\ j.steady => j.value = Upto(rows, 4)

Jobbed == \A c \in Callers : JobOK(job[c])
Reading == \A c \in Callers : ReadOK(job[c], row)
IInv == TypeOK /\ Jobbed /\ Reading

-----------------------------------------------------------------------------
(* The levels. *)

LEMMA FourLevels ==
  /\ Len(Levels) = 4
  /\ Levels[1] = "server" /\ Levels[2] = "namespace" /\ Levels[3] = "target" /\ Levels[4] = "poller"
BY DEF Levels

\* Reading one more level.
LEMMA UptoNext ==
  ASSUME NEW rows, NEW n \in 0 .. 3, rows["server"] # None
  PROVE  Apply(Upto(rows, n), rows[Levels[n + 1]]) = Upto(rows, n + 1)
<1>1. CASE n = 0
  BY <1>1, FourLevels DEF Upto, Apply
<1>2. CASE n = 1
  BY <1>2, FourLevels DEF Upto
<1>3. CASE n = 2
  BY <1>3, FourLevels DEF Upto
<1>4. CASE n = 3
  BY <1>4, FourLevels DEF Upto
<1> QED
  BY <1>1, <1>2, <1>3, <1>4

\* All four levels give the most specific value that is set.
LEMMA UptoFour ==
  ASSUME NEW rows
  PROVE  Upto(rows, 4) = Effective(rows)
BY DEF Upto, Effective, Apply

-----------------------------------------------------------------------------
(* A step of one job. *)

LEMMA OneJob ==
  ASSUME IInv, NEW c \in Callers, NEW j, job' = [job EXCEPT ![c] = j],
         JobOK(j), ReadOK(j, row), row' = row
  PROVE  /\ job' \in [Callers -> Jobs]
         /\ Jobbed' /\ Reading'
<1>1. job \in [Callers -> Jobs]
  BY FourLevels DEF IInv, TypeOK, Jobs
<1>2. \A d \in Callers : job'[d] = IF d = c THEN j ELSE job[d]
  BY <1>1
<1>3. job' \in [Callers -> Jobs]
  BY <1>1 DEF JobOK
<1>4. Jobbed'
  BY <1>2 DEF IInv, Jobbed, JobOK
<1>5. Reading'
  BY <1>2 DEF IInv, Reading, ReadOK
<1> QED
  BY <1>3, <1>4, <1>5

LEMMA IdleJob == JobOK(NoJob) /\ NoJob.at = "idle" /\ \A rows : ReadOK(NoJob, rows)
BY DEF JobOK, ReadOK, NoJob, Jobs

\* The jobs after a row has changed.
LEMMA MovedJobs ==
  ASSUME IInv
  PROVE  /\ Moved(job) \in [Callers -> Jobs]
         /\ \A c \in Callers : JobOK(Moved(job)[c]) /\ \A rows : ReadOK(Moved(job)[c], rows)
         /\ \A c \in Callers : job[c].at \notin {"read", "store"} => Moved(job)[c] = job[c]
<1>1. job \in [Callers -> Jobs]
  BY FourLevels DEF IInv, TypeOK, Jobs
<1>2. ASSUME NEW c \in Callers
      PROVE  /\ Moved(job)[c] \in Jobs
             /\ JobOK(Moved(job)[c]) /\ \A rows : ReadOK(Moved(job)[c], rows)
             /\ job[c].at \notin {"read", "store"} => Moved(job)[c] = job[c]
  <2>1. job[c] \in Jobs /\ JobOK(job[c])
    BY <1>1 DEF IInv, Jobbed
  <2>2. CASE job[c].at \in {"read", "store"}
    <3>1. Moved(job)[c] = [job[c] EXCEPT !.steady = FALSE]
      BY <2>2 DEF Moved
    <3> QED
      BY <2>1, <2>2, <3>1 DEF JobOK, ReadOK, Jobs
  <2>3. CASE job[c].at \notin {"read", "store"}
    <3>1. Moved(job)[c] = job[c]
      BY <2>3 DEF Moved
    <3> QED
      BY <2>1, <2>3, <3>1 DEF ReadOK
  <2> QED
    BY <2>2, <2>3
<1> QED
  BY <1>2 DEF Moved

\* The parts of the invariant after a step of one job, which may change other variables
\* than the rows within their types.
Others ==
  /\ exists \in BOOLEAN
  /\ object \in Values \cup {None}
  /\ own \in OwnTimeouts
  /\ cache \in [value : Values, age : 0 .. TTL] \cup {None}
  /\ interval \in Values \cup {Fallback, None}
  /\ used \in [Workers -> [timeout : Values \cup {BuiltIn}, due : Values \cup {BuiltIn}] \cup {None}]
  /\ changes \in 0 .. MaxChanges
RowsOK == row \in [Level -> Values \cup {None}] /\ row["server"] # None

LEMMA TypeParts == TypeOK <=> RowsOK /\ Others /\ job \in [Callers -> Jobs]
BY FourLevels DEF TypeOK, RowsOK, Others, Jobs

LEMMA JobStep ==
  ASSUME IInv, NEW c \in Callers, NEW j, job' = [job EXCEPT ![c] = j],
         JobOK(j), ReadOK(j, row), row' = row, Others'
  PROVE  IInv'
<1>1. job' \in [Callers -> Jobs] /\ Jobbed' /\ Reading'
  BY OneJob
<1>2. RowsOK'
  BY TypeParts DEF IInv, RowsOK
<1>3. TypeOK'
  BY <1>1, <1>2, FourLevels DEF TypeOK, RowsOK, Others, Jobs
<1> QED
  BY <1>1, <1>3 DEF IInv

LEMMA LookupStep ==
  ASSUME IInv, NEW c \in Callers, Lookup(c)
  PROVE  IInv'
<1> DEFINE j == IF Fresh(cache) THEN [job[c] EXCEPT !.at = "resolved", !.value = cache.value]
                ELSE [job[c] EXCEPT !.at = "read", !.value = None]
<1>1. JobOK(job[c]) /\ job[c].at = "lookup" /\ Others
  BY TypeParts DEF IInv, Jobbed, Lookup
<1>2. Fresh(cache) => cache.value \in Values
  BY <1>1 DEF Fresh, Others
<1>3. JobOK(j)
  BY <1>1, <1>2 DEF JobOK, Jobs
<1>4. ReadOK(j, row)
  BY <1>1 DEF ReadOK, Upto, JobOK, Jobs
<1>5. job' = [job EXCEPT ![c] = j] /\ row' = row /\ Others'
  BY <1>1 DEF Lookup, store, Others
<1> QED
  BY <1>3, <1>4, <1>5, JobStep

LEMMA ReadLevelStep ==
  ASSUME IInv, NEW c \in Callers, ReadLevel(c)
  PROVE  IInv'
<1> DEFINE n == job[c].level
           value == Apply(job[c].value, row[Levels[n + 1]])
<1>1. JobOK(job[c]) /\ ReadOK(job[c], row) /\ job[c].at = "read" /\ Others /\ RowsOK
  BY TypeParts DEF IInv, Jobbed, Reading, ReadLevel
<1>2. n \in 0 .. 3 /\ job[c] \in Jobs
  BY <1>1 DEF JobOK, Jobs
<1>3. value \in Values
  <2>1. row[Levels[n + 1]] \in Values \cup {None} /\ (n = 0 => row[Levels[n + 1]] # None)
    BY <1>1, <1>2, FourLevels DEF RowsOK, Level
  <2>2. job[c].value \in Values \cup {None} /\ (n # 0 => job[c].value # None)
    BY <1>1, <1>2 DEF JobOK, Jobs
  <2> QED
    BY <2>1, <2>2 DEF Apply
<1>4. PICK m \in 0 .. 3, at \in {"read", "store"} :
        m = (IF n + 1 = 4 THEN 0 ELSE n + 1) /\ at = (IF n + 1 = 4 THEN "store" ELSE "read")
  BY <1>2
<1> DEFINE j == [job[c] EXCEPT !.value = value, !.level = m, !.at = at]
<1>5. /\ j \in Jobs /\ j.at = at /\ j.value = value /\ j.level = m /\ j.steady = job[c].steady
      /\ j.for = job[c].for /\ j.timeout = job[c].timeout
  BY <1>2, <1>3 DEF Jobs
<1>6. JobOK(j)
  <2> HIDE DEF j, value
  <2> QED
    BY <1>1, <1>2, <1>3, <1>4, <1>5 DEF JobOK
<1>7. job[c].steady => value = Upto(row, n + 1)
  BY <1>1, <1>2, UptoNext DEF ReadOK, RowsOK
<1>8. ReadOK(j, row)
  <2> HIDE DEF j, value
  <2> QED
    BY <1>2, <1>4, <1>5, <1>7 DEF ReadOK
<1>9. job' = [job EXCEPT ![c] = j] /\ row' = row /\ Others'
  BY <1>1, <1>2, <1>4, FourLevels DEF ReadLevel, store, Others
<1> QED
  BY <1>6, <1>8, <1>9, JobStep

LEMMA ReadErrorStep ==
  ASSUME IInv, NEW c \in Callers, ReadError(c)
  PROVE  IInv'
<1>1. JobOK(job[c]) /\ Others
  BY TypeParts DEF IInv, Jobbed
<1>2. PICK zero \in 0 .. 3 : zero = 0
  OBVIOUS
<1> DEFINE j == [job[c] EXCEPT !.at = "resolved", !.value = None, !.level = zero, !.steady = TRUE]
<1>3. /\ j \in Jobs /\ j.at = "resolved" /\ j.level = zero
      /\ j.for = job[c].for /\ j.timeout = job[c].timeout
  BY <1>1 DEF JobOK, Jobs
<1>4. JobOK(j) /\ ReadOK(j, row)
  <2> HIDE DEF j
  <2> QED
    BY <1>1, <1>2, <1>3 DEF JobOK, ReadOK
<1>5. job' = [job EXCEPT ![c] = j] /\ row' = row /\ Others'
  BY <1>1, <1>2 DEF ReadError, store, Others
<1> QED
  BY <1>4, <1>5, JobStep

LEMMA CacheStoreStep ==
  ASSUME IInv, NEW c \in Callers, CacheStore(c)
  PROVE  IInv'
<1> DEFINE j == [job[c] EXCEPT !.at = "resolved", !.steady = TRUE]
<1>1. JobOK(job[c]) /\ job[c].at = "store" /\ Others
  BY TypeParts DEF IInv, Jobbed, CacheStore
<1>2. JobOK(j) /\ ReadOK(j, row)
  BY <1>1 DEF JobOK, ReadOK, Jobs
<1>3. cache' \in [value : Values, age : 0 .. TTL]
  BY <1>1 DEF CacheStore, JobOK, Jobs
<1>4. job' = [job EXCEPT ![c] = j] /\ row' = row /\ Others'
  BY <1>1, <1>3 DEF CacheStore, store, Others
<1> QED
  BY <1>2, <1>4, JobStep

-----------------------------------------------------------------------------
(* The callers. *)

\* A caller asks for the configuration.
LEMMA BeginStep ==
  ASSUME IInv, NEW c \in Callers, GetResolvedConfig(c) \/ StartSchedule(c)
  PROVE  IInv'
<1>1. PICK for \in {"get", "schedule"} : Begin(c, for)
  BY DEF GetResolvedConfig, StartSchedule
<1> DEFINE j == [NoJob EXCEPT !.at = "lookup", !.for = for]
<1>2. JobOK(j) /\ ReadOK(j, row)
  BY IdleJob DEF JobOK, ReadOK, Jobs
<1>3. job' = [job EXCEPT ![c] = j] /\ row' = row /\ Others'
  BY <1>1, TypeParts DEF IInv, Begin, GetResolvedConfig, StartSchedule, store, Others
<1> QED
  BY <1>2, <1>3, JobStep

\* A caller has what it asked for and is done.
LEMMA EndStep ==
  ASSUME IInv, NEW c \in Callers,
         \/ GetDone(c) \/ Schedule(c) \/ WriteError(c) \/ NewInterval(c)
         \/ c \in Workers /\ Poll(c)
  PROVE  IInv'
<1>1. JobOK(job[c]) /\ Others
  BY TypeParts DEF IInv, Jobbed
<1>2. row' = row /\ Others'
  <2>1. CASE GetDone(c) \/ WriteError(c)
    BY <1>1, <2>1 DEF GetDone, WriteError, store, Others
  <2>2. CASE Schedule(c)
    BY <1>1, <2>2 DEF Schedule, store, Others, JobOK, Jobs
  <2>3. CASE NewInterval(c)
    BY <1>1, <2>3 DEF NewInterval, store, Others, JobOK, Jobs
  <2>4. CASE c \in Workers /\ Poll(c)
    <3>1. job[c] \in Jobs /\ job[c].timeout # None
      BY <1>1, <2>4 DEF Poll, JobOK
    <3>2. PollTimeout(job[c].timeout, job[c].value) \in Values \cup {BuiltIn}
      BY <3>1 DEF PollTimeout, Jobs
    <3>3. (CASE job[c].new # None -> job[c].new
             [] job[c].new = None /\ job[c].value # None -> job[c].value
             [] OTHER -> BuiltIn) \in Values \cup {BuiltIn}
      BY <3>1 DEF Jobs
    <3> QED
      BY <1>1, <2>4, <3>2, <3>3 DEF Poll, store, Others
  <2> QED
    BY <2>1, <2>2, <2>3, <2>4
<1>3. job' = [job EXCEPT ![c] = NoJob]
  BY DEF GetDone, Schedule, WriteError, NewInterval, Poll, End
<1> QED
  BY <1>2, <1>3, IdleJob, JobStep

LEMMA StartPollStep ==
  ASSUME IInv, NEW w \in Workers, StartPoll(w)
  PROVE  IInv'
<1> DEFINE j == [NoJob EXCEPT !.at = "lookup", !.for = "poll", !.timeout = ParsedTimeout, !.new = own]
<1>1. Others /\ w \in Callers
  BY TypeParts DEF IInv, Callers
<1>2. own \in Values \cup {None} /\ ParsedTimeout \in Values \cup {BuiltIn}
  BY <1>1 DEF Others, ParsedTimeout
<1>3. JobOK(j) /\ ReadOK(j, row)
  BY <1>2, IdleJob DEF JobOK, ReadOK, Jobs
<1>4. job' = [job EXCEPT ![w] = j] /\ row' = row /\ Others'
  BY <1>1 DEF StartPoll, store, Others
<1> QED
  BY <1>1, <1>3, <1>4, JobStep

LEMMA TickStep ==
  ASSUME IInv, Tick
  PROVE  IInv'
<1>1. Others /\ RowsOK
  BY TypeParts DEF IInv
<1>2. cache' \in [value : Values, age : 0 .. TTL]
  BY <1>1 DEF Tick, Others
<1>3. row' = row /\ job' = job /\ Others'
  BY <1>1, <1>2 DEF Tick, store, Others
<1>4. TypeOK'
  BY <1>3 DEF IInv, TypeOK, Others
<1> QED
  BY <1>3, <1>4 DEF IInv, Jobbed, Reading

-----------------------------------------------------------------------------
(* Changes of the configuration. *)

\* A row changes under the jobs, of which one may take a step of its own.
LEMMA RowStep ==
  ASSUME IInv, RowsOK', Others', job' = Moved(job)
  PROVE  IInv'
<1>1. Jobbed' /\ Reading' /\ job' \in [Callers -> Jobs]
  BY MovedJobs DEF Jobbed, Reading
<1>2. TypeOK'
  BY <1>1, FourLevels DEF TypeOK, RowsOK, Others, Jobs
<1> QED
  BY <1>1, <1>2 DEF IInv

LEMMA UpdateLevelStep ==
  ASSUME IInv, NEW l \in Level, NEW v \in Values \cup {None}, UpdateLevel(l, v)
  PROVE  IInv'
<1>1. Others /\ RowsOK
  BY TypeParts DEF IInv
<1>2. RowsOK'
  BY <1>1 DEF UpdateLevel, RowsOK
<1>3. Others' /\ job' = Moved(job)
  BY <1>1 DEF UpdateLevel, Change, Others
<1> QED
  BY <1>2, <1>3, RowStep

LEMMA DeletePollerStep ==
  ASSUME IInv, NEW c \in Clients, DeletePoller(c)
  PROVE  IInv'
<1>1. Others /\ RowsOK
  BY TypeParts DEF IInv
<1>2. RowsOK'
  BY <1>1 DEF DeletePoller, RowsOK, Level
<1>3. Others' /\ job' = Moved(job)
  <2>1. /\ exists' = FALSE /\ object' = None /\ interval' = None /\ cache' = None
        /\ own' = own /\ used' = used /\ job' = Moved(job)
    BY DEF DeletePoller
  <2>2. changes' \in 0 .. MaxChanges
    BY <1>1 DEF DeletePoller, Change, Others
  <2> QED
    BY <1>1, <2>1, <2>2 DEF Others
<1> QED
  BY <1>2, <1>3, RowStep

LEMMA CreatePollerStep ==
  ASSUME IInv, NEW c \in Clients, NEW v \in Values \cup {None}, NEW o \in OwnTimeouts,
         CreatePoller(c, v, o)
  PROVE  IInv'
<1>1. Others /\ RowsOK
  BY TypeParts DEF IInv
<1>2. RowsOK'
  BY <1>1 DEF CreatePoller, RowsOK, Level
<1>3. Others' /\ job' = Moved(job)
  BY <1>1 DEF CreatePoller, Change, Others
<1> QED
  BY <1>2, <1>3, RowStep

LEMMA StartUpdateStep ==
  ASSUME IInv, NEW c \in Clients, NEW v \in Values \cup {None}, StartUpdate(c, v)
  PROVE  IInv'
<1>1. Others /\ c \in Callers
  BY TypeParts DEF IInv, Callers
<1>2. row' = row /\ Others'
  BY <1>1 DEF StartUpdate, Change, Others
<1>3. CASE v = None
  <2> DEFINE j == [NoJob EXCEPT !.at = "lookup", !.for = "old", !.new = v]
  <2>1. JobOK(j) /\ ReadOK(j, row)
    BY IdleJob DEF JobOK, ReadOK, Jobs
  <2>2. job' = [job EXCEPT ![c] = j]
    BY <1>3 DEF StartUpdate
  <2> QED
    BY <1>1, <1>2, <2>1, <2>2, JobStep
<1>4. CASE v # None
  <2> DEFINE j == [NoJob EXCEPT !.at = "write", !.for = "old", !.old = v, !.new = v]
  <2>1. JobOK(j) /\ ReadOK(j, row)
    BY IdleJob DEF JobOK, ReadOK, Jobs
  <2>2. job' = [job EXCEPT ![c] = j]
    BY <1>4 DEF StartUpdate
  <2> QED
    BY <1>1, <1>2, <2>1, <2>2, JobStep
<1> QED
  BY <1>3, <1>4

LEMMA OldIntervalStep ==
  ASSUME IInv, NEW c \in Clients, OldInterval(c)
  PROVE  IInv'
<1>1. Others /\ c \in Callers /\ JobOK(job[c]) /\ job[c].at = "resolved"
  BY TypeParts DEF IInv, Callers, Jobbed, OldInterval
<1>2. PICK old \in Values \cup {Fallback} : old = IF job[c].value = None THEN Fallback ELSE job[c].value
  BY <1>1 DEF JobOK, Jobs
<1> DEFINE j == [job[c] EXCEPT !.at = "write", !.value = None, !.old = old]
<1>3. JobOK(j) /\ ReadOK(j, row)
  BY <1>1 DEF JobOK, ReadOK, Jobs
<1>4. job' = [job EXCEPT ![c] = j] /\ row' = row /\ Others'
  BY <1>1, <1>2 DEF OldInterval, store, Others
<1> QED
  BY <1>1, <1>3, <1>4, JobStep

\* The row of the poller and the job of the client change in one step.
LEMMA WritePollerStep ==
  ASSUME IInv, NEW c \in Clients, WritePoller(c)
  PROVE  IInv'
<1> DEFINE moved == Moved(job)
           j == IF job[c].new # None THEN NoJob
                ELSE [moved[c] EXCEPT !.at = "lookup", !.for = "new"]
<1>1. Others /\ RowsOK /\ c \in Callers /\ JobOK(job[c]) /\ job[c].at = "write"
  BY TypeParts DEF IInv, Callers, Jobbed, WritePoller
<1>2. RowsOK'
  BY <1>1 DEF WritePoller, RowsOK, Level, JobOK, Jobs
<1>3. Others'
  BY <1>1 DEF WritePoller, Others
<1>4. /\ moved \in [Callers -> Jobs] /\ moved[c] = job[c]
      /\ \A d \in Callers : JobOK(moved[d]) /\ \A rows : ReadOK(moved[d], rows)
  BY <1>1, MovedJobs
<1>5. job' = [moved EXCEPT ![c] = j]
  BY <1>1 DEF WritePoller
<1>6. JobOK(j) /\ \A rows : ReadOK(j, rows)
  <2>1. CASE job[c].new # None
    BY <2>1, IdleJob
  <2>2. CASE job[c].new = None
    <3>1. j = [job[c] EXCEPT !.at = "lookup", !.for = "new"]
      BY <1>4, <2>2
    <3> QED
      BY <1>1, <3>1 DEF JobOK, ReadOK, Jobs
  <2> QED
    BY <2>1, <2>2
<1>7. \A d \in Callers : job'[d] = IF d = c THEN j ELSE moved[d]
  <2> HIDE DEF moved, j
  <2> QED
    BY <1>4, <1>5
<1>8. Jobbed' /\ Reading' /\ job' \in [Callers -> Jobs]
  <2> HIDE DEF moved, j
  <2> QED
    BY <1>4, <1>5, <1>6, <1>7 DEF Jobbed, Reading, JobOK
<1>9. TypeOK'
  BY <1>2, <1>3, <1>8, FourLevels DEF TypeOK, RowsOK, Others, Jobs
<1> QED
  BY <1>8, <1>9 DEF IInv

-----------------------------------------------------------------------------
(* The theorems. *)

LEMMA InitIInv ==
  ASSUME Init
  PROVE  IInv
<1>1. RowsOK /\ Others
  BY DEF Init, RowsOK, Others, Level
<1>2. job \in [Callers -> Jobs] /\ \A c \in Callers : job[c] = NoJob
  BY IdleJob DEF Init, JobOK
<1>3. Jobbed /\ Reading
  BY <1>2, IdleJob DEF Jobbed, Reading
<1> QED
  BY <1>1, <1>2, <1>3, TypeParts DEF IInv

LEMMA NextIInv ==
  ASSUME IInv, [Next]_vars
  PROVE  IInv'
<1> USE DEF Callers
<1>1. CASE \E c \in Clients : Request(c)
  BY <1>1, BeginStep, DeletePollerStep, StartUpdateStep, CreatePollerStep DEF Request
<1>2. CASE \E c \in Clients : Finish(c) \/ WriteStep(c)
  BY <1>2, EndStep, OldIntervalStep, WritePollerStep DEF Finish, WriteStep
<1>3. CASE \E w \in Workers : StartPoll(w) \/ Poll(w)
  BY <1>3, StartPollStep, EndStep
<1>4. CASE \E c \in Callers : ResolveStep(c)
  BY <1>4, LookupStep, ReadLevelStep, ReadErrorStep, CacheStoreStep DEF ResolveStep
<1>5. CASE \E l \in Level, v \in Values \cup {None} : UpdateLevel(l, v)
  BY <1>5, UpdateLevelStep
<1>6. CASE Tick
  BY <1>6, TickStep
<1>7. CASE UNCHANGED vars
  BY <1>7 DEF vars, IInv, TypeOK, Jobbed, Reading
<1> QED
  BY <1>1, <1>2, <1>3, <1>4, <1>5, <1>6, <1>7 DEF Next

LEMMA IInvHolds == Spec => []IInv
BY InitIInv, NextIInv, PTL DEF Spec

\* The type invariant: what a Resolve stores in the cache is always a value, and a poll
\* always has a timeout, whatever failed to be read.
THEOREM TypeCorrect == Spec => []TypeOK
<1>1. IInv => TypeOK
  BY DEF IInv
<1> QED
  BY <1>1, IInvHolds, PTL

\* A configuration resolved while no row changed is the effective one (Resolve of
\* config_resolver.go applies the levels from the server to the poller).
THEOREM ResolvesEffectiveHolds == Spec => []ResolvesEffective
<1>1. IInv => ResolvesEffective
  BY UptoFour DEF IInv, Reading, ReadOK, ResolvesEffective
<1> QED
  BY <1>1, IInvHolds, PTL
=============================================================================
