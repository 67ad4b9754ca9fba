---------------------------- MODULE StatsProofs ----------------------------
(***************************************************************************)
(* Proofs about the statistics in Sync, for any number of pollers, records *)
(* and restarts: the types of the whole state, and that a stored row never *)
(* has more polls without an outcome than one for every start and one for  *)
(* the result that was half counted when the row was read.                 *)
(***************************************************************************)
EXTENDS SyncProofs

\* The steps in which processResults counts, and those in which a record is being read.
Counting == {"total", "outcome", "timeout", "dirty"}
Loading == {"loadSuccess", "loadFailed", "loadTimeout"}

Flushes ==
  [todo : SUBSET Recs, read : SUBSET Recs, cur : Recs \cup {None}, row : Counters,
   saved : [Keys -> Counters \cup {None}]]
StatTypes ==
  /\ stats \in [Keys -> Recs \cup {None}]
  /\ rec \in [Recs -> Records]
  /\ flush \in [StatsFlushers -> Flushes]
  /\ statRow \in [Keys -> Counters \cup {None}]
  /\ starts \in Nat
EndTypes ==
  /\ refused \subseteq Samples
  /\ listener \in {"none", "open", "closed"}
  /\ shutdown \subseteq {"server", "sync"}
  /\ storeOpen \in BOOLEAN
  /\ proc \in {"up", "exited", "panicked"}

\* Who counts has a record, and who reads has one.
Held ==
  /\ at[Reader] \in Counting => result.rec \in Recs
  /\ \A g \in StatsFlushers : at[g] \in Loading => flush[g].cur \in Recs

\* At most n polls without an outcome.
Covers(c, n) == c.total <= c.success + c.failed + n
\* The result that is counted as a poll and not yet as a success or a failure.
Half(r) == IF at[Reader] = "outcome" /\ result.rec = r THEN 1 ELSE 0
RecsCovered == \A r \in Recs : Covers(rec[r], starts + Half(r))
\* GetStats reads the total first: the outcomes it has not read yet can only grow.
ReadCovered(g) ==
  /\ at[g] = "loadSuccess" =>
       flush[g].row.total <= rec[flush[g].cur].success + rec[flush[g].cur].failed + (starts + 1)
  /\ at[g] = "loadFailed" =>
       flush[g].row.total <= flush[g].row.success + rec[flush[g].cur].failed + (starts + 1)
  /\ at[g] = "loadTimeout" => Covers(flush[g].row, starts + 1)
SavedCovered(g) ==
  \A k \in Keys : flush[g].saved[k] # None => Covers(flush[g].saved[k], starts + 1)
FlushCovered == \A g \in StatsFlushers : ReadCovered(g) /\ SavedCovered(g)
RowsCovered == \A k \in Keys : statRow[k] # None => Covers(statRow[k], starts + 1)

SInv == StatTypes /\ Held /\ RecsCovered /\ FlushCovered /\ RowsCovered

-----------------------------------------------------------------------------
(* Fields. *)

LEMMA CounterFields ==
  ASSUME NEW c \in Counters
  PROVE  c.total \in Nat /\ c.success \in Nat /\ c.failed \in Nat /\ c.timeout \in Nat
  BY DEF Counters

LEMMA RecordFields ==
  ASSUME NEW x \in Records
  PROVE  /\ x.total \in Nat /\ x.success \in Nat /\ x.failed \in Nat /\ x.timeout \in Nat
         /\ x.key \in Keys \cup {None} /\ x.dirty \in BOOLEAN
  BY DEF Records

LEMMA FlushFields ==
  ASSUME NEW f \in Flushes
  PROVE  /\ f.todo \in SUBSET Recs /\ f.read \in SUBSET Recs /\ f.cur \in Recs \cup {None}
         /\ f.row \in Counters /\ f.saved \in [Keys -> Counters \cup {None}]
  BY DEF Flushes

LEMMA ZeroOK == Zero \in Counters /\ Covers(Zero, 0) /\ Zero.success = 0 /\ Zero.failed = 0
<1>1. PICK zero \in Nat : zero = 0
  OBVIOUS
<1>2. Zero = [total |-> zero, success |-> zero, failed |-> zero, timeout |-> zero]
  BY <1>1 DEF Zero
<1>3. Zero \in Counters
  BY <1>2 DEF Counters
<1> QED BY <1>1, <1>2, <1>3 DEF Covers

LEMMA NewStatsOK ==
  ASSUME NEW k \in Keys \cup {None}, NEW c \in Counters
  PROVE  /\ NewPollerStats(k, c) \in Records
         /\ NewPollerStats(k, c).total = c.total
         /\ NewPollerStats(k, c).success = c.success
         /\ NewPollerStats(k, c).failed = c.failed
  BY CounterFields DEF NewPollerStats, Records

LEMMA NoFlushOK ==
  /\ NoFlush \in Flushes /\ NoFlush.cur = None /\ \A k \in Keys : NoFlush.saved[k] = None
  BY ZeroOK DEF NoFlush, Flushes

LEMMA CoversMore ==
  ASSUME NEW c, c.total \in Nat, c.success \in Nat, c.failed \in Nat,
         NEW m \in Nat, NEW n \in Nat, m <= n, Covers(c, m)
  PROVE  Covers(c, n)
  BY DEF Covers

-----------------------------------------------------------------------------
(* Pieces of a step. *)

\* A reading goes on while the record is only counted up.
LEMMA ReadKept ==
  ASSUME StatTypes, StatTypes', Held, NEW g \in StatsFlushers, ReadCovered(g), starts' = starts,
         \/ at'[g] \notin Loading
         \/ /\ at'[g] = at[g]
            /\ flush'[g].cur = flush[g].cur /\ flush'[g].row = flush[g].row
            /\ at[g] \in Loading =>
                 /\ rec[flush[g].cur].success <= rec'[flush[g].cur].success
                 /\ rec[flush[g].cur].failed <= rec'[flush[g].cur].failed
  PROVE  ReadCovered(g)'
<1>1. CASE at'[g] \notin Loading
  BY <1>1 DEF ReadCovered, Loading
<1>2. CASE at'[g] \in Loading
  <2>1. /\ at'[g] = at[g] /\ at[g] \in Loading
        /\ flush'[g].cur = flush[g].cur /\ flush'[g].row = flush[g].row
        /\ rec[flush[g].cur].success <= rec'[flush[g].cur].success
        /\ rec[flush[g].cur].failed <= rec'[flush[g].cur].failed
    BY <1>2
  <2>2. PICK r \in Recs : r = flush[g].cur
    BY <2>1 DEF Held
  <2>3. /\ rec[r].success \in Nat /\ rec[r].failed \in Nat
        /\ rec'[r].success \in Nat /\ rec'[r].failed \in Nat
    BY RecordFields DEF StatTypes
  <2>4. flush[g].row.total \in Nat /\ flush[g].row.success \in Nat /\ flush[g].row.failed \in Nat
    BY FlushFields, CounterFields DEF StatTypes
  <2>5. PICK s, f, s1, f1, n \in Nat :
          /\ s = rec[r].success /\ f = rec[r].failed /\ s1 = rec'[r].success /\ f1 = rec'[r].failed
          /\ n = starts
    BY <2>3 DEF StatTypes
  <2>6. PICK t, u, v \in Nat :
          t = flush[g].row.total /\ u = flush[g].row.success /\ v = flush[g].row.failed
    BY <2>4
  <2>7. s <= s1 /\ f <= f1
    BY <2>1, <2>2, <2>5
  <2>8. CASE at[g] = "loadSuccess"
    <3>1. t <= s + f + (n + 1)
      BY <2>2, <2>5, <2>6, <2>8 DEF ReadCovered
    <3>2. t <= s1 + f1 + (n + 1)
      BY <2>7, <3>1
    <3> QED BY <2>1, <2>2, <2>5, <2>6, <2>8, <3>2 DEF ReadCovered
  <2>9. CASE at[g] = "loadFailed"
    <3>1. t <= u + f + (n + 1)
      BY <2>2, <2>5, <2>6, <2>9 DEF ReadCovered
    <3>2. t <= u + f1 + (n + 1)
      BY <2>7, <3>1
    <3> QED BY <2>1, <2>2, <2>5, <2>6, <2>9, <3>2 DEF ReadCovered
  <2>10. CASE at[g] = "loadTimeout"
    BY <2>1, <2>10 DEF ReadCovered, Covers
  <2> QED BY <2>1, <2>8, <2>9, <2>10 DEF Loading
<1> QED BY <1>1, <1>2

\* A step that has nothing to do with the statistics.
Aside ==
  /\ UNCHANGED <<stats, rec, flush, statRow, starts>>
  /\ \/ at[Reader] \notin Counting /\ at'[Reader] \notin Counting
     \/ at'[Reader] = at[Reader] /\ result' = result
  /\ \A g \in StatsFlushers : at'[g] = at[g] \/ at'[g] \notin Loading

LEMMA AsideKeeps ==
  ASSUME SInv, Aside
  PROVE  SInv'
<1>1. StatTypes'
  BY DEF SInv, Aside, StatTypes
<1>2. Held'
  BY DEF SInv, Aside, Held
<1>3. RecsCovered'
  <2>1. \A r \in Recs : Half(r)' = Half(r)
    BY DEF Aside, Half, Counting
  <2> QED BY <2>1 DEF SInv, Aside, RecsCovered, Covers
<1>4. ASSUME NEW g \in StatsFlushers PROVE ReadCovered(g)'
  <2>1. /\ at[g] \in Loading => flush[g].cur \in Recs
        /\ \A r \in Recs : rec[r].success <= rec[r].success /\ rec[r].failed <= rec[r].failed
    BY RecordFields DEF SInv, Held, StatTypes
  <2> QED BY <1>1, <2>1, ReadKept DEF SInv, Aside, FlushCovered
<1>5. ASSUME NEW g \in StatsFlushers PROVE SavedCovered(g)'
  BY DEF SInv, Aside, FlushCovered, SavedCovered, Covers
<1>6. RowsCovered'
  BY DEF SInv, Aside, RowsCovered, Covers
<1> QED BY <1>1, <1>2, <1>3, <1>4, <1>5, <1>6 DEF SInv, FlushCovered

\* The record a goroutine reads is as it was, or further.
Grown(g) ==
  /\ rec[flush[g].cur].success <= rec'[flush[g].cur].success
  /\ rec[flush[g].cur].failed <= rec'[flush[g].cur].failed
SameReading(g) ==
  /\ at'[g] = at[g] /\ flush'[g].cur = flush[g].cur /\ flush'[g].row = flush[g].row
  /\ at[g] \in Loading => Grown(g)

\* What is left to show of a step within one process.
LEMMA StatStep ==
  ASSUME SInv, StatTypes', Held', RecsCovered', starts' = starts,
         \A g \in StatsFlushers : at'[g] \notin Loading \/ SameReading(g) \/ ReadCovered(g)',
         \A g \in StatsFlushers :
           SavedCovered(g)' \/ \A k \in Keys : flush'[g].saved[k] \in {None, flush[g].saved[k]},
         \A k \in Keys :
           \/ statRow'[k] \in {None, Zero, statRow[k]}
           \/ \E g \in StatsFlushers : statRow'[k] = flush[g].saved[k]
  PROVE  SInv'
<1>1. ASSUME NEW g \in StatsFlushers PROVE ReadCovered(g)'
  <2>1. CASE at'[g] \notin Loading \/ SameReading(g)
    BY <2>1, ReadKept DEF SInv, FlushCovered, SameReading, Grown
  <2> QED BY <2>1
<1>2. ASSUME NEW g \in StatsFlushers PROVE SavedCovered(g)'
  <2>1. CASE \A k \in Keys : flush'[g].saved[k] \in {None, flush[g].saved[k]}
    BY <2>1 DEF SInv, FlushCovered, SavedCovered, Covers
  <2> QED BY <2>1
<1>3. RowsCovered'
  <2> SUFFICES ASSUME NEW k \in Keys, statRow'[k] # None
               PROVE  Covers(statRow'[k], starts + 1)
    BY DEF RowsCovered, Covers
  <2>1. CASE statRow'[k] = Zero
    <3>1. /\ Zero.total \in Nat /\ Zero.success \in Nat /\ Zero.failed \in Nat
          /\ 0 \in Nat /\ starts + 1 \in Nat /\ 0 <= starts + 1
      BY ZeroOK, CounterFields DEF SInv, StatTypes
    <3>2. Covers(Zero, starts + 1)
      BY <3>1, ZeroOK, CoversMore
    <3> QED BY <2>1, <3>2
  <2>2. CASE statRow'[k] = statRow[k]
    BY <2>2 DEF SInv, RowsCovered
  <2>3. CASE \E g \in StatsFlushers : statRow'[k] = flush[g].saved[k]
    BY <2>3 DEF SInv, FlushCovered, SavedCovered
  <2> QED BY <2>1, <2>2, <2>3
<1> QED BY <1>1, <1>2, <1>3 DEF SInv, FlushCovered

\* Records that are untouched, but for the dirty flag, or new.
SameCounts(r) ==
  /\ rec'[r].total = rec[r].total /\ rec'[r].success = rec[r].success
  /\ rec'[r].failed = rec[r].failed /\ Half(r)' = Half(r)
LEMMA RecsKept ==
  ASSUME SInv, StatTypes', starts' = starts,
         \A r \in Recs : SameCounts(r) \/ rec'[r].total = 0
  PROVE  RecsCovered'
<1> SUFFICES ASSUME NEW r \in Recs PROVE Covers(rec[r], starts + Half(r))'
  BY DEF RecsCovered
<1>1. CASE SameCounts(r)
  BY <1>1 DEF SInv, RecsCovered, Covers, SameCounts
<1>2. CASE rec'[r].total = 0
  <2>1. rec'[r].success \in Nat /\ rec'[r].failed \in Nat /\ starts' \in Nat
    BY RecordFields DEF StatTypes
  <2>2. Half(r)' \in Nat
    BY DEF Half
  <2>3. PICK s, f, n, h \in Nat :
          s = rec'[r].success /\ f = rec'[r].failed /\ n = starts' /\ h = Half(r)'
    BY <2>1, <2>2
  <2>4. 0 <= s + f + (n + h)
    OBVIOUS
  <2> QED BY <1>2, <2>3, <2>4 DEF Covers
<1> QED BY <1>1, <1>2

LEMMA LiveOnes ==
  ASSUME NEW m, NEW res, NEW fl, NEW g \in StatsFlushers
  PROVE  fl[g].cur \in Live(m, res, fl) /\ res.rec \in Live(m, res, fl)
  BY DEF Live

\* The garbage collector takes only what nobody points to.
LEMMA SweptOK ==
  ASSUME StatTypes, NEW m, NEW res, NEW fl
  PROVE  /\ Swept(m, res, fl) \in [Recs -> Records]
         /\ \A r \in Recs : \/ Swept(m, res, fl)[r] = rec[r]
                            \/ r \notin Live(m, res, fl) /\ Swept(m, res, fl)[r].total = 0
<1>1. NewPollerStats(None, Zero) \in Records /\ NewPollerStats(None, Zero).total = 0
  BY ZeroOK, NewStatsOK DEF Zero
<1> QED BY <1>1 DEF Swept, StatTypes

LEMMA GetStatsOK ==
  ASSUME StatTypes, NEW k \in Keys, NEW r \in Recs, GetStats(k, r)
  PROVE  /\ stats' \in [Keys -> Recs \cup {None}]
         /\ rec' \in [Recs -> Records]
         /\ \A x \in Recs : \/ rec'[x] = rec[x]
                            \/ x \notin Live(stats, result, flush) /\ rec'[x].total = 0
<1>1. NewPollerStats(k, Zero) \in Records /\ NewPollerStats(k, Zero).total = 0
  BY ZeroOK, NewStatsOK DEF Zero
<1>2. CASE stats[k] # None
  BY <1>2 DEF GetStats, StatTypes
<1>3. CASE stats[k] = None
  BY <1>1, <1>3 DEF GetStats, StatTypes
<1> QED BY <1>2, <1>3

\* A record that is read or counted is not swept.
LEMMA LiveGrows ==
  ASSUME SInv, NEW g \in StatsFlushers, at[g] \in Loading, NEW L, flush[g].cur \in L,
         \A x \in Recs : rec'[x] = rec[x] \/ x \notin L
  PROVE  Grown(g)
<1>1. flush[g].cur \in Recs
  BY DEF SInv, Held
<1>2. rec'[flush[g].cur] = rec[flush[g].cur]
  BY <1>1
<1>3. rec[flush[g].cur].success \in Nat /\ rec[flush[g].cur].failed \in Nat
  BY <1>1, RecordFields DEF SInv, StatTypes
<1> QED BY <1>2, <1>3 DEF Grown

-----------------------------------------------------------------------------
(* processResults. *)

LEMMA ReaderMoves ==
  ASSUME IInv, NEW y \in Places, Goto(Reader, y)
  PROVE  at'[Reader] = y /\ \A g \in StatsFlushers : at'[g] = at[g]
  BY Moved, Different DEF IInv, Types

LEMMA ReaderGetKeeps ==
  ASSUME IInv, SInv, ReaderGet
  PROVE  SInv'
<1>1. PICK r \in Recs : GetStats(KeyOf[result.sample], r) /\ result' = [result EXCEPT !.rec = r]
  BY DEF ReaderGet
<1>2. at[Reader] = "get" /\ UNCHANGED <<flush, statRow, starts>>
  BY DEF ReaderGet, At
<1>3. at'[Reader] = "total" /\ \A g \in StatsFlushers : at'[g] = at[g]
  BY ReaderMoves DEF ReaderGet, Places
<1>4. KeyOf[result.sample] \in Keys
  <2>1. result.sample \in Samples
    BY <1>2 DEF IInv, Control, Types, Handling
  <2> QED BY <2>1, SyncAssumption
<1>5. result'.rec = r
  BY <1>1 DEF IInv, Types
<1>6. /\ stats' \in [Keys -> Recs \cup {None}]
      /\ rec' \in [Recs -> Records]
      /\ \A x \in Recs : \/ rec'[x] = rec[x]
                         \/ x \notin Live(stats, result, flush) /\ rec'[x].total = 0
  BY <1>1, <1>4, GetStatsOK DEF SInv
<1>7. StatTypes'
  BY <1>2, <1>6 DEF SInv, StatTypes
<1>8. Held'
  BY <1>2, <1>3, <1>5 DEF SInv, Held
<1>9. RecsCovered'
  <2>1. \A x \in Recs : Half(x)' = Half(x)
    BY <1>2, <1>3 DEF Half
  <2> QED BY <1>2, <1>6, <1>7, <2>1, RecsKept DEF SameCounts
<1>10. \A g \in StatsFlushers : SameReading(g)
  BY <1>2, <1>3, <1>6, LiveOnes, LiveGrows DEF SameReading
<1> QED BY <1>2, <1>7, <1>8, <1>9, <1>10, StatStep

LEMMA CountedOK ==
  ASSUME NEW x \in Records, NEW field
  PROVE  /\ Counted(x, field) \in Records
         /\ Counted(x, field).total = IF field = "total" THEN x.total + 1 ELSE x.total
         /\ Counted(x, field).success = IF field = "success" THEN x.success + 1 ELSE x.success
         /\ Counted(x, field).failed = IF field = "failed" THEN x.failed + 1 ELSE x.failed
<1> DEFINE t == IF field = "total" THEN x.total + 1 ELSE x.total
<1> DEFINE s == IF field = "success" THEN x.success + 1 ELSE x.success
<1> DEFINE f == IF field = "failed" THEN x.failed + 1 ELSE x.failed
<1> DEFINE o == IF field = "timeout" THEN x.timeout + 1 ELSE x.timeout
<1> DEFINE d == (field = "dirty") \/ x.dirty
<1>1. t \in Nat /\ s \in Nat /\ f \in Nat /\ o \in Nat
  BY RecordFields
<1>2. d \in BOOLEAN
  BY RecordFields
<1>3. Counted(x, field) = [x EXCEPT !.total = t, !.success = s, !.failed = f, !.timeout = o, !.dirty = d]
  BY DEF Counted
<1> HIDE DEF t, s, f, o, d
<1>4. [x EXCEPT !.total = t, !.success = s, !.failed = f, !.timeout = o, !.dirty = d] \in Records
  BY <1>1, <1>2 DEF Records
<1>5. /\ [x EXCEPT !.total = t, !.success = s, !.failed = f, !.timeout = o, !.dirty = d].total = t
      /\ [x EXCEPT !.total = t, !.success = s, !.failed = f, !.timeout = o, !.dirty = d].success = s
      /\ [x EXCEPT !.total = t, !.success = s, !.failed = f, !.timeout = o, !.dirty = d].failed = f
  BY DEF Records
<1>6. Counted(x, field) \in Records
  BY <1>3, <1>4
<1>7. Counted(x, field).total = t /\ Counted(x, field).success = s /\ Counted(x, field).failed = f
  BY <1>3, <1>5
<1> QED BY <1>6, <1>7 DEF t, s, f

\* The total is counted first and its outcome next: in between the result is half counted.
LEMMA CountKeeps ==
  ASSUME IInv, SInv, NEW step, NEW field, NEW next, Count(step, field, next),
         \/ step = "total" /\ field = "total" /\ next = "outcome"
         \/ step = "outcome" /\ field \in {"success", "failed"} /\ next \in {"timeout", "dirty"}
         \/ step \in {"timeout", "dirty"} /\ field \in {"timeout", "dirty"} /\ next \in {"dirty", "append"}
  PROVE  SInv'
<1> DEFINE r == result.rec
<1>1. /\ at[Reader] = step /\ step \in Counting
      /\ rec' = [rec EXCEPT ![r] = Counted(rec[r], field)]
      /\ UNCHANGED <<stats, flush, statRow, starts, result>>
  <2>1. at[Reader] = step /\ UNCHANGED <<stats, flush, statRow, starts, result>>
    BY DEF Count, At
  <2>2. step \in Counting
    BY DEF Counting
  <2>3. rec' = [rec EXCEPT ![r] = Counted(rec[r], field)]
    BY DEF Count, Counted
  <2> QED BY <2>1, <2>2, <2>3
<1>2. at'[Reader] = next /\ \A g \in StatsFlushers : at'[g] = at[g]
  <2>1. next \in Places /\ Goto(Reader, next)
    BY DEF Places, Count
  <2> QED BY <2>1, ReaderMoves
<1>3. r \in Recs
  BY <1>1 DEF SInv, Held
<1> HIDE DEF r
<1>4. rec[r] \in Records
  BY <1>3 DEF SInv, StatTypes
<1>5. rec' \in [Recs -> Records] /\ rec'[r] = Counted(rec[r], field) /\ \A x \in Recs \ {r} : rec'[x] = rec[x]
  <2>1. Counted(rec[r], field) \in Records
    BY <1>4, CountedOK
  <2> HIDE DEF Counted
  <2> QED BY <1>1, <1>3, <2>1 DEF SInv, StatTypes
<1>6. StatTypes'
  BY <1>1, <1>5 DEF SInv, StatTypes
<1>7. Held'
  BY <1>1, <1>2, <1>3 DEF SInv, Held, r
<1>8. PICK t, s, f, n \in Nat : t = rec[r].total /\ s = rec[r].success /\ f = rec[r].failed /\ n = starts
  BY <1>4, RecordFields DEF SInv, StatTypes
<1>9. /\ rec'[r].total = IF field = "total" THEN t + 1 ELSE t
      /\ rec'[r].success = IF field = "success" THEN s + 1 ELSE s
      /\ rec'[r].failed = IF field = "failed" THEN f + 1 ELSE f
  BY <1>4, <1>5, <1>8, CountedOK
<1>10. t <= s + f + (n + (IF step = "outcome" THEN 1 ELSE 0))
  <2>1. Half(r) = IF step = "outcome" THEN 1 ELSE 0
    BY <1>1 DEF Half, r
  <2>2. Covers(rec[r], starts + Half(r))
    BY <1>3 DEF SInv, RecsCovered
  <2> QED BY <1>8, <2>1, <2>2 DEF Covers
<1>11. ASSUME NEW x \in Recs PROVE Covers(rec[x], starts + Half(x))'
  <2>1. CASE x = r
    <3>1. Half(x)' = IF next = "outcome" THEN 1 ELSE 0
      BY <1>1, <1>2, <2>1 DEF Half, r
    <3>2. rec'[r].total <= rec'[r].success + rec'[r].failed + (n + (IF next = "outcome" THEN 1 ELSE 0))
      BY <1>9, <1>10
    <3> QED BY <1>1, <1>8, <2>1, <3>1, <3>2 DEF Covers
  <2>2. CASE x # r
    <3>1. Half(x)' = 0 /\ Half(x) = 0
      BY <1>1, <2>2 DEF Half, r
    <3> QED BY <1>1, <1>5, <2>2, <3>1 DEF SInv, RecsCovered, Covers
  <2> QED BY <2>1, <2>2
<1>12. ASSUME NEW g \in StatsFlushers, at[g] \in Loading PROVE Grown(g)
  <2>1. PICK c \in Recs : c = flush[g].cur
    BY <1>12 DEF SInv, Held
  <2>2. CASE c = r
    <3>1. s <= rec'[r].success /\ f <= rec'[r].failed
      BY <1>9
    <3> QED BY <1>8, <2>1, <2>2, <3>1 DEF Grown
  <2>3. CASE c # r
    <3>1. rec'[c] = rec[c] /\ rec[c].success \in Nat /\ rec[c].failed \in Nat
      BY <1>5, <2>3, RecordFields DEF SInv, StatTypes
    <3> QED BY <2>1, <3>1 DEF Grown
  <2> QED BY <2>2, <2>3
<1>13. \A g \in StatsFlushers : SameReading(g)
  BY <1>1, <1>2, <1>12 DEF SameReading
<1> QED BY <1>1, <1>6, <1>7, <1>11, <1>13, StatStep DEF RecsCovered

LEMMA CountsKeep ==
  ASSUME IInv, SInv, CountTotal \/ CountOutcome \/ CountTimeout \/ MarkDirty
  PROVE  SInv'
<1>1. CASE CountTotal
  BY <1>1, CountKeeps DEF CountTotal
<1>2. CASE CountOutcome
  <2>1. CASE result.outcome = "ok"
    BY <1>2, <2>1, CountKeeps DEF CountOutcome
  <2>2. CASE result.outcome # "ok"
    <3>1. PICK next \in {"timeout", "dirty"} : Count("outcome", "failed", next)
      BY <1>2, <2>2 DEF CountOutcome
    <3> QED BY <3>1, CountKeeps
  <2> QED BY <2>1, <2>2
<1>3. CASE CountTimeout
  BY <1>3, CountKeeps DEF CountTimeout
<1>4. CASE MarkDirty
  BY <1>4, CountKeeps DEF MarkDirty
<1> QED BY <1>1, <1>2, <1>3, <1>4

LEMMA AddSampleKeepsStats ==
  ASSUME IInv, SInv, AddSample
  PROVE  SInv'
<1>1. /\ at[Reader] = "append" /\ result' = NoResult /\ rec' = Swept(stats, NoResult, flush)
      /\ UNCHANGED <<stats, flush, statRow, starts>>
  BY DEF AddSample, At
<1>2. at'[Reader] \in {"take", "idle"} /\ \A g \in StatsFlushers : at'[g] = at[g]
  <2>1. PICK y \in {"take", "idle"} : Goto(Reader, y)
    BY DEF AddSample
  <2>2. y \in Places
    BY DEF Places
  <2> QED BY <2>1, <2>2, ReaderMoves
<1>3. /\ rec' \in [Recs -> Records]
      /\ \A r \in Recs : \/ rec'[r] = rec[r]
                         \/ r \notin Live(stats, NoResult, flush) /\ rec'[r].total = 0
  BY <1>1, SweptOK DEF SInv
<1>4. StatTypes'
  BY <1>1, <1>3 DEF SInv, StatTypes
<1>5. Held'
  BY <1>1, <1>2 DEF SInv, Held, Counting
<1>6. RecsCovered'
  <2>1. \A x \in Recs : Half(x)' = Half(x)
    BY <1>1, <1>2 DEF Half
  <2> QED BY <1>1, <1>3, <1>4, <2>1, RecsKept DEF SameCounts
<1>7. \A g \in StatsFlushers : SameReading(g)
  BY <1>1, <1>2, <1>3, LiveOnes, LiveGrows DEF SameReading
<1> QED BY <1>1, <1>4, <1>5, <1>6, <1>7, StatStep

-----------------------------------------------------------------------------
(* flushStats. *)

LEMMA FlusherMoves ==
  ASSUME IInv, NEW g \in StatsFlushers, NEW y \in Places, Goto(g, y)
  PROVE  /\ at'[g] = y /\ at'[Reader] = at[Reader]
         /\ \A h \in StatsFlushers : h # g => at'[h] = at[h]
  BY Moved, Different DEF IInv, Types

\* A step of one goroutine in flushStats, which leaves the records alone.
LEMMA FlushStep ==
  ASSUME IInv, SInv, NEW g \in StatsFlushers, NEW y \in Places, Goto(g, y),
         NEW f \in Flushes, flush' = [flush EXCEPT ![g] = f],
         UNCHANGED <<stats, rec, statRow, result, starts>>,
         y \in Loading => f.cur \in Recs /\ ReadCovered(g)',
         f.saved = flush[g].saved \/ SavedCovered(g)'
  PROVE  SInv'
<1>1. /\ at'[g] = y /\ at'[Reader] = at[Reader]
      /\ \A h \in StatsFlushers : h # g => at'[h] = at[h]
  BY FlusherMoves
<1>2. StatTypes' /\ flush'[g] = f /\ \A h \in StatsFlushers : h # g => flush'[h] = flush[h]
  BY DEF SInv, StatTypes
<1>3. Held'
  BY <1>1, <1>2 DEF SInv, Held
<1>4. RecsCovered'
  <2>1. \A x \in Recs : Half(x)' = Half(x)
    BY <1>1 DEF Half
  <2> QED BY <1>2, <2>1, RecsKept DEF SameCounts
<1>5. ASSUME NEW h \in StatsFlushers, h # g PROVE SameReading(h)
  <2>1. at[h] \in Loading => Grown(h)
    BY LiveGrows
  <2> QED BY <1>1, <1>2, <1>5, <2>1 DEF SameReading
<1>6. \A h \in StatsFlushers : at'[h] \notin Loading \/ SameReading(h) \/ ReadCovered(h)'
  BY <1>1, <1>5
<1>7. \A h \in StatsFlushers :
        SavedCovered(h)' \/ \A k \in Keys : flush'[h].saved[k] \in {None, flush[h].saved[k]}
  BY <1>2
<1>8. \A k \in Keys : statRow'[k] = statRow[k]
  OBVIOUS
<1> QED BY <1>2, <1>3, <1>4, <1>6, <1>7, <1>8, StatStep

LEMMA GetDirtyKeeps ==
  ASSUME IInv, SInv, NEW g \in StatsFlushers, GetDirty(g)
  PROVE  SInv'
<1> DEFINE dirty == {stats[k] : k \in {k \in Keys : stats[k] # None /\ rec[stats[k]].dirty}}
<1>1. dirty \in SUBSET Recs
  BY DEF SInv, StatTypes
<1>2. PICK y \in {AfterStats(g), "load"} : Goto(g, y)
  BY DEF GetDirty
<1>3. flush' = [flush EXCEPT ![g].todo = dirty] /\ UNCHANGED <<stats, rec, statRow, result, starts>>
  BY DEF GetDirty
<1> HIDE DEF dirty
<1>4. y \in Places \ Loading
  BY <1>2 DEF AfterStats, Places, Loading
<1>5. flush[g] \in Flushes
  BY DEF SInv, StatTypes
<1>6. PICK f : f = [flush[g] EXCEPT !.todo = dirty]
  OBVIOUS
<1>7. f \in Flushes /\ f.saved = flush[g].saved
  BY <1>1, <1>5, <1>6 DEF Flushes
<1>8. flush' = [flush EXCEPT ![g] = f]
  BY <1>3, <1>6
<1> QED BY <1>2, <1>3, <1>4, <1>7, <1>8, FlushStep

\* The total of a record, as it is read: its outcomes are counted, but for one.
LEMMA LoadTotalKeeps ==
  ASSUME IInv, SInv, NEW g \in StatsFlushers, LoadTotal(g)
  PROVE  SInv'
<1>1. PICK r \in flush[g].todo :
        flush' = [flush EXCEPT ![g].todo = @ \ {r}, ![g].cur = r,
                               ![g].row = [Zero EXCEPT !.total = rec[r].total]]
  BY DEF LoadTotal
<1>2. Goto(g, "loadSuccess") /\ UNCHANGED <<stats, rec, statRow, result, starts>>
  BY DEF LoadTotal
<1>3. "loadSuccess" \in Places
  BY DEF Places
<1>4. flush[g] \in Flushes
  BY DEF SInv, StatTypes
<1>5. r \in Recs
  BY <1>4, FlushFields
<1>6. rec[r] \in Records
  BY <1>5 DEF SInv, StatTypes
<1>7. PICK t, s, q, n \in Nat : t = rec[r].total /\ s = rec[r].success /\ q = rec[r].failed /\ n = starts
  BY <1>6, RecordFields DEF SInv, StatTypes
<1>8. PICK row : row = [Zero EXCEPT !.total = t]
  OBVIOUS
<1>9. row \in Counters /\ row.total = t
  BY <1>8, ZeroOK DEF Counters
<1>10. PICK f : f = [flush[g] EXCEPT !.todo = @ \ {r}, !.cur = r, !.row = row]
  OBVIOUS
<1>11. f \in Flushes /\ f.cur = r /\ f.row = row /\ f.saved = flush[g].saved
  BY <1>4, <1>5, <1>9, <1>10 DEF Flushes
<1>12. flush' = [flush EXCEPT ![g] = f]
  BY <1>1, <1>7, <1>8, <1>10
<1>13. flush'[g] = f
  BY <1>12 DEF SInv, StatTypes
<1>14. t <= s + q + (n + 1)
  <2>1. Covers(rec[r], starts + Half(r)) /\ Half(r) \in {0, 1}
    BY <1>5 DEF SInv, RecsCovered, Half
  <2>2. PICK h \in {0, 1} : t <= s + q + (n + h)
    BY <1>7, <2>1 DEF Covers
  <2> QED BY <2>2
<1>15. at'[g] = "loadSuccess"
  BY <1>2, <1>3, FlusherMoves
<1>16. ReadCovered(g)'
  BY <1>2, <1>7, <1>9, <1>11, <1>13, <1>14, <1>15 DEF ReadCovered
<1> QED BY <1>2, <1>3, <1>5, <1>11, <1>12, <1>16, FlushStep

LEMMA LoadSuccessKeeps ==
  ASSUME IInv, SInv, NEW g \in StatsFlushers, LoadSuccess(g)
  PROVE  SInv'
<1>1. flush' = [flush EXCEPT ![g].row.success = rec[flush[g].cur].success]
  BY DEF LoadSuccess
<1>2. Goto(g, "loadFailed") /\ at[g] = "loadSuccess" /\ UNCHANGED <<stats, rec, statRow, result, starts>>
  BY DEF LoadSuccess, At
<1>3. "loadFailed" \in Places
  BY DEF Places
<1>4. flush[g] \in Flushes /\ flush[g].row \in Counters
  BY FlushFields DEF SInv, StatTypes
<1>5. PICK r \in Recs : r = flush[g].cur
  BY <1>2 DEF SInv, Held, Loading
<1>6. rec[r] \in Records
  BY <1>5 DEF SInv, StatTypes
<1>7. PICK s, q, n, t \in Nat :
        s = rec[r].success /\ q = rec[r].failed /\ n = starts /\ t = flush[g].row.total
  BY <1>4, <1>6, RecordFields, CounterFields DEF SInv, StatTypes
<1>8. PICK row : row = [flush[g].row EXCEPT !.success = s]
  OBVIOUS
<1>9. row \in Counters /\ row.total = t /\ row.success = s
  BY <1>4, <1>7, <1>8 DEF Counters
<1>10. PICK f : f = [flush[g] EXCEPT !.row = row]
  OBVIOUS
<1>11. f \in Flushes /\ f.cur = r /\ f.row = row /\ f.saved = flush[g].saved
  BY <1>4, <1>5, <1>9, <1>10 DEF Flushes
<1>12. flush' = [flush EXCEPT ![g] = f]
  BY <1>1, <1>5, <1>7, <1>8, <1>10
<1>13. flush'[g] = f
  BY <1>12 DEF SInv, StatTypes
<1>14. t <= s + q + (n + 1)
  BY <1>2, <1>5, <1>7 DEF SInv, FlushCovered, ReadCovered
<1>15. at'[g] = "loadFailed"
  BY <1>2, <1>3, FlusherMoves
<1>16. ReadCovered(g)'
  BY <1>2, <1>7, <1>9, <1>11, <1>13, <1>14, <1>15 DEF ReadCovered
<1> QED BY <1>2, <1>3, <1>11, <1>12, <1>16, FlushStep

LEMMA LoadFailedKeeps ==
  ASSUME IInv, SInv, NEW g \in StatsFlushers, LoadFailed(g)
  PROVE  SInv'
<1>1. flush' = [flush EXCEPT ![g].row.failed = rec[flush[g].cur].failed]
  BY DEF LoadFailed
<1>2. Goto(g, "loadTimeout") /\ at[g] = "loadFailed" /\ UNCHANGED <<stats, rec, statRow, result, starts>>
  BY DEF LoadFailed, At
<1>3. "loadTimeout" \in Places
  BY DEF Places
<1>4. flush[g] \in Flushes /\ flush[g].row \in Counters
  BY FlushFields DEF SInv, StatTypes
<1>5. PICK r \in Recs : r = flush[g].cur
  BY <1>2 DEF SInv, Held, Loading
<1>6. rec[r] \in Records
  BY <1>5 DEF SInv, StatTypes
<1>7. PICK s, q, n, t \in Nat :
        s = flush[g].row.success /\ q = rec[r].failed /\ n = starts /\ t = flush[g].row.total
  BY <1>4, <1>6, RecordFields, CounterFields DEF SInv, StatTypes
<1>8. PICK row : row = [flush[g].row EXCEPT !.failed = q]
  OBVIOUS
<1>9. row \in Counters /\ row.total = t /\ row.success = s /\ row.failed = q
  BY <1>4, <1>7, <1>8 DEF Counters
<1>10. PICK f : f = [flush[g] EXCEPT !.row = row]
  OBVIOUS
<1>11. f \in Flushes /\ f.cur = r /\ f.row = row /\ f.saved = flush[g].saved
  BY <1>4, <1>5, <1>9, <1>10 DEF Flushes
<1>12. flush' = [flush EXCEPT ![g] = f]
  BY <1>1, <1>5, <1>7, <1>8, <1>10
<1>13. flush'[g] = f
  BY <1>12 DEF SInv, StatTypes
<1>14. t <= s + q + (n + 1)
  BY <1>2, <1>5, <1>7 DEF SInv, FlushCovered, ReadCovered
<1>15. at'[g] = "loadTimeout"
  BY <1>2, <1>3, FlusherMoves
<1>16. ReadCovered(g)'
  BY <1>2, <1>7, <1>9, <1>11, <1>13, <1>14, <1>15 DEF ReadCovered, Covers
<1> QED BY <1>2, <1>3, <1>11, <1>12, <1>16, FlushStep

\* The row that was read joins those to be stored.
LEMMA LoadTimeoutKeeps ==
  ASSUME IInv, SInv, NEW g \in StatsFlushers, LoadTimeout(g)
  PROVE  SInv'
<1>1. PICK y \in {"update", "load"} : Goto(g, y)
  BY DEF LoadTimeout
<1>2. at[g] = "loadTimeout" /\ UNCHANGED <<stats, rec, statRow, result, starts>>
  BY DEF LoadTimeout, At
<1>3. y \in Places \ Loading
  BY <1>1 DEF Places, Loading
<1>4. flush[g] \in Flushes /\ flush[g].row \in Counters
  BY FlushFields DEF SInv, StatTypes
<1>5. PICK r \in Recs : r = flush[g].cur
  BY <1>2 DEF SInv, Held, Loading
<1>6. PICK o \in Nat : o = rec[r].timeout
  BY <1>5, RecordFields DEF SInv, StatTypes
<1>7. PICK row : row = [flush[g].row EXCEPT !.timeout = o]
  OBVIOUS
<1>8. /\ row \in Counters /\ row.total = flush[g].row.total
      /\ row.success = flush[g].row.success /\ row.failed = flush[g].row.failed
  BY <1>4, <1>6, <1>7 DEF Counters
<1>9. Covers(row, starts + 1)
  BY <1>2, <1>8 DEF SInv, FlushCovered, ReadCovered, Covers
<1>10. PICK saved : saved = [flush[g].saved EXCEPT ![rec[r].key] = row]
  OBVIOUS
<1>11. /\ saved \in [Keys -> Counters \cup {None}]
       /\ \A k \in Keys : saved[k] \in {row, flush[g].saved[k]}
  BY <1>4, <1>8, <1>10, FlushFields
<1>12. PICK f : f = [flush[g] EXCEPT !.cur = None, !.row = Zero, !.read = @ \cup {r}, !.saved = saved]
  OBVIOUS
<1>13. f \in Flushes /\ f.saved = saved
  BY <1>4, <1>5, <1>11, <1>12, ZeroOK DEF Flushes
<1>14. flush' = [flush EXCEPT ![g] = f]
  <2>1. flush' = [flush EXCEPT ![g].cur = None, ![g].row = Zero, ![g].read = @ \cup {r},
                               ![g].saved[rec[r].key] = row]
    BY <1>5, <1>6, <1>7 DEF LoadTimeout
  <2> QED BY <1>10, <1>12, <2>1
<1>15. flush'[g] = f
  BY <1>14 DEF SInv, StatTypes
<1>16. SavedCovered(g)'
  BY <1>2, <1>9, <1>11, <1>13, <1>15 DEF SInv, FlushCovered, SavedCovered, Covers
<1> QED BY <1>1, <1>2, <1>3, <1>13, <1>14, <1>16, FlushStep

LEMMA UpdateStatsKeeps ==
  ASSUME IInv, SInv, NEW g \in StatsFlushers, UpdateStats(g)
  PROVE  SInv'
<1>1. /\ statRow' = [k \in Keys |->
                       IF statRow[k] = None \/ flush[g].saved[k] = None
                       THEN statRow[k] ELSE flush[g].saved[k]]
      /\ flush' = [flush EXCEPT ![g].saved = [k \in Keys |-> None]]
      /\ Goto(g, "clear") /\ UNCHANGED <<stats, rec, result, starts>>
  BY DEF UpdateStats
<1>2. /\ at'[g] = "clear" /\ at'[Reader] = at[Reader]
      /\ \A h \in StatsFlushers : h # g => at'[h] = at[h]
  <2>1. "clear" \in Places
    BY DEF Places
  <2> QED BY <1>1, <2>1, FlusherMoves
<1>3. flush[g] \in Flushes /\ flush[g].saved \in [Keys -> Counters \cup {None}]
  BY FlushFields DEF SInv, StatTypes
<1>4. PICK f : f = [flush[g] EXCEPT !.saved = [k \in Keys |-> None]]
  OBVIOUS
<1>5. f \in Flushes /\ \A k \in Keys : f.saved[k] = None
  BY <1>3, <1>4 DEF Flushes
<1>6. flush' = [flush EXCEPT ![g] = f]
  BY <1>1, <1>4
<1>7. /\ flush' \in [StatsFlushers -> Flushes] /\ flush'[g] = f
      /\ \A h \in StatsFlushers : h # g => flush'[h] = flush[h]
  BY <1>5, <1>6 DEF SInv, StatTypes
<1>8. statRow' \in [Keys -> Counters \cup {None}]
  BY <1>1, <1>3 DEF SInv, StatTypes
<1>9. StatTypes'
  BY <1>1, <1>7, <1>8 DEF SInv, StatTypes
<1>10. Held'
  BY <1>1, <1>2, <1>7 DEF SInv, Held, Loading
<1>11. RecsCovered'
  <2>1. \A x \in Recs : Half(x)' = Half(x)
    BY <1>1, <1>2 DEF Half
  <2> QED BY <1>1, <1>9, <2>1, RecsKept DEF SameCounts
<1>12. ASSUME NEW h \in StatsFlushers, h # g PROVE SameReading(h)
  <2>1. at[h] \in Loading => Grown(h)
    BY <1>1, LiveGrows
  <2> QED BY <1>2, <1>7, <1>12, <2>1 DEF SameReading
<1>13. \A h \in StatsFlushers : at'[h] \notin Loading \/ SameReading(h)
  BY <1>2, <1>12 DEF Loading
<1>14. \A h \in StatsFlushers : \A k \in Keys : flush'[h].saved[k] \in {None, flush[h].saved[k]}
  BY <1>5, <1>7
<1>15. \A k \in Keys : statRow'[k] = statRow[k] \/ statRow'[k] = flush[g].saved[k]
  BY <1>1
<1> QED BY <1>1, <1>9, <1>10, <1>11, <1>13, <1>14, <1>15, StatStep

\* The records are swept after one goroutine has let some go, within flushStats.
LEMMA LetGo ==
  ASSUME IInv, SInv, NEW g \in StatsFlushers, NEW y \in Places \ Loading, Goto(g, y),
         NEW f \in Flushes, flush' = [flush EXCEPT ![g] = f],
         \A k \in Keys : f.saved[k] \in {None, flush[g].saved[k]},
         rec' \in [Recs -> Records],
         \A x \in Recs : \/ /\ rec'[x].total = rec[x].total /\ rec'[x].success = rec[x].success
                            /\ rec'[x].failed = rec[x].failed
                         \/ x \notin Live(stats, result, flush') /\ rec'[x].total = 0,
         UNCHANGED <<stats, statRow, result, starts>>
  PROVE  SInv'
<1>1. /\ at'[g] = y /\ at'[Reader] = at[Reader]
      /\ \A h \in StatsFlushers : h # g => at'[h] = at[h]
  BY FlusherMoves
<1>2. /\ StatTypes' /\ flush'[g] = f
      /\ \A h \in StatsFlushers : h # g => flush'[h] = flush[h]
  BY DEF SInv, StatTypes
<1>3. Held'
  BY <1>1, <1>2 DEF SInv, Held
<1>4. RecsCovered'
  <2>1. \A x \in Recs : Half(x)' = Half(x)
    BY <1>1 DEF Half
  <2> QED BY <1>2, <2>1, RecsKept DEF SameCounts
<1>5. ASSUME NEW h \in StatsFlushers, h # g, at[h] \in Loading PROVE Grown(h)
  <2>1. PICK c \in Recs : c = flush[h].cur
    BY <1>5 DEF SInv, Held
  <2>2. c \in Live(stats, result, flush')
    BY <1>2, <1>5, <2>1, LiveOnes
  <2>3. rec'[c].success = rec[c].success /\ rec'[c].failed = rec[c].failed
    BY <2>2
  <2>4. rec[c].success \in Nat /\ rec[c].failed \in Nat
    BY RecordFields DEF SInv, StatTypes
  <2> QED BY <2>1, <2>3, <2>4 DEF Grown
<1>6. \A h \in StatsFlushers : at'[h] \notin Loading \/ SameReading(h)
  BY <1>1, <1>2, <1>5 DEF SameReading
<1>7. \A h \in StatsFlushers : \A k \in Keys : flush'[h].saved[k] \in {None, flush[h].saved[k]}
  BY <1>2
<1>8. \A k \in Keys : statRow'[k] = statRow[k]
  OBVIOUS
<1> QED BY <1>2, <1>3, <1>4, <1>6, <1>7, <1>8, StatStep

LEMMA UpdateStatsFailsKeeps ==
  ASSUME IInv, SInv, NEW g \in StatsFlushers, UpdateStatsFails(g)
  PROVE  SInv'
<1>1. /\ flush' = [flush EXCEPT ![g] = NoFlush] /\ rec' = Swept(stats, result, flush')
      /\ Goto(g, AfterStats(g)) /\ UNCHANGED <<stats, statRow, result, starts>>
  BY DEF UpdateStatsFails
<1>2. AfterStats(g) \in Places \ Loading
  BY DEF AfterStats, Places, Loading
<1>3. /\ rec' \in [Recs -> Records]
      /\ \A r \in Recs : \/ rec'[r] = rec[r]
                         \/ r \notin Live(stats, result, flush') /\ rec'[r].total = 0
  BY <1>1, SweptOK DEF SInv
<1>4. NoFlush \in Flushes /\ \A k \in Keys : NoFlush.saved[k] = None
  BY NoFlushOK
<1>5. \A x \in Recs : \/ /\ rec'[x].total = rec[x].total /\ rec'[x].success = rec[x].success
                         /\ rec'[x].failed = rec[x].failed
                      \/ x \notin Live(stats, result, flush') /\ rec'[x].total = 0
  BY <1>3
<1> HIDE DEF NoFlush, AfterStats, Swept
<1> QED BY <1>1, <1>2, <1>3, <1>4, <1>5, LetGo

LEMMA ClearDirtyKeeps ==
  ASSUME IInv, SInv, NEW g \in StatsFlushers, ClearDirty(g)
  PROVE  SInv'
<1>1. PICK r \in flush[g].read :
        /\ flush' = [flush EXCEPT ![g].read = @ \ {r}]
        /\ rec' = [Swept(stats, result, flush') EXCEPT ![r].dirty = FALSE]
        /\ Goto(g, IF flush[g].read = {r} THEN AfterStats(g) ELSE "clear")
  BY DEF ClearDirty
<1>2. UNCHANGED <<stats, statRow, result, starts>>
  BY DEF ClearDirty
<1>3. PICK y \in {AfterStats(g), "clear"} : Goto(g, y)
  BY <1>1
<1>4. y \in Places \ Loading
  BY <1>3 DEF AfterStats, Places, Loading
<1>5. flush[g] \in Flushes /\ r \in Recs
  BY FlushFields DEF SInv, StatTypes
<1>6. PICK f : f = [flush[g] EXCEPT !.read = @ \ {r}]
  OBVIOUS
<1>7. f \in Flushes /\ f.saved = flush[g].saved
  BY <1>5, <1>6 DEF Flushes
<1>8. flush' = [flush EXCEPT ![g] = f]
  BY <1>1, <1>6
<1>9. PICK sw : sw = Swept(stats, result, flush')
  OBVIOUS
<1>10. /\ sw \in [Recs -> Records]
       /\ \A x \in Recs : \/ sw[x] = rec[x]
                          \/ x \notin Live(stats, result, flush') /\ sw[x].total = 0
  BY <1>9, SweptOK DEF SInv
<1>11. PICK c : c = [sw[r] EXCEPT !.dirty = FALSE]
  OBVIOUS
<1>12. c \in Records /\ c.total = sw[r].total /\ c.success = sw[r].success /\ c.failed = sw[r].failed
  BY <1>5, <1>10, <1>11 DEF Records
<1>13. rec' = [sw EXCEPT ![r] = c]
  BY <1>1, <1>9, <1>11
<1>14. /\ rec' \in [Recs -> Records]
       /\ rec'[r] = c /\ \A x \in Recs : x # r => rec'[x] = sw[x]
  BY <1>5, <1>10, <1>12, <1>13
<1>15. \A x \in Recs : \/ /\ rec'[x].total = rec[x].total /\ rec'[x].success = rec[x].success
                          /\ rec'[x].failed = rec[x].failed
                       \/ x \notin Live(stats, result, flush') /\ rec'[x].total = 0
  BY <1>10, <1>12, <1>14
<1> QED BY <1>2, <1>3, <1>4, <1>7, <1>8, <1>14, <1>15, LetGo

-----------------------------------------------------------------------------
(* Requests and restarts. *)

\* A request leaves the goroutines and the records they point to alone.
LEMMA RequestKeeps ==
  ASSUME SInv, StatTypes', UNCHANGED <<flush, result, at, starts>>,
         NEW L, \A g \in StatsFlushers : flush[g].cur \in L,
         \A x \in Recs : rec'[x] = rec[x] \/ (x \notin L /\ rec'[x].total = 0),
         \A k \in Keys : statRow'[k] \in {None, Zero, statRow[k]}
  PROVE  SInv'
<1>1. Held'
  BY DEF SInv, Held
<1>2. RecsCovered'
  <2>1. \A x \in Recs : Half(x)' = Half(x)
    BY DEF Half
  <2> QED BY <2>1, RecsKept DEF SameCounts
<1>3. \A g \in StatsFlushers : SameReading(g)
  BY LiveGrows DEF SameReading
<1> QED BY <1>1, <1>2, <1>3, StatStep

LEMMA CreatePollerKeepsStats ==
  ASSUME SInv, NEW k \in Keys, CreatePoller(k)
  PROVE  SInv'
<1>1. statRow' = [statRow EXCEPT ![k] = Zero] /\ UNCHANGED <<flush, result, at, starts>>
  BY DEF CreatePoller
<1>2. PICK r \in Recs : GetStats(k, r)
  BY DEF CreatePoller
<1>3. /\ stats' \in [Keys -> Recs \cup {None}]
      /\ rec' \in [Recs -> Records]
      /\ \A x \in Recs : \/ rec'[x] = rec[x]
                         \/ x \notin Live(stats, result, flush) /\ rec'[x].total = 0
  BY <1>2, GetStatsOK DEF SInv
<1>4. StatTypes'
  BY <1>1, <1>3, ZeroOK DEF SInv, StatTypes
<1>5. \A j \in Keys : statRow'[j] \in {None, Zero, statRow[j]}
  BY <1>1 DEF SInv, StatTypes
<1>6. \A g \in StatsFlushers : flush[g].cur \in Live(stats, result, flush)
  BY LiveOnes
<1> QED BY <1>1, <1>3, <1>4, <1>5, <1>6, RequestKeeps

LEMMA DeletePollerKeepsStats ==
  ASSUME SInv, NEW k \in Keys, DeletePoller(k)
  PROVE  SInv'
<1>1. /\ statRow' = [statRow EXCEPT ![k] = None] /\ stats' = [stats EXCEPT ![k] = None]
      /\ rec' = Swept(stats', result, flush) /\ UNCHANGED <<flush, result, at, starts>>
  BY DEF DeletePoller
<1>2. /\ rec' \in [Recs -> Records]
      /\ \A r \in Recs : \/ rec'[r] = rec[r]
                         \/ r \notin Live(stats', result, flush) /\ rec'[r].total = 0
  BY <1>1, SweptOK DEF SInv
<1>3. StatTypes'
  BY <1>1, <1>2 DEF SInv, StatTypes
<1>4. \A j \in Keys : statRow'[j] \in {None, Zero, statRow[j]}
  BY <1>1 DEF SInv, StatTypes
<1>5. \A g \in StatsFlushers : flush[g].cur \in Live(stats', result, flush)
  BY LiveOnes
<1> QED BY <1>1, <1>2, <1>3, <1>4, <1>5, RequestKeeps

\* A start reads the stored rows into the records: what was half counted is now one of
\* the polls that the starts account for.
LEMMA RestartKeepsStats ==
  ASSUME SInv, Restart
  PROVE  SInv'
<1>1. /\ starts' = starts + 1 /\ flush' = [g \in StatsFlushers |-> NoFlush] /\ at' = StartOf
      /\ statRow' = statRow
  BY DEF Restart
<1>2. PICK f \in [Keys -> Recs] :
        /\ stats' = [k \in Keys |-> IF statRow[k] = None THEN None ELSE f[k]]
        /\ rec' = [r \in Recs |->
                     IF \E k \in Keys : stats'[k] = r
                     THEN LET k == CHOOSE k \in Keys : stats'[k] = r
                          IN NewPollerStats(k, statRow[k])
                     ELSE NewPollerStats(None, Zero)]
  BY DEF Restart
<1>3. at'[Reader] = "idle" /\ \A g \in StatsFlushers : at'[g] \in {"idle", "wait"}
  BY <1>1 DEF StartOf, Procs, StatsFlushers, Reader, StatsLoop, SampleLoop, Signal, Main
<1>4. starts \in Nat /\ starts' \in Nat /\ starts + 1 \in Nat /\ starts' + 1 \in Nat
      /\ starts + 1 <= starts' + 1 /\ 0 \in Nat /\ 0 <= starts' /\ starts + 1 = starts'
  BY <1>1 DEF SInv, StatTypes
<1>5. ASSUME NEW r \in Recs
      PROVE  \E k \in Keys \cup {None} : \E c \in Counters :
               rec'[r] = NewPollerStats(k, c) /\ Covers(c, starts')
  <2>1. CASE \E k \in Keys : stats'[k] = r
    <3> DEFINE k == CHOOSE k \in Keys : stats'[k] = r
    <3>1. k \in Keys /\ stats'[k] = r
      BY <2>1
    <3>2. rec'[r] = NewPollerStats(k, statRow[k])
      BY <1>2, <2>1
    <3> HIDE DEF k
    <3>3. statRow[k] # None
      <4>1. r # None
        BY SyncAssumption
      <4>2. stats'[k] = IF statRow[k] = None THEN None ELSE f[k]
        BY <1>2, <3>1
      <4> QED BY <3>1, <4>1, <4>2
    <3>4. statRow[k] \in Counters /\ Covers(statRow[k], starts')
      BY <1>4, <3>1, <3>3 DEF SInv, StatTypes, RowsCovered
    <3> QED BY <3>1, <3>2, <3>4
  <2>2. CASE ~\E k \in Keys : stats'[k] = r
    <3>1. rec'[r] = NewPollerStats(None, Zero)
      BY <1>2, <2>2
    <3>2. Zero \in Counters /\ Zero.total \in Nat /\ Zero.success \in Nat /\ Zero.failed \in Nat
      BY ZeroOK, CounterFields
    <3>3. Covers(Zero, starts')
      BY <1>4, <3>2, ZeroOK, CoversMore
    <3> QED BY <3>1, <3>2, <3>3
  <2> QED BY <2>1, <2>2
<1>6. ASSUME NEW r \in Recs PROVE rec'[r] \in Records /\ Covers(rec'[r], starts')
  <2>1. PICK k \in Keys \cup {None}, c \in Counters :
          rec'[r] = NewPollerStats(k, c) /\ Covers(c, starts')
    BY <1>5
  <2> HIDE DEF NewPollerStats
  <2> QED BY <2>1, NewStatsOK DEF Covers
<1>7. rec' \in [Recs -> Records]
  <2>1. DOMAIN rec' = Recs /\ rec' = [r \in Recs |-> rec'[r]]
    BY <1>2
  <2> QED BY <1>6, <2>1
<1>8. stats' \in [Keys -> Recs \cup {None}]
  BY <1>2
<1>9. StatTypes'
  BY <1>1, <1>4, <1>7, <1>8, NoFlushOK DEF SInv, StatTypes
<1>10. Held'
  BY <1>3 DEF Held, Counting, Loading
<1>11. RecsCovered'
  <2> SUFFICES ASSUME NEW r \in Recs PROVE Covers(rec[r], starts + Half(r))'
    BY DEF RecsCovered
  <2>1. Half(r)' = 0
    BY <1>3 DEF Half
  <2>2. starts' + Half(r)' = starts'
    <3>1. \A n \in Nat : n + 0 = n
      OBVIOUS
    <3> QED BY <1>4, <2>1, <3>1
  <2> QED BY <1>6, <2>2 DEF Covers
<1>12. FlushCovered'
  <2>1. \A g \in StatsFlushers : ReadCovered(g)'
    BY <1>3 DEF ReadCovered
  <2>2. \A g \in StatsFlushers : \A k \in Keys : flush'[g].saved[k] = None
    BY <1>1, NoFlushOK
  <2> QED BY <2>1, <2>2 DEF FlushCovered, SavedCovered
<1>13. RowsCovered'
  <2> SUFFICES ASSUME NEW k \in Keys, statRow[k] # None PROVE Covers(statRow[k], starts' + 1)
    BY <1>1 DEF RowsCovered, Covers
  <2>1. /\ Covers(statRow[k], starts + 1) /\ statRow[k].total \in Nat /\ statRow[k].success \in Nat
        /\ statRow[k].failed \in Nat
    BY CounterFields DEF SInv, StatTypes, RowsCovered
  <2> QED BY <1>4, <2>1, CoversMore
<1> QED BY <1>9, <1>10, <1>11, <1>12, <1>13 DEF SInv

-----------------------------------------------------------------------------
(* The steps that have nothing to do with the statistics. *)

\* A goroutine moves between two steps outside the statistics.
LEMMA MovesAside ==
  ASSUME IInv, NEW g \in Procs, NEW y \in Places \ (Counting \cup Loading), Goto(g, y),
         UNCHANGED <<stats, rec, flush, statRow, starts>>,
         \/ result' = result
         \/ at[Reader] \notin Counting,
         g = Reader => at[g] \notin Counting
  PROVE  Aside
<1>1. at'[g] = y /\ \A h \in Procs : h # g => at'[h] = at[h]
  BY Moved DEF IInv, Types
<1>2. Reader \in Procs /\ StatsFlushers \subseteq Procs
  BY Different
<1>3. \A h \in StatsFlushers : at'[h] = at[h] \/ at'[h] \notin Loading
  BY <1>1, <1>2
<1>4. \/ at[Reader] \notin Counting /\ at'[Reader] \notin Counting
      \/ at'[Reader] = at[Reader] /\ result' = result
  <2>1. CASE g = Reader
    BY <1>1, <2>1
  <2>2. CASE g # Reader
    BY <1>1, <1>2, <2>2
  <2> QED BY <2>1, <2>2
<1> QED BY <1>3, <1>4 DEF Aside

LEMMA SamplesAside ==
  ASSUME IInv, NEW g \in SampleFlushers, Take(g) \/ Insert(g) \/ InsertFails(g)
  PROVE  Aside
<1>1. UNCHANGED <<stats, rec, flush, statRow, starts, result>>
  BY DEF Take, Insert, InsertFails, statVars
<1>2. PICK y \in {AfterSamples(g), "insert"} : Goto(g, y)
  BY DEF Take, Insert, InsertFails
<1>3. y \in Places \ (Counting \cup Loading)
  BY <1>2 DEF AfterSamples, Places, Counting, Loading
<1>4. at[g] \notin Counting
  BY DEF Take, Insert, InsertFails, CallsFlush, At, Counting
<1>5. g \in Procs
  BY Different
<1> QED BY <1>1, <1>2, <1>3, <1>4, <1>5, MovesAside

LEMMA OthersAside ==
  ASSUME IInv,
         \/ \E s \in Samples, o \in Outcomes : Receive(s, o)
         \/ OrderStep \/ LoopExit(StatsLoop) \/ Listen
         \/ StopAgain \/ RunReturns \/ Over \/ UNCHANGED vars
  PROVE  Aside
<1>1. /\ Reader \in Procs /\ StatsLoop \in Procs /\ SampleLoop \in Procs /\ Signal \in Procs
      /\ Main \in Procs /\ Reader # SampleLoop /\ Reader # StatsLoop /\ Reader # Signal
      /\ Reader # Main
  BY Different
<1>2. \A y \in {"get", "ended", "stopScheduler", "stopLoops", "flush", "stopAgain", "accept"} :
        y \in Places \ (Counting \cup Loading)
  BY DEF Places, Counting, Loading
<1>3. CASE \E s \in Samples, o \in Outcomes : Receive(s, o)
  <2>1. /\ UNCHANGED <<stats, rec, flush, statRow, starts>> /\ at[Reader] = "idle"
        /\ Goto(Reader, "get")
    BY <1>3 DEF Receive, statVars, At
  <2>2. at[Reader] \notin Counting
    BY <2>1 DEF Counting
  <2> QED BY <1>1, <1>2, <2>1, <2>2, MovesAside
<1>4. CASE ReaderExit
  <2>1. /\ UNCHANGED <<stats, rec, flush, statRow, starts, result>> /\ at[Reader] = "idle"
        /\ Goto(Reader, "ended")
    BY <1>4 DEF ReaderExit, statVars, At
  <2>2. at[Reader] \notin Counting
    BY <2>1 DEF Counting
  <2> QED BY <1>1, <1>2, <2>1, <2>2, MovesAside
<1>5. CASE \E g \in {StatsLoop, SampleLoop} : LoopExit(g)
  <2>1. PICK g \in {StatsLoop, SampleLoop} :
          Goto(g, "ended") /\ UNCHANGED <<stats, rec, flush, statRow, starts, result>>
    BY <1>5 DEF LoopExit, statVars
  <2> QED BY <1>1, <1>2, <2>1, MovesAside
<1>6. CASE SignalArrives \/ StopSync \/ LoopsStopped \/ CloseStore
  <2>1. PICK y \in {"stopScheduler", "stopLoops", "flush", "stopAgain"} :
          Goto(Signal, y) /\ UNCHANGED <<stats, rec, flush, statRow, starts, result>>
    BY <1>6 DEF SignalArrives, StopSync, LoopsStopped, CloseStore, statVars
  <2> QED BY <1>1, <1>2, <2>1, MovesAside
<1>7. CASE Listen
  <2>1. Goto(Main, "accept") /\ UNCHANGED <<stats, rec, flush, statRow, starts, result>>
    BY <1>7 DEF Listen, statVars
  <2> QED BY <1>1, <1>2, <2>1, MovesAside
<1>8. CASE StopAgain \/ RunReturns \/ Over \/ UNCHANGED vars
  BY <1>8 DEF StopAgain, RunReturns, Over, vars, statVars, Aside
<1> QED BY <1>3, <1>4, <1>5, <1>6, <1>7, <1>8 DEF OrderStep

-----------------------------------------------------------------------------
(* The inductive invariant and what follows. *)

LEMMA StatsNext ==
  ASSUME IInv, SInv, [Next]_vars
  PROVE  SInv'
<1>1. CASE Aside
  BY <1>1, AsideKeeps
<1>2. ASSUME NEW g \in StatsFlushers, StatsStep(g) PROVE SInv'
  BY <1>2, GetDirtyKeeps, LoadTotalKeeps, LoadSuccessKeeps, LoadFailedKeeps, LoadTimeoutKeeps,
     UpdateStatsKeeps, UpdateStatsFailsKeeps, ClearDirtyKeeps DEF StatsStep
<1>3. CASE StatisticsStep
  BY <1>1, <1>2, <1>3, ReaderGetKeeps, CountsKeep, CreatePollerKeepsStats, OthersAside
     DEF StatisticsStep
<1>4. CASE Next
  BY <1>1, <1>3, <1>4, Kinds, SamplesAside, OthersAside, AddSampleKeepsStats, DeletePollerKeepsStats,
     RestartKeepsStats
<1>5. CASE UNCHANGED vars
  BY <1>1, <1>5, OthersAside
<1> QED BY <1>4, <1>5

LEMMA StatsInit == Init => SInv /\ EndTypes
<1> SUFFICES ASSUME Init PROVE SInv /\ EndTypes
  OBVIOUS
<1>1. /\ stats = [k \in Keys |-> None] /\ rec = [r \in Recs |-> NewPollerStats(None, Zero)]
      /\ flush = [g \in StatsFlushers |-> NoFlush] /\ statRow = [k \in Keys |-> None]
      /\ at = StartOf /\ starts = 0
  BY DEF Init
<1>2. at[Reader] = "idle" /\ \A g \in StatsFlushers : at[g] \in {"idle", "wait"}
  BY <1>1 DEF StartOf, Procs, StatsFlushers, Reader, StatsLoop, SampleLoop, Signal, Main
<1>3. NewPollerStats(None, Zero) \in Records /\ NewPollerStats(None, Zero).total = 0
  BY ZeroOK, NewStatsOK DEF Zero
<1>4. StatTypes
  BY <1>1, <1>3, NoFlushOK DEF StatTypes
<1>5. Held
  BY <1>2 DEF Held, Counting, Loading
<1>6. RecsCovered
  <2> SUFFICES ASSUME NEW r \in Recs PROVE Covers(rec[r], starts + Half(r))
    BY DEF RecsCovered
  <2>1. rec[r].total = 0 /\ rec[r].success \in Nat /\ rec[r].failed \in Nat
    BY <1>1, <1>3, <1>4, RecordFields DEF StatTypes
  <2>2. PICK s, f, n \in Nat : s = rec[r].success /\ f = rec[r].failed /\ n = starts + Half(r)
    BY <1>1, <2>1 DEF Half
  <2>3. 0 <= s + f + n
    OBVIOUS
  <2> QED BY <2>1, <2>2, <2>3 DEF Covers
<1>7. FlushCovered
  <2>1. \A g \in StatsFlushers : ReadCovered(g)
    BY <1>2 DEF ReadCovered
  <2>2. \A g \in StatsFlushers : \A k \in Keys : flush[g].saved[k] = None
    BY <1>1, NoFlushOK
  <2> QED BY <2>1, <2>2 DEF FlushCovered, SavedCovered
<1>8. RowsCovered
  BY <1>1 DEF RowsCovered
<1>9. EndTypes
  BY DEF Init, EndTypes
<1> QED BY <1>4, <1>5, <1>6, <1>7, <1>8, <1>9 DEF SInv

LEMMA StatsInductive == Spec => []SInv
<1>1. Init => SInv
  BY StatsInit
<1>2. IInv /\ SInv /\ [Next]_vars => SInv'
  BY StatsNext
<1> QED BY <1>1, <1>2, Inductive, PTL DEF Spec

LEMMA EndTypesNext ==
  ASSUME IInv, EndTypes, [Next]_vars
  PROVE  EndTypes'
<1>1. CASE UNCHANGED <<refused, listener, shutdown, storeOpen, proc>>
  BY <1>1 DEF EndTypes
<1>2. CASE ReaderStep
  BY <1>1, <1>2 DEF ReaderStep, ReaderGet, CountTotal, CountOutcome, CountTimeout, MarkDirty, Count,
                    AddSample, ReaderExit, sampleVars, stopVars
<1>3. ASSUME NEW g, Take(g) \/ Insert(g) \/ StatsStep(g) \/ LoopExit(g) PROVE EndTypes'
  BY <1>1, <1>3 DEF Take, Insert, StatsStep, GetDirty, LoadTotal, LoadSuccess, LoadFailed, LoadTimeout,
                    UpdateStats, UpdateStatsFails, ClearDirty, LoopExit, sampleVars, stopVars
<1>4. ASSUME NEW g \in SampleFlushers, InsertFails(g) PROVE EndTypes'
  BY <1>4 DEF InsertFails, IInv, Types, EndTypes, stopVars
<1>5. ASSUME NEW k, CreatePoller(k) \/ DeletePoller(k) PROVE EndTypes'
  BY <1>1, <1>5 DEF CreatePoller, DeletePoller, sampleVars, stopVars
<1>6. ASSUME NEW s, NEW o, Receive(s, o) PROVE EndTypes'
  BY <1>1, <1>6 DEF Receive, stopVars
<1>7. CASE SignalArrives \/ StopStep \/ Listen \/ RunReturns
  BY <1>7 DEF SignalArrives, StopStep, StopSync, LoopsStopped, CloseStore, StopAgain, Listen, RunReturns,
              sampleVars, stopVars, EndTypes
<1>8. CASE Restart
  BY <1>8 DEF Restart, EndTypes
<1>9. CASE Over \/ UNCHANGED vars
  BY <1>1, <1>9 DEF Over, vars, sampleVars, stopVars
<1> QED BY <1>2, <1>3, <1>4, <1>5, <1>6, <1>7, <1>8, <1>9 DEF Next, SampleStep

\* The whole state of Sync is of its type: among the rest, flushStats never reads a
\* record it does not have, and the counters stay naturals.
THEOREM TypeCorrect == Spec => []TypeOK
<1>1. IInv /\ SInv /\ EndTypes => TypeOK
  BY DEF IInv, Types, Places, SInv, StatTypes, Flushes, EndTypes, TypeOK
<1>2. Spec => []EndTypes
  <2>1. Init => EndTypes
    BY StatsInit
  <2> QED BY <2>1, EndTypesNext, Inductive, PTL DEF Spec
<1> QED BY <1>1, <1>2, Inductive, StatsInductive, PTL

\* Whatever flushStats reads while processResults counts, a stored row has at most
\* one poll without an outcome for every start of the process and one more, for any
\* number of pollers, records and restarts.
THEOREM TotalsCoveredHolds == Spec => []TotalsCovered
<1>1. ASSUME SInv PROVE TotalsCovered
  <2> SUFFICES ASSUME NEW k \in Keys, statRow[k] # None
               PROVE  statRow[k].total <= statRow[k].success + statRow[k].failed + 1 + starts
    BY DEF TotalsCovered
  <2>1. statRow[k].total \in Nat /\ statRow[k].success \in Nat /\ statRow[k].failed \in Nat
    BY <1>1, CounterFields DEF SInv, StatTypes
  <2>2. PICK t, s, f, n \in Nat :
          t = statRow[k].total /\ s = statRow[k].success /\ f = statRow[k].failed /\ n = starts
    BY <1>1, <2>1 DEF SInv, StatTypes
  <2>3. t <= s + f + (n + 1)
    BY <1>1, <2>2 DEF SInv, RowsCovered, Covers
  <2>4. t <= s + f + 1 + n
    BY <2>3
  <2> QED BY <2>2, <2>4
<1> QED BY <1>1, StatsInductive, PTL
=============================================================================
