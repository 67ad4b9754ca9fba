------------------------------ MODULE SampleLog ------------------------------
(***************************************************************************)
(* What the sample path of the server promises, without its buffer,        *)
(* batches, goroutines and statistics: a sample is accepted once, becomes  *)
(* durable at most once and in one step with its batch, and then stays     *)
(* until its poller is deleted.  While the process runs, an accepted       *)
(* sample is pending, durable or refused; what is pending disappears in    *)
(* the step in which the process exits or crashes, and in no other.        *)
(***************************************************************************)
EXTENDS Naturals

CONSTANTS Keys, Samples, KeyOf, StoreMayFail

VARIABLES
  fresh,    \* the samples no poll has produced yet
  pending,  \* accepted, not durable
  log,      \* durable
  refused,  \* of a batch the store did not take
  up,       \* the process runs
  starts    \* how often it crashed and was started again

logVars == <<fresh, pending, log, refused, up, starts>>

Init ==
  /\ fresh = Samples /\ pending = {} /\ log = {} /\ refused = {}
  /\ up = TRUE /\ starts = 0

Accept(s) ==
  /\ up
  /\ s \in fresh
  /\ fresh' = fresh \ {s}
  /\ pending' = pending \cup {s}
  /\ UNCHANGED <<log, refused, up, starts>>

Commit(batch) ==
  /\ up
  /\ batch \subseteq pending
  /\ pending' = pending \ batch
  /\ log' = log \cup batch
  /\ UNCHANGED <<fresh, refused, up, starts>>

Refuse(batch) ==
  /\ up /\ StoreMayFail
  /\ batch \subseteq pending
  /\ pending' = pending \ batch
  /\ refused' = refused \cup batch
  /\ UNCHANGED <<fresh, log, up, starts>>

Erase(k) ==
  /\ up
  /\ log' = {s \in log : KeyOf[s] # k}
  /\ UNCHANGED <<fresh, pending, refused, up, starts>>

\* The process ends, and no other follows.
Exit ==
  /\ up
  /\ up' = FALSE
  /\ pending' = {}
  /\ UNCHANGED <<fresh, log, refused, starts>>

\* The process dies and the next one starts.
Crash ==
  /\ up
  /\ starts' = starts + 1
  /\ pending' = {}
  /\ UNCHANGED <<fresh, log, refused, up>>

Next ==
  \/ \E s \in fresh : Accept(s)
  \/ \E batch \in SUBSET pending : Commit(batch) \/ Refuse(batch)
  \/ \E k \in Keys : Erase(k)
  \/ Exit \/ Crash

Spec == Init /\ [][Next]_logVars
=============================================================================
