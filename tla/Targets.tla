------------------------------ MODULE Targets ------------------------------
(***************************************************************************)
(* The targets of the first server, which internal/server keeps beside the *)
(* new one: the ring buffer and the state of a target (poller.go), the     *)
(* secondary indices (indices.go, tagindex.go), the queries and the paged  *)
(* listing that read them (browse.go), and the way of a sample from a      *)
(* worker through the dispatcher into a target.  The heap that decides when *)
(* a target is polled has the structure of internal/scheduler, which       *)
(* Scheduler.tla models; here a target that exists is polled at any time.  *)
(*                                                                         *)
(* The requests that create, delete and update a target are not in the     *)
(* repository: they are modelled from what the code here offers them, and  *)
(* hold the server's mutex.  Ids are numbers in the order of the strings,  *)
(* which Name gives where an id is a segment of a path; a tag is the       *)
(* sequence of its segments, a host pattern the set of hosts it matches.   *)
(* The answer to a request is that of one state: the list of targets holds *)
(* the server's mutex for reading, but Query and browseTags lock the       *)
(* indices several times, and a change between two of those steps is left  *)
(* out.                                                                    *)
(***************************************************************************)
EXTENDS Naturals, Sequences, FiniteSets

CONSTANTS
  MaxId,         \* ids of targets
  Name,          \* the id as a string
  Hosts,
  NoHost,        \* the host of a target without a configuration of SNMP
  Tags,          \* the tags that requests name
  Sizes,         \* sizes of ring buffers
  ErrLimit,      \* errors in a row that make a target unreachable
  QueueSize,     \* capacity of the channel results
  PageLimit,     \* targets on one page
  MaxEvents,     \* bound: requests and polls
  None

Ids == 1 .. MaxId
States == {"polling", "unreachable"}
Samples == {"valid", "error"}
Protocols == {"snmp", ""}
\* The protocols that filters name, one of which no target has.
Asked == {"snmp", "icmp"}
ProtocolOf(host) == IF host = NoHost THEN "" ELSE "snmp"
\* "type", "type/network", "type/network/router"
Prefixes == [tag \in Tags |-> {SubSeq(tag, 1, i) : i \in 1 .. Len(tag)}]
Indexed == UNION {Prefixes[tag] : tag \in Tags}

\* A target, what dispatchSample carries from one step to the next, and a listing.
TargetRecords ==
  [state : States, errs : 0 .. ErrLimit, host : Hosts, size : Sizes, writeIdx : Nat, count : Nat,
   buffer : UNION {[0 .. size - 1 -> Samples \cup {None}] : size \in Sizes}]
Dispatches == [id : Ids, old : States]
Pages ==
  [cursor : 0 .. MaxId, seen : SUBSET Ids, stable : SUBSET Ids, twice : BOOLEAN, done : BOOLEAN]

ASSUME TargetsAssumption ==
  /\ MaxId \in Nat
  /\ Name \in [Ids -> STRING] /\ \A i, j \in Ids : Name[i] = Name[j] => i = j
  /\ Tags \subseteq Seq(STRING) \ {<<>>}
  /\ Sizes \subseteq Nat \ {0}
  /\ ErrLimit \in Nat \ {0}
  /\ QueueSize \in Nat \ {0} /\ PageLimit \in Nat \ {0}
  /\ MaxEvents \in Nat
  /\ None \notin Ids /\ None \notin Samples \cup States \cup Asked
  /\ None \notin TargetRecords \cup Dispatches \cup Pages
  /\ \A S \in (SUBSET Ids) \cup (SUBSET Hosts) : S # None

VARIABLES
  target,         \* Server.targets: the target of an id, or None
  byState,        \* Indices: the ids with a state
  byProtocol,     \* Indices: the ids with a protocol
  byHost,         \* Indices: the ids with a host
  tagToTargets,   \* TagIndex: the ids under a tag or a prefix of one
  targetToTags,   \* TagIndex: the tags given to an id
  polling,        \* the targets a worker polls
  results,        \* the channel results
  dispatch,       \* what dispatchSample has written and not indexed, or None
  page,           \* the listing a client pages through, or None
  kept,           \* history: the samples the buffer of an id should hold
  events          \* history: requests and polls

indices == <<byState, byProtocol, byHost, tagToTargets, targetToTags>>
vars == <<target, indices, polling, results, dispatch, page, kept, events>>

NewTarget(host, size) ==
  [state |-> "polling", errs |-> 0, host |-> host,
   buffer |-> [i \in 0 .. size - 1 |-> None], size |-> size, writeIdx |-> 0, count |-> 0]

IsTarget(t) ==
  /\ t \in TargetRecords
  /\ t.buffer \in [0 .. t.size - 1 -> Samples \cup {None}]
  /\ t.writeIdx \in 0 .. t.size - 1 /\ t.count \in 0 .. t.size

TypeOK ==
  /\ DOMAIN target = Ids /\ \A id \in Ids : target[id] # None => IsTarget(target[id])
  /\ byState \in [States -> SUBSET Ids]
  /\ byProtocol \in [Protocols -> SUBSET Ids]
  /\ byHost \in [Hosts -> SUBSET Ids]
  /\ tagToTargets \in [Indexed -> SUBSET Ids]
  /\ targetToTags \in [Ids -> SUBSET Tags]
  /\ polling \subseteq Ids
  /\ results \in Seq(Ids \X Samples) /\ Len(results) <= QueueSize
  /\ dispatch \in Dispatches \cup {None}
  /\ page \in Pages \cup {None}
  /\ kept \in [Ids -> Seq(Samples)]
  /\ events \in 0 .. MaxEvents

Present == {id \in Ids : target[id] # None}
-----------------------------------------------------------------------------
(* The ring buffer and the state of one target. *)

\* The last n of a sequence.
Last(s, n) == IF n >= Len(s) THEN s ELSE SubSeq(s, Len(s) - n + 1, Len(s))

\* WriteSample without the wrap-around of the write index.
WriteSampleNoWrap(t, s) ==
  [t EXCEPT !.buffer = [@ EXCEPT ![t.writeIdx] = s], !.writeIdx = @ + 1,
            !.count = IF @ < t.size THEN @ + 1 ELSE @]
WriteSample(t, s) ==
  LET errs == IF s = "valid" THEN 0 ELSE IF t.errs < ErrLimit THEN t.errs + 1 ELSE t.errs IN
  [t EXCEPT !.buffer = [@ EXCEPT ![t.writeIdx] = s],
            !.writeIdx = (@ + 1) % t.size,
            !.count = IF @ < t.size THEN @ + 1 ELSE @,
            !.errs = errs,
            !.state = IF s = "valid" THEN "polling"
                      ELSE IF errs >= ErrLimit THEN "unreachable" ELSE @]

\* The last n samples, oldest first.
ReadLastN(t, n) ==
  LET m == IF n > t.count THEN t.count ELSE n
      start == (t.writeIdx + t.size - m) % t.size
  IN [i \in 1 .. m |-> t.buffer[(start + i - 1) % t.size]]

\* browseTargetHistory: 10 samples unless the request says how many, 1000 at the most.
HistoryLimit(limit) == IF limit = 0 THEN 10 ELSE IF limit > 1000 THEN 1000 ELSE limit
History(t, limit) == ReadLastN(t, HistoryLimit(limit))

\* ResizeBuffer taking the oldest samples instead of the latest.
ResizeKeepOldest(t, size) ==
  LET keep == IF t.count > size THEN size ELSE t.count
      start == (t.writeIdx + t.size - t.count) % t.size
  IN [t EXCEPT !.buffer = [i \in 0 .. size - 1 |-> IF i < keep THEN t.buffer[(start + i) % t.size] ELSE None],
               !.size = size, !.count = keep, !.writeIdx = keep % size]
ResizeBuffer(t, size) ==
  LET keep == IF t.count > size THEN size ELSE t.count
      skip == t.count - keep
      start == (t.writeIdx + t.size - t.count + skip) % t.size
  IN IF size = t.size THEN t
     ELSE [t EXCEPT !.buffer = [i \in 0 .. size - 1 |-> IF i < keep THEN t.buffer[(start + i) % t.size] ELSE None],
                    !.size = size, !.count = keep, !.writeIdx = keep % size]
-----------------------------------------------------------------------------
(* The indices. *)

With(index, x, id) == [index EXCEPT ![x] = @ \cup {id}]

\* removeLocked for the tags alone, not for their prefixes.
RemoveTagsOnly(index, id, old) ==
  [p \in DOMAIN index |-> IF p \in old THEN index[p] \ {id} ELSE index[p]]
\* removeLocked: the prefixes of the tags the target has.
RemoveTags(index, id, old) ==
  [p \in DOMAIN index |-> IF \E tag \in old : p \in Prefixes[tag] THEN index[p] \ {id} ELSE index[p]]
\* addTagLocked for each tag: the tag and all its prefixes.
AddTags(index, id, new) ==
  [p \in DOMAIN index |-> IF \E tag \in new : p \in Prefixes[tag] THEN index[p] \cup {id} ELSE index[p]]
\* The index after the tags of a target are replaced, first added and then removed.
RetaggedLate(id, new) == RemoveTags(AddTags(tagToTargets, id, new), id, targetToTags[id])
\* The index after the tags of a target are replaced.
Retagged(id, new) == AddTags(RemoveTags(tagToTargets, id, targetToTags[id]), id, new)
SetTags(id, new) ==
  /\ tagToTargets' = Retagged(id, new)
  /\ targetToTags' = [targetToTags EXCEPT ![id] = new]

IndexAdd(id, state, host, tags) ==
  /\ byState' = With(byState, state, id)
  /\ byProtocol' = With(byProtocol, ProtocolOf(host), id)
  /\ byHost' = With(byHost, host, id)
  /\ SetTags(id, tags)

\* The entries of the state, the protocol and the host the caller gives, and all tags.
IndexRemove(id, state, host) ==
  /\ byState' = [byState EXCEPT ![state] = @ \ {id}]
  /\ byProtocol' = [byProtocol EXCEPT ![ProtocolOf(host)] = @ \ {id}]
  /\ byHost' = [byHost EXCEPT ![host] = @ \ {id}]
  /\ SetTags(id, {})

\* UpdateState without the removal from the old state.
UpdateStateAdd(id, old, new) == byState' = With(byState, new, id)
UpdateState(id, old, new) == byState' = With([byState EXCEPT ![old] = @ \ {id}], new, id)
-----------------------------------------------------------------------------
(* What the indices answer. *)

\* QueryOR in the place of QueryAND.
QueryByAnyTag(tags) == {id \in Ids : \E tag \in tags : id \in tagToTargets[tag]}
QueryByTags(tags) == {id \in Ids : \A tag \in tags : id \in tagToTargets[tag]}
QueryByProtocol(protocol) == IF protocol \in Protocols THEN byProtocol[protocol] ELSE {}
QueryByHost(pattern) == UNION {byHost[h] : h \in pattern}

\* The helper of Query: an empty set before the first one that is not is skipped.
Intersect(found, set) ==
  IF found = None THEN (IF set = {} THEN None ELSE set) ELSE found \cap set
\* The criteria of a filter that are given, in the order of Query.
Query(f) ==
  LET s == IF f.state = None THEN None ELSE Intersect(None, byState[f.state])
      p == IF f.protocol = None THEN s ELSE Intersect(s, QueryByProtocol(f.protocol))
      t == IF f.tags = {} THEN p ELSE Intersect(p, QueryByTags(f.tags))
  IN IF f.host = None THEN t ELSE Intersect(t, QueryByHost(f.host))
IsEmpty(f) == f.state = None /\ f.protocol = None /\ f.tags = {} /\ f.host = None

\* browseTargetList: all targets, none, or the candidates.
Selected(f) ==
  LET found == Query(f) IN IF IsEmpty(f) THEN Present ELSE IF found = None THEN {} ELSE found

\* ListChildren: the next segments below a prefix, and the targets tagged exactly so.
ChildDirs(prefix) ==
  {p[Len(prefix) + 1] : p \in {q \in Indexed : /\ tagToTargets[q] # {}
                                              /\ Len(q) > Len(prefix)
                                              /\ SubSeq(q, 1, Len(prefix)) = prefix}}
ChildTargets(prefix) == {id \in Ids : prefix \in targetToTags[id]}
\* The targets at a path, all or those of the filter, if they still exist.
ListedAt(path, f) ==
  LET g == [f EXCEPT !.tags = {}]
      found == Query(g)
  IN Present \cap (IF IsEmpty(g) THEN ChildTargets(path)
                   ELSE IF found = None THEN {} ELSE found \cap ChildTargets(path))

\* The prefixes of a tag count as tags.
HasTag(id, tag) == tag \in Indexed /\ id \in tagToTargets[tag]
\* A segment may be the id of a target: the only one of a path always, and another one
\* when the target has the tag before it.
NamedBy(path, i) ==
  {id \in Present : /\ Name[id] = path[i]
                    /\ IF i = 1 THEN Len(path) = 1 ELSE HasTag(id, SubSeq(path, 1, i - 1))}
Naming(path) == {i \in 1 .. Len(path) : NamedBy(path, i) # {}}
\* browseTags: the answer of browseTargetByID for the last segment that is an id, with the
\* segments after it, or else the directory.
BrowseTags(path, f) ==
  IF Naming(path) = {}
  THEN [target |-> None, rest |-> <<>>, dirs |-> ChildDirs(path), targets |-> ListedAt(path, f)]
  ELSE LET i == CHOOSE i \in Naming(path) : \A j \in Naming(path) : j <= i
       IN [target |-> CHOOSE id \in NamedBy(path, i) : TRUE,
           rest |-> SubSeq(path, i + 1, Len(path)), dirs |-> {}, targets |-> {}]
-----------------------------------------------------------------------------
(* Requests. *)

Event == events < MaxEvents /\ events' = events + 1
\* dispatchSample holds the server's mutex for reading.
MayLock == dispatch = None

CreateTarget(id, host, size, tags) ==
  /\ Event /\ MayLock
  /\ target[id] = None
  /\ target' = [target EXCEPT ![id] = NewTarget(host, size)]
  /\ IndexAdd(id, "polling", host, tags)
  /\ kept' = [kept EXCEPT ![id] = <<>>]
  /\ UNCHANGED <<polling, results, dispatch, page>>

\* A listing under way may have shown the target or not.
Unstable(id) == IF page = None THEN page ELSE [page EXCEPT !.stable = @ \ {id}]

DeleteTarget(id) ==
  /\ Event /\ MayLock
  /\ target[id] # None
  /\ target' = [target EXCEPT ![id] = None]
  /\ IndexRemove(id, target[id].state, target[id].host)
  /\ kept' = [kept EXCEPT ![id] = <<>>]
  /\ page' = Unstable(id)
  /\ UNCHANGED <<polling, results, dispatch>>

\* UpdateTags: set replaces all tags; otherwise the current ones, less remove, with add.
NewTags(current, add, remove, set) == IF set # {} THEN set ELSE (current \ remove) \cup add
UpdateTags(id, add, remove, set) ==
  /\ Event
  /\ target[id] # None
  /\ SetTags(id, NewTags(targetToTags[id], add, remove, set))
  /\ UNCHANGED <<target, byState, byProtocol, byHost, polling, results, dispatch, page, kept>>

Resize(id, size) ==
  /\ Event
  /\ target[id] # None
  /\ target' = [target EXCEPT ![id] = ResizeBuffer(@, size)]
  /\ kept' = [kept EXCEPT ![id] = Last(@, size)]
  /\ UNCHANGED <<indices, polling, results, dispatch, page>>
-----------------------------------------------------------------------------
(* Polls. *)

\* A worker takes the job of a target; poll reads what it needs and lets the lock go.
StartPoll(id) ==
  /\ Event
  /\ id \notin polling /\ target[id] # None
  /\ polling' = polling \cup {id}
  /\ UNCHANGED <<target, indices, results, dispatch, page, kept>>

\* A value, or an error of the connection, of the request or of the variable.
FinishPoll(id, s) ==
  /\ id \in polling
  /\ Len(results) < QueueSize
  /\ polling' = polling \ {id}
  /\ results' = Append(results, <<id, s>>)
  /\ UNCHANGED <<target, indices, dispatch, page, kept, events>>

\* dispatchSample: the result of a target that is gone is dropped; one that was created
\* again under the same id gets it.
DispatchWrite ==
  /\ dispatch = None /\ results # <<>>
  /\ results' = Tail(results)
  /\ LET id == Head(results)[1]  s == Head(results)[2] IN
     IF target[id] = None THEN UNCHANGED <<target, dispatch, kept>>
     ELSE /\ dispatch' = [id |-> id, old |-> target[id].state]
          /\ target' = [target EXCEPT ![id] = WriteSample(@, s)]
          /\ kept' = [kept EXCEPT ![id] = Last(Append(@, s), target[id].size)]
  /\ UNCHANGED <<indices, polling, page, events>>

DispatchIndex ==
  /\ dispatch # None
  /\ LET id == dispatch.id  new == target[dispatch.id].state IN
     IF dispatch.old = new THEN UNCHANGED byState ELSE UpdateState(id, dispatch.old, new)
  /\ dispatch' = None
  /\ UNCHANGED <<target, byProtocol, byHost, tagToTargets, targetToTags, polling, results, page,
                 kept, events>>
-----------------------------------------------------------------------------
(* A client lists all targets, page by page, once. *)

StartListing ==
  /\ Event
  /\ page = None
  /\ page' = [cursor |-> 0, seen |-> {}, stable |-> Present, twice |-> FALSE, done |-> FALSE]
  /\ UNCHANGED <<target, indices, polling, results, dispatch, kept>>

\* The targets after the cursor counted from it, the cursor itself included.
AfterWithCursor(cursor) == {id \in Present : id >= cursor}
\* The targets after the cursor, which need not exist any more.
After(cursor) == {id \in Present : id > cursor}
\* The first ones of a set, up to the limit.
FirstPage(ids) == {id \in ids : Cardinality({i \in ids : i < id}) < PageLimit}
NextPage ==
  LET shown == FirstPage(After(page.cursor))
      more == shown # After(page.cursor)
  IN
  /\ page # None /\ ~page.done
  /\ page' = [page EXCEPT !.seen = @ \cup shown, !.twice = @ \/ (shown \cap page.seen # {}),
                          !.cursor = IF more THEN CHOOSE i \in shown : \A j \in shown : j <= i ELSE @,
                          !.done = ~more]
  /\ UNCHANGED <<target, indices, polling, results, dispatch, kept, events>>

-----------------------------------------------------------------------------
\* No target, or targets of the configuration file.
Init ==
  /\ \E ids \in {{}, Ids}, host \in Hosts, size \in Sizes, tags \in {{}, Tags} :
       /\ target = [id \in Ids |-> IF id \in ids THEN NewTarget(host, size) ELSE None]
       /\ byState = [s \in States |-> IF s = "polling" THEN ids ELSE {}]
       /\ byProtocol = [p \in Protocols |-> IF p = ProtocolOf(host) THEN ids ELSE {}]
       /\ byHost = [h \in Hosts |-> IF h = host THEN ids ELSE {}]
       /\ targetToTags = [id \in Ids |-> IF id \in ids THEN tags ELSE {}]
       /\ tagToTargets = [p \in Indexed |-> IF \E tag \in tags : p \in Prefixes[tag] THEN ids ELSE {}]
  /\ polling = {} /\ results = <<>> /\ dispatch = None /\ page = None
  /\ kept = [id \in Ids |-> <<>>]
  /\ events = 0

Change(id) ==
  \/ \E host \in Hosts, size \in Sizes, tags \in SUBSET Tags : CreateTarget(id, host, size, tags)
  \/ DeleteTarget(id)
  \/ \E set \in SUBSET Tags : UpdateTags(id, {}, {}, set)
  \/ \E add \in SUBSET Tags : \E remove \in SUBSET (Tags \ add) : UpdateTags(id, add, remove, {})
  \/ \E size \in Sizes : Resize(id, size)
Poll(id) == StartPoll(id) \/ \E s \in Samples : FinishPoll(id, s)
Dispatcher == DispatchWrite \/ DispatchIndex
Listing == StartListing \/ NextPage
Next == (\E id \in Ids : Change(id) \/ Poll(id)) \/ Dispatcher \/ Listing
Spec == Init /\ [][Next]_vars
-----------------------------------------------------------------------------
(* Properties. *)

\* The state under which a target is to be found: while dispatchSample is between
\* WriteSample and UpdateState it is still the old one.
IndexedState(id) ==
  IF dispatch = None THEN target[id].state
  ELSE IF dispatch.id = id THEN dispatch.old ELSE target[id].state
\* Every target is found under exactly its state, its protocol and its host, and nothing
\* of a target that is deleted stays: Remove only looks where the caller says it is.
IndicesAgree ==
  /\ \A s \in States : byState[s] = {id \in Present : IndexedState(id) = s}
  /\ \A p \in Protocols : byProtocol[p] = {id \in Present : ProtocolOf(target[id].host) = p}
  /\ \A h \in Hosts : byHost[h] = {id \in Present : target[id].host = h}

\* A target is found under its tags and their prefixes and under nothing else, although
\* tags of one target share prefixes and are replaced one set by another.
TagsAgree ==
  /\ \A p \in Indexed :
       tagToTargets[p] = {id \in Ids : \E tag \in targetToTags[id] : p \in Prefixes[tag]}
  /\ \A id \in Ids \ Present : targetToTags[id] = {}

\* The buffer holds the latest samples in order, over wrap-arounds and over changes of
\* its size: any number of them that is read is the end of what was written.
RingKeepsLatest ==
  \A id \in Present :
    \A n \in 0 .. target[id].size + 1 :
      History(target[id], n) = Last(kept[id], HistoryLimit(n))

\* A pattern matches one host, or all and the targets that have none.
Filters ==
  [state : States \cup {None}, protocol : Asked \cup {None}, tags : SUBSET Indexed,
   host : {{h} : h \in Hosts \ {NoHost}} \cup {Hosts, None}]
Untagged == {f \in Filters : f.tags = {}}
NoFilter == [state |-> None, protocol |-> None, tags |-> {}, host |-> None]
HasState(id, f) == f.state \in {None, target[id].state}
HasProtocol(id, f) == f.protocol \in {None, ProtocolOf(target[id].host)}
HasTags(id, f) == \A p \in f.tags : \E tag \in targetToTags[id] : p \in Prefixes[tag]
HasHost(id, f) == f.host # None => target[id].host \in f.host
Meets(id, f) == HasState(id, f) /\ HasProtocol(id, f) /\ HasTags(id, f) /\ HasHost(id, f)
Matching(f) == {id \in Present : Meets(id, f)}
\* Query answers with the targets that meet all criteria of the filter.
QueryMatches == dispatch = None => \A f \in Filters : Selected(f) = Matching(f)
\* It does when there is such a target.  (When there is none the list need not be empty:
\* Query goes on as if a first criterion that no target meets was not there.)
QueryFinds ==
  dispatch = None =>
    \A f \in Filters : LET found == Matching(f) IN found # {} => Selected(f) = found

\* A segment of the path is the id of a target.
Shadowed(path) == \E id \in Present : \E i \in 1 .. Len(path) : Name[id] = path[i]
\* Below each of its tags a target can be opened by its id, whatever the other ids are.
\* Where no id is a segment of the tag the tag can be walked down, and the target is
\* listed there under every filter that it meets.  No directory is shown without a target
\* below it.
BrowseReaches ==
  /\ \A id \in Ids : \A tag \in targetToTags[id] :
       /\ LET opened == BrowseTags(Append(tag, Name[id]), NoFilter)
          IN opened.target = id /\ opened.rest = <<>>
       /\ ~Shadowed(tag) =>
            /\ \A i \in 1 .. Len(tag) :
                 tag[i] \in BrowseTags(SubSeq(tag, 1, i - 1), NoFilter).dirs
            /\ dispatch = None =>
                 \A f \in Untagged : Meets(id, f) => id \in BrowseTags(tag, f).targets
  /\ \A p \in Indexed \cup {<<>>} : \A dir \in BrowseTags(p, NoFilter).dirs :
       \E id \in Present : \E tag \in targetToTags[id] : Append(p, dir) \in Prefixes[tag]

\* A client that pages through the list sees every target that existed all the time, and
\* no target twice, although targets are deleted and created between two pages, the one
\* the cursor names included.
ListingComplete ==
  page # None => ~page.twice /\ (page.done => page.stable \subseteq page.seen)
=============================================================================
