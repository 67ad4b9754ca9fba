------------------------------ MODULE Entities ------------------------------
(***************************************************************************)
(* The entities of one namespace, in the store and in the caches of the    *)
(* managers: internal/manager/{namespace,target,poller,tree}.go, the       *)
(* tables of internal/store/{namespace,target,poller,tree}.go and the      *)
(* handlers of internal/handler/{namespace,target,poller,browse}.go that   *)
(* call them.  One namespace, one target with one poller, and a directory  *)
(* of the tree with a link to each of them.                                *)
(*                                                                         *)
(* The watcher of internal/loader/loader.go applies the configuration file *)
(* through the same managers; it is a client that has a whole list of      *)
(* requests.                                                               *)
(*                                                                         *)
(* Create, Update and Delete of a manager hold its mutex around the store  *)
(* call and the cache change; Get looks the cache up, reads the store and  *)
(* fills the cache in three steps, and the tree manager changes the store  *)
(* before it takes its mutex.  Get returns the cached object itself: the   *)
(* handlers change it before they call Update, with no mutex, and others   *)
(* that hold it see the change.  What an entity holds besides its version  *)
(* is the number of the write that made it (Resolver.tla has the           *)
(* configuration); names are left out.                                     *)
(***************************************************************************)
EXTENDS Naturals, FiniteSets

CONSTANTS
  Clients,      \* the connections, each handling one request at a time
  Paths,        \* the nodes of the tree that requests name
  Objects,      \* the addresses of objects, for each entity; bound: how many are in use
  MaxWrites,    \* bound: contents of the managers' entities made after the start
  MaxRequested, \* bound: after that many only a reload that has begun writes more
  None

ASSUME EntitiesAssumption ==
  /\ Paths \subseteq {"directory", "link to target", "link to poller"}
  /\ MaxWrites \in Nat
  /\ MaxRequested \in 0 .. MaxWrites
  /\ Objects # {}
  /\ None \notin Clients \cup [version : Nat, write : Nat]
                    \cup [obj : Objects, version : Nat, write : Nat]

Namespace == "namespace"
Target == "target"
Poller == "poller"
Dir == "directory"
TargetLink == "link to target"
PollerLink == "link to poller"
Managed == {Namespace, Target, Poller}
Nodes == {Dir, TargetLink, PollerLink}
Links == {TargetLink, PollerLink}
Entity == Managed \cup Nodes
Referent == [l \in Links |-> IF l = TargetLink THEN Target ELSE Poller]

VARIABLES
  row,       \* the row of an entity with its version, or None
  cache,     \* the cached object, or None
  indexed,   \* PollerManager.byTarget and byNamespace hold the poller
  bound,     \* a session has been bound to the namespace
  req,       \* the request of a client and how far it is
  lock,      \* the mutex of a manager: held by the deletion of a client, or None
  writes     \* history: contents made for the managers' entities

vars == <<row, cache, indexed, bound, req, lock, writes>>

Rows == [version : Nat, write : Nat]
\* An entity in memory.
Objs == [obj : Objects, version : Nat, write : Nat]
Content(x) == [version |-> x.version, write |-> x.write]
Placed(o, r) == [obj |-> o, version |-> r.version, write |-> r.write]
\* A node of the tree has no version, and one path always names the same thing.
Node == [version |-> 0, write |-> 0]
NoRequest ==
  [at |-> "idle", entity |-> Namespace, next |-> "reply", read |-> None, all |-> FALSE,
   force |-> FALSE, apply |-> FALSE]

TypeOK ==
  /\ row \in [Entity -> Rows \cup {None}]
  /\ cache \in [Entity -> Objs \cup {None}]
  /\ indexed \in BOOLEAN
  /\ bound \in BOOLEAN
  /\ req \in [Clients ->
       [at : {"idle", "apply", "lookup", "read", "insert", "edit", "update", "create", "bind",
              "count", "remove", "validate", "link", "invalidate", "invalidateChildren"},
        entity : Entity, next : {"reply", "edit", "create", "bind"},
        read : Objs \cup {None}, all : BOOLEAN, force : BOOLEAN, apply : BOOLEAN]]
  /\ \A c \in Clients : req[c].at \in {"insert", "edit", "update"} => req[c].read # None
  /\ lock \in [Managed -> Clients \cup {None}]
  /\ writes \in 0 .. MaxWrites

\* What the Load of each manager finds: all namespaces, the targets of each of them, all
\* pollers; the tree is loaded on demand.
LoadNamespaces(stored) == stored[Namespace]
LoadTargets(stored) == IF stored[Namespace] = None THEN None ELSE stored[Target]
\* Load going through the targets for their pollers.
LoadPollersByTarget(stored) == IF LoadTargets(stored) = None THEN None ELSE stored[Poller]
LoadPollers(stored) == stored[Poller]
\* The object a start makes of a row.
Home == CHOOSE o \in Objects : TRUE
Loaded(r) == IF r = None THEN None ELSE Placed(Home, r)
Load(stored) ==
  [e \in Entity |-> CASE e = Namespace -> Loaded(LoadNamespaces(stored))
                      [] e = Target -> Loaded(LoadTargets(stored))
                      [] e = Poller -> Loaded(LoadPollers(stored))
                      [] OTHER -> None]

\* An empty store, or one in which everything has been created.
Init ==
  /\ \/ row = [e \in Entity |-> None]
     \/ row = [e \in Entity |-> CASE e \in Managed -> [version |-> 1, write |-> 0]
                                  [] e \in Paths -> Node
                                  [] OTHER -> None]
  /\ cache = Load(row)
  /\ indexed = (row[Poller] # None)
  /\ bound = FALSE
  /\ req = [c \in Clients |-> NoRequest]
  /\ lock = [m \in Managed |-> None]
  /\ writes = 0
-----------------------------------------------------------------------------
(* Steps of a request. *)

Idle(c) == req[c].at = "idle"
\* RequireNamespace.
Bound(c) == Idle(c) /\ bound
Free(e) == e \in Managed => lock[e] = None
\* The bound, for the watcher and for requests.
MayWrite(c) == writes < IF req[c].apply THEN MaxWrites ELSE MaxRequested
Go(c, step) == req' = [req EXCEPT ![c].at = step]
Begin(c, e, step) == req' = [req EXCEPT ![c] = [NoRequest EXCEPT !.at = step, !.entity = e]]

\* What Apply does after an entity: the pollers of a target that failed are left out,
\* and everything when the namespace failed; errors of pollers and nodes are only noted.
ApplyNext(e, ok) ==
  CASE e = Namespace /\ ok -> Target
    [] e = Target /\ ok -> Poller
    [] (e = Target /\ ~ok) \/ e = Poller -> Dir
    [] e = Dir /\ ok /\ TargetLink \in Paths -> TargetLink
    [] (IF TargetLink \in Paths THEN e = TargetLink ELSE e = Dir /\ ok) /\ PollerLink \in Paths ->
         PollerLink
    [] OTHER -> None
\* A request ends with its reply; the watcher goes on with its list.
Ended(c, ok) ==
  LET next == ApplyNext(req[c].entity, ok) IN
  IF ~req[c].apply \/ next = None THEN NoRequest
  ELSE [NoRequest EXCEPT !.at = IF next \in Links THEN "validate" ELSE "apply",
                         !.entity = next, !.apply = TRUE]
Done(c, ok) == req' = [req EXCEPT ![c] = Ended(c, ok)]
Reply(c) == Done(c, TRUE)
Fail(c) == Done(c, FALSE)

\* The objects of e in use, and a new one.  (Nobody changes a cached node: where it is
\* does not matter.)
Held(e) ==
  {x \in {cache[e]} \cup {req[c].read : c \in {d \in Clients : req[d].entity = e}} : x # None}
Unused(e) == IF e \in Managed THEN Objects \ {x.obj : x \in Held(e)} ELSE {Home}
New(e) == CHOOSE o \in Unused(e) : TRUE
\* An object of e has become x: whoever holds it sees that, and if it is the cached one,
\* so do all.
Same(y, x) == IF y = None THEN FALSE ELSE y.obj = x.obj
ShownCache(e, x) ==
  [cache EXCEPT ![e] = IF Same(@, x) THEN [@ EXCEPT !.write = x.write] ELSE @]
Shown(e, x) ==
  [d \in Clients |-> IF req[d].entity = e /\ Same(req[d].read, x)
                     THEN [req[d] EXCEPT !.read = x] ELSE req[d]]

\* Continue without the early return of a plain Get.
ContinueAlways(c) == req' = [req EXCEPT ![c] = [@ EXCEPT !.at = req[c].next]]
Continue(c) ==
  IF req[c].next = "reply" THEN Reply(c)
  ELSE req' = [req EXCEPT ![c] =
         [@ EXCEPT !.at = req[c].next, !.next = "reply",
                   !.read = IF req[c].next = "edit" THEN req[c].read ELSE None]]

Lookup(c, e, step) ==
  /\ Free(e)
  /\ req' = [req EXCEPT ![c] =
       IF cache[e] = None THEN [NoRequest EXCEPT !.at = "read", !.entity = e, !.next = step,
                                                                 !.apply = req[c].apply]
       ELSE IF step = "reply" THEN NoRequest
       ELSE [NoRequest EXCEPT !.at = step, !.entity = e, !.apply = req[c].apply,
                              !.read = IF step = "edit" THEN cache[e] ELSE None]]
  /\ UNCHANGED <<row, cache, indexed, bound, lock, writes>>

\* The Get with which SetLabels ends, and that of Apply for an entity that exists.
GetLookup(c) == req[c].at = "lookup" /\ Lookup(c, req[c].entity, req[c].next)

GetRead(c) ==
  LET e == req[c].entity IN
  /\ req[c].at = "read"
  /\ IF row[e] = None THEN Fail(c)
     ELSE /\ Unused(e) # {}
          /\ req' = [req EXCEPT ![c].at = "insert", ![c].read = Placed(New(e), row[e])]
  /\ UNCHANGED <<row, cache, indexed, bound, lock, writes>>

\* The poller manager does not index what it inserts here.
GetInsert(c) ==
  LET e == req[c].entity IN
  /\ req[c].at = "insert"
  /\ Free(e)
  /\ cache' = [cache EXCEPT ![e] = req[c].read]
  /\ Continue(c)
  /\ UNCHANGED <<row, indexed, bound, lock, writes>>
-----------------------------------------------------------------------------
(* Requests that begin with a Get: of the namespace, and of what is in it for a bound   *)
(* session.                                                                 *)

GetNamespace(c) == Idle(c) /\ Lookup(c, Namespace, "reply")
UpdateNamespace(c) == Idle(c) /\ MayWrite(c) /\ Lookup(c, Namespace, "edit")
BindNamespace(c) == Idle(c) /\ Lookup(c, Namespace, "bind")
GetTarget(c) == Bound(c) /\ Lookup(c, Target, "reply")
UpdateTarget(c) == Bound(c) /\ MayWrite(c) /\ Lookup(c, Target, "edit")
GetPoller(c) == Bound(c) /\ Lookup(c, Poller, "reply")
UpdatePoller(c) == Bound(c) /\ MayWrite(c) /\ Lookup(c, Poller, "edit")
\* The target must exist.
CreatePoller(c) == Bound(c) /\ Lookup(c, Target, "create")

BrowseTarget(c) == Bound(c) /\ Lookup(c, Target, "reply")
\* GetPollerFullInfo.
BrowsePoller(c) == Bound(c) /\ Lookup(c, Poller, "reply")
\* The links of the directory, as they are stored, with what they lead to.
BrowseTree(c, l) == Bound(c) /\ row[l] # None /\ Lookup(c, Referent[l], "reply")
ResolvePath(c, n) == Bound(c) /\ n \in Paths /\ Lookup(c, n, "reply")

Bind(c) ==
  /\ req[c].at = "bind"
  /\ bound' = TRUE
  /\ Reply(c)
  /\ UNCHANGED <<row, cache, indexed, lock, writes>>

\* What the lists show: what is cached, pollers if they are indexed.
ListNamespaces == {e \in {Namespace} : cache[e] # None}
ListTargets == {e \in {Target} : cache[e] # None}
ListPollers == {e \in {Poller} : cache[e] # None /\ indexed}
-----------------------------------------------------------------------------
(* Create and Update. *)

Inserted == [version |-> 1, write |-> writes + 1]
\* The manager has it, or the row violates the primary key.
Exists(e) == cache[e] # None \/ row[e] # None
InsertRow(e) == row' = [row EXCEPT ![e] = Inserted]
AddToIndexes(e) == indexed' = (indexed \/ e = Poller)

\* The new entity is in the store and in the cache, or nothing changes.
Create(e) ==
  IF Exists(e) THEN UNCHANGED <<row, cache, indexed, writes>>
  ELSE /\ InsertRow(e)
       /\ Unused(e) # {}
       /\ cache' = [cache EXCEPT ![e] = Placed(New(e), Inserted)]
       /\ AddToIndexes(e)
       /\ writes' = writes + 1

CreateNamespace(c) ==
  /\ Idle(c)
  /\ Free(Namespace)
  /\ Exists(Namespace) \/ MayWrite(c)
  /\ Create(Namespace)
  /\ UNCHANGED <<bound, req, lock>>

\* Neither the handler nor the manager looks the namespace up.
CreateTarget(c) ==
  /\ Bound(c)
  /\ Free(Target)
  /\ Exists(Target) \/ MayWrite(c)
  /\ Create(Target)
  /\ UNCHANGED <<bound, req, lock>>

PollerCreated(c) ==
  /\ req[c].at = "create"
  /\ Free(Poller)
  /\ Exists(Poller) \/ MayWrite(c)
  /\ Create(Poller)
  /\ Reply(c)
  /\ UNCHANGED <<bound, lock>>

\* The row still has the version of the cached entity.
Updatable(e) ==
  IF cache[e] = None \/ row[e] = None THEN FALSE ELSE row[e].version = cache[e].version

\* What the handler or Apply gives to Update: the object it got, changed in place and
\* without the mutex, or the one made from the file.
EditObject(c) ==
  LET e == req[c].entity
      x == [req[c].read EXCEPT !.write = writes + 1] IN
  /\ req[c].at = "edit" /\ ~req[c].apply
  /\ writes < MaxWrites
  /\ cache' = ShownCache(e, x)
  /\ req' = [Shown(e, x) EXCEPT ![c].at = "update"]
  /\ writes' = writes + 1
  /\ UNCHANGED <<row, indexed, bound, lock>>
NewObject(c) ==
  LET e == req[c].entity IN
  /\ req[c].at = "edit" /\ req[c].apply
  /\ MayWrite(c) /\ Unused(e) # {}
  /\ req' = [req EXCEPT ![c].at = "update",
                        ![c].read = [obj |-> New(e), version |-> @.version, write |-> writes + 1]]
  /\ writes' = writes + 1
  /\ UNCHANGED <<row, cache, indexed, bound, lock>>

\* Update that writes the row and leaves the map of the manager alone.
UpdateRowOnly(e, x) == row' = [row EXCEPT ![e] = Content(x)] /\ UNCHANGED cache
\* The row and the map hold x.
Update(e, x) == row' = [row EXCEPT ![e] = Content(x)] /\ cache' = [cache EXCEPT ![e] = x]

\* The object takes the version of the cached one, and the next when the row is written.
\* An entity that is gone or was changed in the store is an error; the object stays changed.
UpdateEntity(c) ==
  LET e == req[c].entity
      x == [req[c].read EXCEPT !.version = cache[e].version + 1] IN
  /\ req[c].at = "update"
  /\ Free(e)
  /\ \/ Updatable(e) /\ Update(e, x) /\ req' = [Shown(e, x) EXCEPT ![c] = Ended(c, TRUE)]
     \/ ~Updatable(e) /\ UNCHANGED <<row, cache>> /\ Fail(c)
  /\ UNCHANGED <<indexed, bound, lock, writes>>

\* SetLabels changes the cached target and then the row, under the mutex; after that the
\* target is got for the reply.  With a conflict or a failing statement the cached target
\* keeps the labels.
SetLabels(c) ==
  LET x == [cache[Target] EXCEPT !.write = writes + 1]
      y == [x EXCEPT !.version = @ + 1] IN
  /\ Bound(c)
  /\ Free(Target)
  /\ cache[Target] # None /\ MayWrite(c)
  /\ \/ /\ Updatable(Target)
        /\ Update(Target, y)
        /\ req' = [Shown(Target, y) EXCEPT ![c] = [NoRequest EXCEPT !.at = "lookup", !.entity = Target]]
     \/ /\ cache' = ShownCache(Target, x)
        /\ req' = Shown(Target, x)
        /\ UNCHANGED row
  /\ writes' = writes + 1
  /\ UNCHANGED <<indexed, bound, lock>>
-----------------------------------------------------------------------------
(* The configuration file. *)

\* watchLoop: the file has changed and could be loaded; there is one watcher.
Watch(c) ==
  /\ Idle(c)
  /\ \A d \in Clients : ~req[d].apply
  /\ writes < MaxRequested
  /\ req' = [req EXCEPT ![c] = [NoRequest EXCEPT !.at = "apply", !.apply = TRUE]]
  /\ UNCHANGED <<row, cache, indexed, bound, lock, writes>>

\* An entity that cannot be created is got and updated; the failure may also be one of
\* the store.
ApplyEntity(c) ==
  LET e == req[c].entity IN
  /\ Free(e)
  /\ Exists(e) \/ MayWrite(c)
  /\ Create(e)
  /\ IF Exists(e) THEN req' = [req EXCEPT ![c].at = "lookup", ![c].next = "edit"] ELSE Reply(c)
  /\ UNCHANGED <<bound, lock>>
ApplyNamespace(c) == req[c].at = "apply" /\ req[c].entity = Namespace /\ ApplyEntity(c)
ApplyTarget(c) == req[c].at = "apply" /\ req[c].entity = Target /\ ApplyEntity(c)
ApplyPoller(c) == req[c].at = "apply" /\ req[c].entity = Poller /\ ApplyEntity(c)
ApplyFails(c) ==
  /\ req[c].at = "apply" /\ req[c].entity \in Managed
  /\ req' = [req EXCEPT ![c].at = "lookup", ![c].next = "edit"]
  /\ UNCHANGED <<row, cache, indexed, bound, lock, writes>>
-----------------------------------------------------------------------------
(* Deletion.  The children are counted before the deleting transaction. *)

Children(e) == CASE e = Namespace -> {Target} [] e = Target -> {Poller}
                 [] e = Dir -> Links [] OTHER -> {}
\* What the transactions of the store delete.
RemovedWithNamespace == Entity
\* The deletion of a target with the links to the target only.
RemovedWithTargetOnly == {Target, Poller, TargetLink}
RemovedWithTarget == {Target, Poller, TargetLink, PollerLink}
RemovedWithPoller == {Poller, PollerLink}
RemovedWithNode(n, all) == IF n = Dir /\ all THEN Nodes ELSE {n}
Removed(e, all) ==
  CASE e = Namespace -> RemovedWithNamespace
    [] e = Target -> RemovedWithTarget
    [] e = Poller -> RemovedWithPoller
    [] OTHER -> RemovedWithNode(e, all)

\* A manager looks its cache up under its mutex; the tree manager has nothing to look up.
\* What is recursive is also forced, and a link has nothing below it.
StartDelete(c, e, force, all) ==
  /\ e \in Managed => Free(e) /\ cache[e] # None
  /\ req' = [req EXCEPT ![c] = [NoRequest EXCEPT !.at = "count", !.entity = e,
                                                 !.force = force \/ all, !.all = all /\ e = Dir]]
  /\ lock' = [m \in Managed |-> IF m = e THEN c ELSE lock[m]]
  /\ UNCHANGED <<row, cache, indexed, bound, writes>>
DeleteNamespace(c, force) == Idle(c) /\ StartDelete(c, Namespace, force, FALSE)
DeleteTarget(c, force) == Bound(c) /\ StartDelete(c, Target, force, FALSE)
DeleteTreeNode(c, n, force, all) == Bound(c) /\ n \in Paths /\ StartDelete(c, n, force, all)

Unlock(c) == lock' = [m \in Managed |-> IF lock[m] = c THEN None ELSE lock[m]]

DeleteCount(c) ==
  LET r == req[c] IN
  /\ r.at = "count"
  /\ IF (\E x \in Children(r.entity) : row[x] # None) /\ ~r.force
     THEN Fail(c) /\ Unlock(c)
     ELSE req' = [req EXCEPT ![c].at = "remove", ![c].force = FALSE] /\ UNCHANGED lock
  /\ UNCHANGED <<row, cache, indexed, bound, writes>>

\* The tree manager drops the path from its cache afterwards, the others at once.
DeleteRemove(c) ==
  LET e == req[c].entity IN
  /\ req[c].at = "remove"
  /\ row' = [x \in Entity |-> IF x \in Removed(e, req[c].all) THEN None ELSE row[x]]
  /\ IF e \in Nodes THEN Go(c, "invalidate") /\ UNCHANGED cache
     ELSE Reply(c) /\ cache' = [cache EXCEPT ![e] = None]
  /\ Unlock(c)
  /\ UNCHANGED <<indexed, bound, writes>>

RemoveFromIndexes == indexed' = FALSE

\* One transaction, with nothing to count.
DeletePoller(c) ==
  /\ Bound(c)
  /\ Free(Poller)
  /\ cache[Poller] # None
  /\ row' = [x \in Entity |-> IF x \in RemovedWithPoller THEN None ELSE row[x]]
  /\ cache' = [cache EXCEPT ![Poller] = None]
  /\ RemoveFromIndexes
  /\ UNCHANGED <<bound, req, lock, writes>>
-----------------------------------------------------------------------------
(* The tree. *)

\* CreateTreeDirectory ignores a directory that exists.
MakeDirectory == row' = [row EXCEPT ![Dir] = Node]

\* TreeManager.CreateDirectory and CreateLink, which makes the parent directory first.
TreeCreateDirectory(c) ==
  /\ MakeDirectory
  /\ Begin(c, Dir, "invalidate")
  /\ UNCHANGED <<cache, indexed, bound, lock, writes>>
TreeCreateLink(c, l) ==
  /\ MakeDirectory
  /\ Begin(c, l, "validate")
  /\ UNCHANGED <<cache, indexed, bound, lock, writes>>

CreateDirectory(c) == Bound(c) /\ Dir \in Paths /\ TreeCreateDirectory(c)
CreateLink(c, l) == Bound(c) /\ l \in Paths /\ TreeCreateLink(c, l)

\* The directory of the configuration file; its links follow.
ApplyTreeNode(c) ==
  /\ req[c].at = "apply" /\ req[c].entity = Dir
  /\ MakeDirectory
  /\ Go(c, "invalidate")
  /\ UNCHANGED <<cache, indexed, bound, lock, writes>>

ValidateLinkRef(c) ==
  /\ req[c].at = "validate"
  /\ IF row[Referent[req[c].entity]] # None THEN Go(c, "link") ELSE Fail(c)
  /\ UNCHANGED <<row, cache, indexed, bound, lock, writes>>

InsertLink(c) ==
  LET l == req[c].entity IN
  /\ req[c].at = "link"
  /\ IF row[l] # None THEN Fail(c) /\ UNCHANGED row
     ELSE Go(c, "invalidate") /\ row' = [row EXCEPT ![l] = Node]
  /\ UNCHANGED <<cache, indexed, bound, lock, writes>>

InvalidatePath(c) ==
  /\ req[c].at = "invalidate"
  /\ cache' = [cache EXCEPT ![req[c].entity] = None]
  /\ IF req[c].all THEN Go(c, "invalidateChildren") ELSE Reply(c)
  /\ UNCHANGED <<row, indexed, bound, lock, writes>>

InvalidateChildren(c) ==
  /\ req[c].at = "invalidateChildren"
  /\ cache' = [x \in Entity |-> IF x \in Children(req[c].entity) THEN None ELSE cache[x]]
  /\ Reply(c)
  /\ UNCHANGED <<row, indexed, bound, lock, writes>>
-----------------------------------------------------------------------------
\* A statement of the store fails: the handler returns the error.
StoreError(c) ==
  /\ req[c].at \in {"read", "update", "create", "count", "remove", "validate", "link"}
  /\ Fail(c)
  /\ Unlock(c)
  /\ UNCHANGED <<row, cache, indexed, bound, writes>>

\* The process ends and starts again.
Restart ==
  /\ cache' = Load(row)
  /\ indexed' = (Load(row)[Poller] # None)
  /\ bound' = FALSE
  /\ req' = [c \in Clients |-> NoRequest]
  /\ lock' = [m \in Managed |-> None]
  /\ UNCHANGED <<row, writes>>

GetStep(c) == GetLookup(c) \/ GetRead(c) \/ GetInsert(c)
ChangeStep(c) ==
  Bind(c) \/ PollerCreated(c) \/ EditObject(c) \/ NewObject(c) \/ UpdateEntity(c)
DeleteStep(c) == DeleteCount(c) \/ DeleteRemove(c)
TreeStep(c) == ValidateLinkRef(c) \/ InsertLink(c) \/ InvalidatePath(c) \/ InvalidateChildren(c)
ApplyStep(c) ==
  ApplyNamespace(c) \/ ApplyTarget(c) \/ ApplyPoller(c) \/ ApplyFails(c) \/ ApplyTreeNode(c)
Step(c) == GetStep(c) \/ ChangeStep(c) \/ DeleteStep(c) \/ TreeStep(c) \/ ApplyStep(c)
GetRequest(c) ==
  \/ GetNamespace(c) \/ UpdateNamespace(c) \/ BindNamespace(c)
  \/ GetTarget(c) \/ UpdateTarget(c) \/ GetPoller(c) \/ UpdatePoller(c) \/ CreatePoller(c)
  \/ BrowseTarget(c) \/ BrowsePoller(c)
  \/ \E l \in Links : BrowseTree(c, l)
  \/ \E n \in Nodes : ResolvePath(c, n)
ChangeRequest(c) ==
  \/ CreateNamespace(c) \/ CreateTarget(c) \/ SetLabels(c) \/ DeletePoller(c) \/ CreateDirectory(c)
  \/ \E force \in BOOLEAN : DeleteNamespace(c, force) \/ DeleteTarget(c, force)
  \/ \E n \in Nodes, force, all \in BOOLEAN : DeleteTreeNode(c, n, force, all)
  \/ \E l \in Links : CreateLink(c, l)
  \/ Watch(c)
Start(c) == GetRequest(c) \/ ChangeRequest(c)

Next == (\E c \in Clients : Start(c) \/ Step(c) \/ StoreError(c)) \/ Restart
Spec == Init /\ [][Next]_vars
-----------------------------------------------------------------------------
(* Properties. *)

\* Whatever is stored is listed: the lists of namespaces and of pollers come from
\* the caches, and a row that the cache or the index lacks would be polled, counted
\* and kept in the store while no client sees it.  (Targets are not included: Load
\* skips a target whose namespace was deleted.)
StoredIsListed ==
  /\ \A e \in {Namespace, Poller} : row[e] # None => e \in ListNamespaces \cup ListPollers
  /\ indexed => cache[Poller] # None

\* A reference is broken when its holder is stored and what it names is not.
Refers == {<<Target, Namespace>>, <<Poller, Target>>, <<TargetLink, Target>>, <<PollerLink, Poller>>}
Broken(r) == row[r[1]] # None /\ row[r[2]] = None
\* A deletion takes everything with it that refers to what it deletes: a reference
\* is only ever broken by the insertion of its holder (after a check that is out of
\* date, or with none at all).
OrphansAreInserted ==
  [][\A r \in Refers : Broken(r)' /\ ~Broken(r) => row[r[1]] = None]_vars

\* The cached entity is the stored one.
Agrees(e) == cache[e] # None => Content(cache[e]) = row[e]
\* The cached object changes, and neither its version nor the row does.
ChangedInPlace(e) ==
  /\ cache[e] # None /\ cache[e]' # None
  /\ cache[e].obj' = cache[e].obj /\ cache[e].version' = cache[e].version
  /\ row[e]' = row[e]
\* The only ways for the cache of a manager to disagree with the store: a Get that
\* missed inserts what it had read before the row changed; the namespace or the
\* target is deleted with what it contains, of which the managers of the contents
\* are not told; or a handler or SetLabels changes the cached object before the
\* statement that may fail.  However they disagree, the next INSERT or UPDATE of
\* the row makes the cache what is stored.
CacheLeftBehind ==
  [][\A e \in Managed :
       /\ Agrees(e) /\ ~Agrees(e)' =>
            \/ \E c \in Clients :
                 \/ req[c].at = "insert" /\ req[c].entity = e /\ Content(req[c].read) # row[e]
                 \/ req[c].at = "remove" /\ e \in Removed(req[c].entity, FALSE) \ {req[c].entity}
            \/ ChangedInPlace(e)
       /\ row[e]' \notin {row[e], None} => Agrees(e)']_vars
=============================================================================
