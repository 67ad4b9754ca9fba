--------------------------- MODULE EntitiesProofs ---------------------------
(***************************************************************************)
(* Proofs about Entities, for any number of clients and writes and every   *)
(* set of paths: the types, that what is stored is listed, that a deletion *)
(* leaves no dangling reference, and the only three ways in which a cache  *)
(* and the store come to disagree.                                         *)
(***************************************************************************)
EXTENDS Entities, TLAPS

\* The parts of the assumption on the constants.
LEMMA Bounds == MaxWrites \in Nat /\ MaxRequested \in 0 .. MaxWrites
  BY EntitiesAssumption
LEMMA NoneIsNoRow == None \notin Rows /\ None \notin Objs
  BY EntitiesAssumption DEF Rows, Objs
\* A start has an address for its objects, and so has an allocation that may go on.
LEMMA HomeType == Home \in Objects
<1>1. Objects # {}
  BY EntitiesAssumption
<1> QED
  BY <1>1 DEF Home
LEMMA NewType ==
  ASSUME NEW e, Unused(e) # {}
  PROVE  New(e) \in Objects
<1>1. New(e) \in Unused(e)
  BY DEF New
<1> QED
  BY <1>1, HomeType DEF Unused
LEMMA PlacedType ==
  ASSUME NEW o \in Objects, NEW r \in Rows
  PROVE  Placed(o, r) \in Objs /\ Content(Placed(o, r)) = r
  BY DEF Placed, Objs, Content, Rows
LEMMA ContentType ==
  ASSUME NEW x \in Objs
  PROVE  Content(x) \in Rows
  BY DEF Content, Objs, Rows

Steps ==
  {"idle", "apply", "lookup", "read", "insert", "edit", "update", "create", "bind", "count",
   "remove", "validate", "link", "invalidate", "invalidateChildren"}
Nexts == {"reply", "edit", "create", "bind"}
Request ==
  [at : Steps, entity : Entity, next : Nexts, read : Objs \cup {None}, all : BOOLEAN,
   force : BOOLEAN, apply : BOOLEAN]

\* The steps in which a request holds an object.
Holding == {"insert", "edit", "update"}
\* What a request works on at each of its steps: deletions in steps are not those of
\* pollers, links are validated and inserted, and only the tree manager invalidates.
Sound(r) ==
  /\ r.at \in {"count", "remove"} => r.entity # Poller
  /\ r.at \in {"validate", "link"} => r.entity \in Links
  /\ r.at \in {"invalidate", "invalidateChildren"} => r.entity \in Nodes
  /\ r.at \in Holding => r.read # None

ReqOK == req \in [Clients -> Request] /\ \A c \in Clients : Sound(req[c])

-----------------------------------------------------------------------------
(* Requests. *)

LEMMA Changed ==
  ASSUME ReqOK, NEW c \in Clients, NEW x \in Request, Sound(x), req' = [req EXCEPT ![c] = x]
  PROVE  ReqOK'
  BY DEF ReqOK

LEMMA Names ==
  /\ Namespace \in Managed /\ Target \in Managed /\ Poller \in Managed
  /\ Dir \in Nodes /\ Links \subseteq Nodes /\ Managed \cap Nodes = {}
  /\ Managed \subseteq Entity /\ Nodes \subseteq Entity
  /\ TargetLink \in Links /\ PollerLink \in Links
  /\ Namespace # Target /\ Namespace # Poller /\ Target # Poller
  BY DEF Namespace, Target, Poller, Dir, TargetLink, PollerLink, Managed, Nodes, Links, Entity

LEMMA NoRequestOK == NoRequest \in Request /\ Sound(NoRequest)
  BY Names DEF NoRequest, Request, Sound, Holding, Steps, Nexts

\* A request that is begun, with the fields it is begun with.
LEMMA BegunOK ==
  ASSUME NEW s \in Steps, NEW e \in Entity,
         s \notin Holding,
         s \in {"count", "remove"} => e # Poller,
         s \in {"validate", "link"} => e \in Links,
         s \in {"invalidate", "invalidateChildren"} => e \in Nodes
  PROVE  /\ [NoRequest EXCEPT !.at = s, !.entity = e] \in Request
         /\ Sound([NoRequest EXCEPT !.at = s, !.entity = e])
  BY NoRequestOK DEF Request, Sound

LEMMA BegunApplyOK ==
  ASSUME NEW s \in Steps, NEW e \in Entity, NEW a \in BOOLEAN,
         s \notin Holding,
         s \in {"count", "remove"} => e # Poller,
         s \in {"validate", "link"} => e \in Links,
         s \in {"invalidate", "invalidateChildren"} => e \in Nodes
  PROVE  /\ [NoRequest EXCEPT !.at = s, !.entity = e, !.apply = a] \in Request
         /\ Sound([NoRequest EXCEPT !.at = s, !.entity = e, !.apply = a])
  BY NoRequestOK DEF Request, Sound

LEMMA BegunGetOK ==
  ASSUME NEW s \in Steps, NEW e \in Entity, NEW n \in Nexts, NEW a \in BOOLEAN,
         s \notin Holding,
         s \in {"count", "remove"} => e # Poller,
         s \in {"validate", "link"} => e \in Links,
         s \in {"invalidate", "invalidateChildren"} => e \in Nodes
  PROVE  /\ [NoRequest EXCEPT !.at = s, !.entity = e, !.next = n, !.apply = a] \in Request
         /\ Sound([NoRequest EXCEPT !.at = s, !.entity = e, !.next = n, !.apply = a])
  BY NoRequestOK DEF Request, Sound

LEMMA BegunDeleteOK ==
  ASSUME NEW s \in Steps, NEW e \in Entity, NEW force \in BOOLEAN,
         NEW all \in BOOLEAN,
         s \notin Holding,
         s \in {"count", "remove"} => e # Poller,
         s \in {"validate", "link"} => e \in Links,
         s \in {"invalidate", "invalidateChildren"} => e \in Nodes
  PROVE  /\ [NoRequest EXCEPT !.at = s, !.entity = e, !.force = force, !.all = all] \in Request
         /\ Sound([NoRequest EXCEPT !.at = s, !.entity = e, !.force = force, !.all = all])
  BY NoRequestOK DEF Request, Sound

LEMMA ApplyNextType ==
  ASSUME NEW e \in Entity, NEW ok \in BOOLEAN, ApplyNext(e, ok) # None
  PROVE  ApplyNext(e, ok) \in Entity
  BY Names DEF ApplyNext

LEMMA EndedOK ==
  ASSUME ReqOK, NEW c \in Clients, NEW ok \in BOOLEAN
  PROVE  Ended(c, ok) \in Request /\ Sound(Ended(c, ok))
<1> DEFINE next == ApplyNext(req[c].entity, ok)
           step == IF next \in Links THEN "validate" ELSE "apply"
<1>1. next # None => next \in Entity
  BY ApplyNextType DEF ReqOK, Request
<1>2. Ended(c, ok) = IF ~req[c].apply \/ next = None THEN NoRequest
                     ELSE [NoRequest EXCEPT !.at = step, !.entity = next, !.apply = TRUE]
  BY DEF Ended
<1> HIDE DEF next
<1>3. CASE ~req[c].apply \/ next = None
  BY <1>2, <1>3, NoRequestOK
<1>4. CASE ~(~req[c].apply \/ next = None)
  <2>1. step \in Steps /\ next \in Entity
    BY <1>1, <1>4 DEF Steps
  <2>2. step \in {"validate", "apply"} /\ (step = "validate" => next \in Links)
    OBVIOUS
  <2> HIDE DEF step
  <2>3. /\ step \notin Holding /\ step \notin {"count", "remove"}
        /\ step \in {"validate", "link"} => next \in Links
        /\ step \notin {"invalidate", "invalidateChildren"}
    BY <2>2 DEF Holding
  <2>4. /\ [NoRequest EXCEPT !.at = step, !.entity = next, !.apply = TRUE] \in Request
        /\ Sound([NoRequest EXCEPT !.at = step, !.entity = next, !.apply = TRUE])
    BY <2>1, <2>3, BegunApplyOK
  <2> QED
    BY <1>2, <1>4, <2>4
<1> QED
  BY <1>3, <1>4

LEMMA DoneKeeps ==
  ASSUME ReqOK, NEW c \in Clients, NEW ok \in BOOLEAN, Done(c, ok)
  PROVE  ReqOK'
<1>1. PICK x : x = Ended(c, ok)
  OBVIOUS
<1> QED
  BY <1>1, EndedOK, Changed DEF Done

\* A change of an object that requests hold.
LEMMA ShownOK ==
  ASSUME ReqOK, NEW e, NEW x \in Objs
  PROVE  /\ Shown(e, x) \in [Clients -> Request]
         /\ \A d \in Clients : /\ Sound(Shown(e, x)[d])
                               /\ Shown(e, x)[d].at = req[d].at
                               /\ Shown(e, x)[d].entity = req[d].entity
<1> SUFFICES ASSUME NEW d \in Clients
             PROVE  /\ Shown(e, x)[d] \in Request /\ Sound(Shown(e, x)[d])
                    /\ Shown(e, x)[d].at = req[d].at /\ Shown(e, x)[d].entity = req[d].entity
  BY DEF Shown
<1>1. req[d] \in Request /\ Sound(req[d]) /\ x # None
  BY NoneIsNoRow DEF ReqOK
<1>2. Shown(e, x)[d] \in {req[d], [req[d] EXCEPT !.read = x]}
  BY DEF Shown
<1>3. /\ [req[d] EXCEPT !.read = x] \in Request /\ Sound([req[d] EXCEPT !.read = x])
      /\ [req[d] EXCEPT !.read = x].at = req[d].at
      /\ [req[d] EXCEPT !.read = x].entity = req[d].entity
  BY <1>1 DEF Request, Sound
<1> QED
  BY <1>1, <1>2, <1>3

LEMMA ShownChanged ==
  ASSUME ReqOK, NEW c \in Clients, NEW e, NEW x \in Objs, NEW y \in Request, Sound(y),
         req' = [Shown(e, x) EXCEPT ![c] = y]
  PROVE  ReqOK'
<1>1. PICK f : f = Shown(e, x)
  OBVIOUS
<1>2. f \in [Clients -> Request] /\ \A d \in Clients : Sound(f[d])
  BY <1>1, ShownOK
<1> QED
  BY <1>1, <1>2 DEF ReqOK

LEMMA GoKeeps ==
  ASSUME ReqOK, NEW c \in Clients, NEW s \in Steps, Go(c, s), s \notin Holding,
         s \in {"count", "remove"} => req[c].entity # Poller,
         s \in {"validate", "link"} => req[c].entity \in Links,
         s \in {"invalidate", "invalidateChildren"} => req[c].entity \in Nodes
  PROVE  ReqOK'
<1> DEFINE x == [req[c] EXCEPT !.at = s]
<1>1. req' = [req EXCEPT ![c] = x]
  BY DEF Go
<1>2. x \in Request /\ Sound(x)
  BY DEF ReqOK, Request, Sound
<1> HIDE DEF x
<1> QED
  BY <1>1, <1>2, Changed

LEMMA LookupKeeps ==
  ASSUME ReqOK, cache \in [Entity -> Objs \cup {None}],
         NEW c \in Clients, NEW e \in Entity, NEW s \in Nexts, Lookup(c, e, s)
  PROVE  ReqOK'
<1> DEFINE miss == [NoRequest EXCEPT !.at = "read", !.entity = e, !.next = s, !.apply = req[c].apply]
           hit == [NoRequest EXCEPT !.at = s, !.entity = e, !.apply = req[c].apply,
                                    !.read = IF s = "edit" THEN cache[e] ELSE None]
<1>0. req[c].apply \in BOOLEAN /\ NoRequest \in Request
  BY NoRequestOK DEF ReqOK, Request
<1>1. miss \in Request /\ Sound(miss)
  <2>1. "read" \in Steps /\ "read" \notin Holding
    BY DEF Steps, Holding
  <2> QED
    BY <1>0, <2>1, BegunGetOK
<1>2. ASSUME s # "reply", cache[e] # None PROVE hit \in Request /\ Sound(hit)
  <2>1. s \in {"edit", "create", "bind"} /\ s \in Steps /\ cache[e] \in Objs
    BY <1>2 DEF Nexts, Steps
  <2>2. hit \in Request /\ hit.at = s /\ (s = "edit" => hit.read = cache[e])
    BY <1>0, <2>1 DEF Request
  <2> HIDE DEF hit
  <2> QED
    BY <1>2, <2>1, <2>2 DEF Sound, Holding
<1>3. \/ req' = [req EXCEPT ![c] = miss]
      \/ req' = [req EXCEPT ![c] = NoRequest]
      \/ s # "reply" /\ cache[e] # None /\ req' = [req EXCEPT ![c] = hit]
  BY DEF Lookup
<1> HIDE DEF miss, hit
<1> QED
  BY <1>1, <1>2, <1>3, NoRequestOK, Changed

LEMMA ContinueKeeps ==
  ASSUME ReqOK, NEW c \in Clients, req[c].read # None, Continue(c)
  PROVE  ReqOK'
<1>1. CASE req[c].next = "reply"
  BY <1>1, DoneKeeps DEF Continue, Reply
<1>2. CASE req[c].next # "reply"
  <2> DEFINE x == [req[c] EXCEPT !.at = req[c].next, !.next = "reply",
                                 !.read = IF req[c].next = "edit" THEN req[c].read ELSE None]
  <2>1. req' = [req EXCEPT ![c] = x]
    BY <1>2 DEF Continue
  <2>2. req[c] \in Request /\ req[c].next \in {"edit", "create", "bind"}
    BY <1>2 DEF ReqOK, Request, Nexts
  <2>3. x \in Request
    BY <2>2 DEF Request, Nexts, Steps
  <2>4. x.at \in {"edit", "create", "bind"} /\ (x.at = "edit" => x.read # None)
    BY <2>2 DEF Request
  <2>5. Sound(x)
    BY <2>4 DEF Sound, Holding
  <2> HIDE DEF x
  <2> QED
    BY <2>1, <2>3, <2>5, Changed
<1> QED
  BY <1>1, <1>2

LEMMA BeginKeeps ==
  ASSUME ReqOK, NEW c \in Clients, NEW e \in Entity, NEW s \in Steps, Begin(c, e, s), s \notin Holding,
         s \in {"count", "remove"} => e # Poller,
         s \in {"validate", "link"} => e \in Links,
         s \in {"invalidate", "invalidateChildren"} => e \in Nodes
  PROVE  ReqOK'
<1> DEFINE x == [NoRequest EXCEPT !.at = s, !.entity = e]
<1>1. x \in Request /\ Sound(x)
  BY BegunOK
<1>2. req' = [req EXCEPT ![c] = x]
  BY DEF Begin
<1> HIDE DEF x
<1> QED
  BY <1>1, <1>2, Changed

\* Every request that begins with a Get is a lookup.
LEMMA GetRequestIsLookup ==
  ASSUME NEW c \in Clients, GetRequest(c)
  PROVE  \E e \in Entity, s \in Nexts : Lookup(c, e, s)
<1>1. /\ Namespace \in Entity /\ Target \in Entity /\ Poller \in Entity
      /\ \A l \in Links : Referent[l] \in Entity
      /\ Nodes \subseteq Entity
  BY Names DEF Referent
<1>2. "reply" \in Nexts /\ "edit" \in Nexts /\ "bind" \in Nexts /\ "create" \in Nexts
  BY DEF Nexts
<1> QED
  BY <1>1, <1>2 DEF GetRequest, GetNamespace, UpdateNamespace, BindNamespace, GetTarget, UpdateTarget,
     GetPoller, UpdatePoller, CreatePoller, BrowseTarget, BrowsePoller, BrowseTree, ResolvePath

LEMMA StartDeleteKeeps ==
  ASSUME ReqOK, NEW c \in Clients, NEW e \in Entity \ {Poller}, NEW force \in BOOLEAN,
         NEW all \in BOOLEAN, StartDelete(c, e, force, all)
  PROVE  ReqOK'
<1> DEFINE x == [NoRequest EXCEPT !.at = "count", !.entity = e, !.force = force \/ all,
                                  !.all = all /\ e = Dir]
<1>1. x \in Request /\ Sound(x)
  <2>1. "count" \in Steps /\ "count" \notin Holding
    BY DEF Steps, Holding
  <2>2. (force \/ all) \in BOOLEAN /\ (all /\ e = Dir) \in BOOLEAN
    OBVIOUS
  <2> QED
    BY <2>1, <2>2, BegunDeleteOK
<1>2. req' = [req EXCEPT ![c] = x]
  BY DEF StartDelete
<1> HIDE DEF x
<1> QED
  BY <1>1, <1>2, Changed

LEMMA StepKeepsRequests ==
  ASSUME ReqOK, row \in [Entity -> Rows \cup {None}], cache \in [Entity -> Objs \cup {None}],
         writes \in Nat, NEW c \in Clients, Step(c)
  PROVE  ReqOK'
<1>0. req[c] \in Request /\ Sound(req[c]) /\ req[c].entity \in Entity /\ req[c].next \in Nexts
  BY DEF ReqOK, Request
<1> USE <1>0
<1>1. CASE GetLookup(c)
  BY <1>1, LookupKeeps DEF GetLookup
<1>2. CASE GetRead(c)
  <2>1. CASE row[req[c].entity] = None
    BY <1>2, <2>1, DoneKeeps DEF GetRead, Fail
  <2>2. CASE row[req[c].entity] # None /\ row[req[c].entity] \in Rows
    <3>0. PICK y : /\ y = Placed(New(req[c].entity), row[req[c].entity])
                   /\ req' = [req EXCEPT ![c].at = "insert", ![c].read = y]
      BY <1>2, <2>2 DEF GetRead
    <3>4. y \in Objs /\ y # None
      BY <1>2, <2>2, <3>0, NewType, PlacedType, NoneIsNoRow DEF GetRead
    <3> DEFINE x == [req[c] EXCEPT !.at = "insert", !.read = y]
    <3>1. req' = [req EXCEPT ![c] = x]
      BY <3>0 DEF ReqOK
    <3>2. x \in Request /\ x.at = "insert" /\ x.read # None
      BY <3>4 DEF Request, Steps
    <3>3. Sound(x)
      BY <3>2 DEF Sound, Holding
    <3> HIDE DEF x
    <3> QED
      BY <3>1, <3>2, <3>3, Changed
  <2> QED
    BY <2>1, <2>2
<1>3. CASE GetInsert(c)
  BY <1>3, ContinueKeeps DEF GetInsert, Sound, Holding
<1>4. CASE Bind(c) \/ PollerCreated(c)
  BY <1>4, DoneKeeps DEF Bind, PollerCreated, Reply
<1>5. CASE UpdateEntity(c)
  <2>1. CASE ~Updatable(req[c].entity)
    BY <1>5, <2>1, DoneKeeps DEF UpdateEntity, Fail
  <2>2. CASE Updatable(req[c].entity)
    <3>1. PICK x : /\ x = [req[c].read EXCEPT !.version = cache[req[c].entity].version + 1]
                   /\ req' = [Shown(req[c].entity, x) EXCEPT ![c] = Ended(c, TRUE)]
      BY <1>5, <2>2 DEF UpdateEntity
    <3>2. x \in Objs
      <4>1. cache[req[c].entity] \in Objs /\ req[c].read \in Objs
        BY <1>5, <2>2 DEF UpdateEntity, Updatable, Sound, Holding, Request
      <4> QED
        BY <3>1, <4>1 DEF Objs
    <3>3. PICK y : y = Ended(c, TRUE)
      OBVIOUS
    <3> QED
      BY <3>1, <3>2, <3>3, EndedOK, ShownChanged
  <2> QED
    BY <2>1, <2>2
<1>13. CASE EditObject(c)
  <2>1. PICK x : /\ x = [req[c].read EXCEPT !.write = writes + 1]
                 /\ req' = [Shown(req[c].entity, x) EXCEPT ![c].at = "update"]
    BY <1>13 DEF EditObject
  <2>2. req[c].at = "edit" /\ req[c].read \in Objs
    BY <1>13 DEF EditObject, Sound, Holding, Request
  <2>3. x \in Objs
    BY <2>1, <2>2 DEF Objs
  <2>4. PICK f : f = Shown(req[c].entity, x)
    OBVIOUS
  <2>5. f \in [Clients -> Request] /\ Sound(f[c]) /\ f[c].at = "edit"
    BY <2>2, <2>3, <2>4, ShownOK
  <2> DEFINE y == [f[c] EXCEPT !.at = "update"]
  <2>6. y \in Request /\ Sound(y)
    BY <2>5 DEF Request, Steps, Sound, Holding
  <2>7. req' = [f EXCEPT ![c] = y]
    BY <2>1, <2>4, <2>5
  <2> HIDE DEF y
  <2> QED
    BY <2>3, <2>4, <2>6, <2>7, ShownChanged
<1>14. CASE NewObject(c)
  <2>1. PICK o : /\ o = New(req[c].entity)
                 /\ req' = [req EXCEPT ![c].at = "update",
                                       ![c].read = [obj |-> o, version |-> @.version,
                                                    write |-> writes + 1]]
    BY <1>14 DEF NewObject
  <2>2. o \in Objects /\ req[c].at = "edit" /\ req[c].read \in Objs
    BY <1>14, <2>1, NewType DEF NewObject, Sound, Holding, Request
  <2> DEFINE z == [obj |-> o, version |-> req[c].read.version, write |-> writes + 1]
             y == [req[c] EXCEPT !.at = "update", !.read = z]
  <2>3. z \in Objs
    BY <2>2 DEF Objs
  <2>4. z # None
    BY <2>3, NoneIsNoRow
  <2>5. req' = [req EXCEPT ![c] = y]
    BY <2>1 DEF ReqOK
  <2> HIDE DEF z
  <2>6. y \in Request /\ Sound(y)
    BY <2>2, <2>3, <2>4 DEF Request, Steps, Sound, Holding
  <2> HIDE DEF y
  <2> QED
    BY <2>5, <2>6, Changed
<1>6. CASE DeleteCount(c)
  <2>1. CASE Fail(c)
    BY <2>1, DoneKeeps DEF Fail
  <2>2. CASE req' = [req EXCEPT ![c].at = "remove", ![c].force = FALSE]
    <3> DEFINE x == [req[c] EXCEPT !.at = "remove", !.force = FALSE]
    <3>1. req' = [req EXCEPT ![c] = x]
      BY <2>2 DEF ReqOK
    <3>2. x \in Request /\ x.at = "remove" /\ x.entity = req[c].entity
      BY DEF Request, Steps
    <3>3. Sound(x)
      BY <1>6, <3>2 DEF Sound, Holding, DeleteCount, Nodes, Poller
    <3> HIDE DEF x
    <3> QED
      BY <3>1, <3>2, <3>3, Changed
  <2> QED
    BY <1>6, <2>1, <2>2 DEF DeleteCount
<1>7. CASE DeleteRemove(c)
  <2>1. CASE req[c].entity \in Nodes
    BY <1>7, <2>1, GoKeeps DEF DeleteRemove, Steps, Holding
  <2>2. CASE req[c].entity \notin Nodes
    BY <1>7, <2>2, DoneKeeps DEF DeleteRemove, Reply
  <2> QED
    BY <2>1, <2>2
<1>8. CASE ValidateLinkRef(c)
  <2>1. req[c].entity \in Links
    BY <1>8 DEF ValidateLinkRef, Sound
  <2>2. Go(c, "link") \/ Done(c, FALSE)
    BY <1>8 DEF ValidateLinkRef, Fail
  <2> QED
    BY <2>1, <2>2, GoKeeps, DoneKeeps DEF Steps, Holding
<1>9. CASE InsertLink(c)
  <2>1. req[c].entity \in Nodes
    BY <1>9, Names DEF InsertLink, Sound
  <2>2. Go(c, "invalidate") \/ Done(c, FALSE)
    BY <1>9 DEF InsertLink, Fail
  <2> QED
    BY <2>1, <2>2, GoKeeps, DoneKeeps DEF Steps, Holding
<1>10. CASE InvalidatePath(c) \/ InvalidateChildren(c)
  <2>1. req[c].entity \in Nodes
    BY <1>10 DEF InvalidatePath, InvalidateChildren, Sound
  <2>2. Go(c, "invalidateChildren") \/ Done(c, TRUE)
    BY <1>10 DEF InvalidatePath, InvalidateChildren, Reply
  <2> QED
    BY <2>1, <2>2, GoKeeps, DoneKeeps DEF Steps, Holding
<1>11. CASE ApplyTreeNode(c)
  BY <1>11, GoKeeps, Names DEF ApplyTreeNode, Steps, Holding
<1>12. CASE ApplyNamespace(c) \/ ApplyTarget(c) \/ ApplyPoller(c) \/ ApplyFails(c)
  <2>1. CASE Done(c, TRUE)
    BY <2>1, DoneKeeps
  <2>2. CASE req' = [req EXCEPT ![c].at = "lookup", ![c].next = "edit"]
    <3> DEFINE x == [req[c] EXCEPT !.at = "lookup", !.next = "edit"]
    <3>1. req' = [req EXCEPT ![c] = x]
      BY <2>2 DEF ReqOK
    <3>2. x \in Request /\ x.at = "lookup"
      BY DEF Request, Steps, Nexts
    <3>3. Sound(x)
      BY <3>2 DEF Sound, Holding
    <3> HIDE DEF x
    <3> QED
      BY <3>1, <3>2, <3>3, Changed
  <2> QED
    BY <1>12, <2>1, <2>2
       DEF ApplyNamespace, ApplyTarget, ApplyPoller, ApplyFails, ApplyEntity, Reply
<1> QED
  BY <1>1, <1>2, <1>3, <1>4, <1>5, <1>6, <1>7, <1>8, <1>9, <1>10, <1>11, <1>12, <1>13, <1>14
     DEF Step, GetStep, ChangeStep, DeleteStep, TreeStep, ApplyStep

LEMMA ChangeRequestKeepsRequests ==
  ASSUME ReqOK, cache \in [Entity -> Objs \cup {None}], writes \in Nat, NEW c \in Clients, ChangeRequest(c)
  PROVE  ReqOK'
<1>1. CASE CreateNamespace(c) \/ CreateTarget(c) \/ DeletePoller(c)
  BY <1>1 DEF CreateNamespace, CreateTarget, DeletePoller, ReqOK
<1>2. CASE SetLabels(c)
  <2> DEFINE x == [cache[Target] EXCEPT !.write = writes + 1]
             y == [x EXCEPT !.version = @ + 1]
             z == [NoRequest EXCEPT !.at = "lookup", !.entity = Target]
  <2>1. cache[Target] \in Objs
    BY <1>2, Names DEF SetLabels
  <2>2. x \in Objs /\ y \in Objs
    <3>1. x \in Objs
      BY <2>1 DEF Objs
    <3> HIDE DEF x
    <3> QED
      BY <3>1 DEF Objs
  <2>3. z \in Request /\ Sound(z)
    BY Names, BegunOK DEF Steps, Holding
  <2>4. req' = [Shown(Target, y) EXCEPT ![c] = z] \/ req' = Shown(Target, x)
    BY <1>2 DEF SetLabels
  <2> HIDE DEF x, y, z
  <2>5. CASE req' = Shown(Target, x)
    <3>1. PICK f : f = Shown(Target, x)
      OBVIOUS
    <3>2. f \in [Clients -> Request] /\ \A d \in Clients : Sound(f[d])
      BY <2>2, <3>1, ShownOK
    <3> QED
      BY <2>5, <3>1, <3>2 DEF ReqOK
  <2> QED
    BY <2>2, <2>3, <2>4, <2>5, ShownChanged
<1>3. CASE CreateDirectory(c)
  <2>1. Begin(c, Dir, "invalidate") /\ Dir \in Entity /\ Dir \in Nodes /\ "invalidate" \in Steps \ Holding
    BY <1>3, Names DEF CreateDirectory, TreeCreateDirectory, Steps, Holding
  <2> QED
    BY <2>1, BeginKeeps
<1>4. ASSUME NEW l \in Links, CreateLink(c, l) PROVE ReqOK'
  <2>1. Begin(c, l, "validate") /\ l \in Entity /\ "validate" \in Steps \ Holding
    BY <1>4, Names DEF CreateLink, TreeCreateLink, Steps, Holding
  <2> QED
    BY <2>1, BeginKeeps
<1>5. ASSUME NEW force \in BOOLEAN, DeleteNamespace(c, force) \/ DeleteTarget(c, force) PROVE ReqOK'
  <2>1. PICK e \in {Namespace, Target} : StartDelete(c, e, force, FALSE)
    BY <1>5 DEF DeleteNamespace, DeleteTarget
  <2>2. e \in Entity \ {Poller}
    BY Names
  <2> QED
    BY <2>1, <2>2, StartDeleteKeeps
<1>6. ASSUME NEW n \in Nodes, NEW force \in BOOLEAN, NEW all \in BOOLEAN,
             DeleteTreeNode(c, n, force, all)
      PROVE  ReqOK'
  <2>1. n \in Entity \ {Poller}
    BY Names
  <2>2. StartDelete(c, n, force, all)
    BY <1>6 DEF DeleteTreeNode
  <2> QED
    BY <2>1, <2>2, StartDeleteKeeps
<1>7. CASE Watch(c)
  <2> DEFINE x == [NoRequest EXCEPT !.at = "apply", !.apply = TRUE]
  <2>1. req' = [req EXCEPT ![c] = x]
    BY <1>7 DEF Watch
  <2>2. x \in Request /\ Sound(x)
    BY NoRequestOK DEF Request, Sound, Holding, Steps
  <2> HIDE DEF x
  <2> QED
    BY <2>1, <2>2, Changed
<1> QED
  BY <1>1, <1>2, <1>3, <1>4, <1>5, <1>6, <1>7 DEF ChangeRequest

LEMMA RequestsKept ==
  ASSUME ReqOK, row \in [Entity -> Rows \cup {None}], cache \in [Entity -> Objs \cup {None}],
         writes \in Nat, Next
  PROVE  ReqOK'
<1>1. ASSUME NEW c \in Clients, Start(c) PROVE ReqOK'
  BY <1>1, GetRequestIsLookup, LookupKeeps, ChangeRequestKeepsRequests DEF Start
<1>2. ASSUME NEW c \in Clients, Step(c) PROVE ReqOK'
  BY <1>2, StepKeepsRequests
<1>3. ASSUME NEW c \in Clients, StoreError(c) PROVE ReqOK'
  BY <1>3, DoneKeeps DEF StoreError, Fail
<1>4. CASE Restart
  BY <1>4, NoRequestOK DEF Restart, ReqOK
<1> QED
  BY <1>1, <1>2, <1>3, <1>4 DEF Next

-----------------------------------------------------------------------------
(* What a step does to the rows and the caches. *)

\* Nothing, a creation, an update, a change of the object an update will write, the end
\* of a Get, the deletions, a new node of the tree, an invalidation of nodes, or a restart.
Still == UNCHANGED <<row, cache, indexed, writes>>
Creates(e) ==
  /\ ~Exists(e) /\ writes < MaxWrites /\ row' = [row EXCEPT ![e] = Inserted]
  /\ \E o \in Objects : cache' = [cache EXCEPT ![e] = Placed(o, Inserted)]
  /\ indexed' = (indexed \/ e = Poller)
  /\ writes' = writes + 1
Updates(e) ==
  /\ Updatable(e) /\ UNCHANGED indexed
  /\ \E x \in Objs : Update(e, x)
  /\ writes' \in 0 .. MaxWrites
Edits(e) ==
  /\ writes < MaxWrites /\ writes' = writes + 1 /\ UNCHANGED <<row, indexed>>
  /\ \/ cache' = cache
     \/ cache[e] # None /\ cache' = [cache EXCEPT ![e] = [@ EXCEPT !.write = writes + 1]]
AddsNode(n) == row' = [row EXCEPT ![n] = Node] /\ UNCHANGED <<cache, indexed, writes>>
Invalidates(nodes) ==
  /\ cache' = [x \in Entity |-> IF x \in nodes THEN None ELSE cache[x]]
  /\ UNCHANGED <<row, indexed, writes>>
Effect ==
  \/ Still
  \/ \E e \in Managed : Creates(e)
  \/ \E e \in Entity : Updates(e) \/ Edits(e)
  \/ \E c \in Clients : GetInsert(c) \/ DeleteRemove(c) \/ DeletePoller(c)
  \/ \E n \in Nodes : AddsNode(n)
  \/ \E nodes \in SUBSET Nodes : Invalidates(nodes)
  \/ Restart

LEMMA MayWriteBound ==
  ASSUME NEW c \in Clients, MayWrite(c), writes \in 0 .. MaxWrites
  PROVE  writes < MaxWrites
  BY Bounds DEF MayWrite

LEMMA CreateEffect ==
  ASSUME NEW c \in Clients, NEW e \in Managed, writes \in 0 .. MaxWrites,
         Exists(e) \/ MayWrite(c), Create(e)
  PROVE  Still \/ Creates(e)
  BY MayWriteBound, NewType DEF Create, Still, Creates, InsertRow, AddToIndexes

\* A changed object is the cached one or another one.
LEMMA ShownCacheEffect ==
  ASSUME NEW e \in Entity, NEW x, x.write = writes + 1, cache' = ShownCache(e, x),
         cache \in [Entity -> Objs \cup {None}]
  PROVE  \/ cache' = cache
         \/ cache[e] # None /\ cache' = [cache EXCEPT ![e] = [@ EXCEPT !.write = writes + 1]]
  BY DEF ShownCache, Same

LEMMA Effects ==
  ASSUME ReqOK, writes \in 0 .. MaxWrites, cache \in [Entity -> Objs \cup {None}], Next
  PROVE  Effect
<1>1. ASSUME NEW c \in Clients, GetRequest(c) PROVE Effect
  BY <1>1, GetRequestIsLookup DEF Lookup, Effect, Still
<1>2. ASSUME NEW c \in Clients, ChangeRequest(c) PROVE Effect
  <2>1. CASE CreateNamespace(c)
    BY <2>1, CreateEffect, Names DEF CreateNamespace, Effect
  <2>2. CASE CreateTarget(c)
    BY <2>2, CreateEffect, Names DEF CreateTarget, Effect
  <2>3. CASE SetLabels(c)
    <3> DEFINE x == [cache[Target] EXCEPT !.write = writes + 1]
               y == [x EXCEPT !.version = @ + 1]
    <3>1. /\ writes < MaxWrites /\ writes' = writes + 1 /\ indexed' = indexed
          /\ cache[Target] \in Objs
      BY <2>3, MayWriteBound, Names DEF SetLabels
    <3>2. y \in Objs /\ x.write = writes + 1
      <4>1. x \in Objs /\ x.write = writes + 1
        BY <3>1 DEF Objs
      <4> HIDE DEF x
      <4> QED
        BY <4>1 DEF Objs
    <3>3. \/ Updatable(Target) /\ Update(Target, y)
          \/ cache' = ShownCache(Target, x) /\ row' = row
      BY <2>3 DEF SetLabels
    <3> HIDE DEF x, y
    <3>4. Updates(Target) \/ Edits(Target)
      BY <3>1, <3>2, <3>3, ShownCacheEffect, Names, Bounds DEF Updates, Edits
    <3> QED
      BY <3>4, Names DEF Effect
  <2>4. CASE DeletePoller(c)
    BY <2>4 DEF Effect
  <2>5. CASE CreateDirectory(c) \/ \E l \in Links : CreateLink(c, l)
    <3>1. AddsNode(Dir) /\ Dir \in Nodes
      BY <2>5, Names DEF CreateDirectory, CreateLink, TreeCreateDirectory, TreeCreateLink, AddsNode,
                         MakeDirectory
    <3> QED
      BY <3>1 DEF Effect
  <2>6. CASE \/ \E force \in BOOLEAN : DeleteNamespace(c, force) \/ DeleteTarget(c, force)
             \/ \E n \in Nodes, force, all \in BOOLEAN : DeleteTreeNode(c, n, force, all)
             \/ Watch(c)
    BY <2>6 DEF DeleteNamespace, DeleteTarget, DeleteTreeNode, StartDelete, Watch, Effect, Still
  <2> QED
    BY <1>2, <2>1, <2>2, <2>3, <2>4, <2>5, <2>6 DEF ChangeRequest
<1>3. ASSUME NEW c \in Clients, Step(c) PROVE Effect
  <2>0. req[c].entity \in Entity /\ Sound(req[c])
    BY DEF ReqOK, Request
  <2>1. CASE GetLookup(c) \/ GetRead(c) \/ Bind(c) \/ DeleteCount(c) \/ ValidateLinkRef(c) \/ ApplyFails(c)
    BY <2>1 DEF GetLookup, Lookup, GetRead, Bind, DeleteCount, ValidateLinkRef, ApplyFails, Effect, Still
  <2>2. CASE GetInsert(c) \/ DeleteRemove(c)
    BY <2>2 DEF Effect
  <2>3. CASE PollerCreated(c)
    BY <2>3, CreateEffect, Names DEF PollerCreated, Effect
  <2>4. CASE UpdateEntity(c)
    <3>1. CASE ~Updatable(req[c].entity)
      BY <2>4, <3>1 DEF UpdateEntity, Effect, Still
    <3>2. CASE Updatable(req[c].entity)
      <4> DEFINE x == [req[c].read EXCEPT !.version = cache[req[c].entity].version + 1]
      <4>1. cache[req[c].entity] \in Objs /\ req[c].read \in Objs
        BY <2>0, <2>4, <3>2 DEF UpdateEntity, Updatable, Sound, Holding, ReqOK, Request
      <4>2. x \in Objs
        BY <4>1 DEF Objs
      <4>3. Update(req[c].entity, x) /\ indexed' = indexed /\ writes' = writes
        BY <2>4, <3>2 DEF UpdateEntity
      <4> HIDE DEF x
      <4>4. Updates(req[c].entity)
        BY <3>2, <4>2, <4>3 DEF Updates
      <4> QED
        BY <2>0, <4>4 DEF Effect
    <3> QED
      BY <3>1, <3>2
  <2>10. CASE EditObject(c)
    <3> DEFINE x == [req[c].read EXCEPT !.write = writes + 1]
    <3>1. req[c].read \in Objs
      BY <2>0, <2>10 DEF EditObject, Sound, Holding, ReqOK, Request
    <3>2. x.write = writes + 1
      BY <3>1 DEF Objs
    <3>3. /\ cache' = ShownCache(req[c].entity, x) /\ writes < MaxWrites
          /\ writes' = writes + 1 /\ UNCHANGED <<row, indexed>>
      BY <2>10 DEF EditObject
    <3> HIDE DEF x
    <3>4. Edits(req[c].entity)
      BY <2>0, <3>2, <3>3, ShownCacheEffect DEF Edits
    <3> QED
      BY <2>0, <3>4 DEF Effect
  <2>11. CASE NewObject(c)
    BY <2>0, <2>11, MayWriteBound DEF NewObject, Edits, Effect
  <2>5. CASE InsertLink(c)
    <3>1. req[c].entity \in Nodes
      BY <2>0, <2>5, Names DEF InsertLink, Sound
    <3>2. Still \/ AddsNode(req[c].entity)
      BY <2>5 DEF InsertLink, Still, AddsNode
    <3> QED
      BY <3>1, <3>2 DEF Effect
  <2>6. CASE InvalidatePath(c)
    <3>1. req[c].entity \in Nodes
      BY <2>0, <2>6 DEF InvalidatePath, Sound
    <3>2. Invalidates({req[c].entity})
      BY <2>0, <2>6 DEF InvalidatePath, Invalidates
    <3> QED
      BY <3>1, <3>2 DEF Effect
  <2>7. CASE InvalidateChildren(c)
    <3>1. Children(req[c].entity) \subseteq Nodes
      BY <2>0, <2>7, Names DEF InvalidateChildren, Sound, Children
    <3>2. Invalidates(Children(req[c].entity))
      BY <2>0, <2>7 DEF InvalidateChildren, Invalidates
    <3> QED
      BY <3>1, <3>2 DEF Effect
  <2>8. CASE ApplyTreeNode(c)
    BY <2>8, Names DEF ApplyTreeNode, MakeDirectory, AddsNode, Effect
  <2>9. CASE ApplyNamespace(c) \/ ApplyTarget(c) \/ ApplyPoller(c)
    <3>1. req[c].entity \in Managed /\ ApplyEntity(c)
      BY <2>9, Names DEF ApplyNamespace, ApplyTarget, ApplyPoller
    <3> QED
      BY <3>1, CreateEffect DEF ApplyEntity, Effect
  <2> QED
    BY <1>3, <2>1, <2>2, <2>3, <2>4, <2>5, <2>6, <2>7, <2>8, <2>9, <2>10, <2>11
       DEF Step, GetStep, ChangeStep, DeleteStep, TreeStep, ApplyStep
<1>4. ASSUME NEW c \in Clients, StoreError(c) PROVE Effect
  BY <1>4 DEF StoreError, Effect, Still
<1> QED
  BY <1>1, <1>2, <1>3, <1>4 DEF Next, Start, Effect

-----------------------------------------------------------------------------
(* The types. *)

LEMMA TypeParts ==
  TypeOK <=> /\ row \in [Entity -> Rows \cup {None}]
             /\ cache \in [Entity -> Objs \cup {None}]
             /\ indexed \in BOOLEAN /\ bound \in BOOLEAN
             /\ req \in [Clients -> Request]
             /\ \A c \in Clients : req[c].at \in Holding => req[c].read # None
             /\ lock \in [Managed -> Clients \cup {None}]
             /\ writes \in 0 .. MaxWrites
  BY DEF TypeOK, Request, Steps, Nexts, Holding

LEMMA LoadType ==
  ASSUME row \in [Entity -> Rows \cup {None}]
  PROVE  Load(row) \in [Entity -> Objs \cup {None}]
<1>1. \A r \in Rows \cup {None} : Loaded(r) \in Objs \cup {None}
  BY HomeType, PlacedType DEF Loaded
<1>2. \A e \in Entity : Load(row)[e] \in Objs \cup {None}
  BY <1>1, Names DEF Load, LoadNamespaces, LoadTargets, LoadPollers
<1> QED
  BY <1>2 DEF Load

LEMMA LoadedNone ==
  ASSUME NEW r \in Rows \cup {None}
  PROVE  Loaded(r) # None <=> r # None
  BY HomeType, PlacedType, NoneIsNoRow DEF Loaded

LEMMA InsertedType ==
  ASSUME writes \in 0 .. MaxWrites
  PROVE  Inserted \in Rows
  BY Bounds DEF Inserted, Rows

StoreOK ==
  /\ row \in [Entity -> Rows \cup {None}] /\ cache \in [Entity -> Objs \cup {None}]
  /\ indexed \in BOOLEAN /\ writes \in 0 .. MaxWrites

LEMMA StoreTypes ==
  ASSUME TypeOK, ReqOK, Effect
  PROVE  StoreOK'
<1> USE TypeParts
<1>1. CASE Still
  BY <1>1 DEF Still, StoreOK
<1>2. ASSUME NEW e \in Managed, Creates(e) PROVE StoreOK'
  <2>1. PICK o \in Objects : cache' = [cache EXCEPT ![e] = Placed(o, Inserted)]
    BY <1>2 DEF Creates
  <2>2. Inserted \in Rows /\ Placed(o, Inserted) \in Objs
    BY InsertedType, PlacedType
  <2> QED
    BY <1>2, <2>1, <2>2, Names, Bounds DEF Creates, StoreOK
<1>3. ASSUME NEW e \in Entity, Updates(e) PROVE StoreOK'
  BY <1>3, ContentType DEF Updates, Update, StoreOK
<1>8. ASSUME NEW e \in Entity, Edits(e) PROVE StoreOK'
  <2>1. cache' \in [Entity -> Objs \cup {None}]
    <3>1. CASE cache' = cache
      BY <3>1
    <3>2. CASE cache[e] # None /\ cache' = [cache EXCEPT ![e] = [@ EXCEPT !.write = writes + 1]]
      <4>1. [cache[e] EXCEPT !.write = writes + 1] \in Objs
        BY <3>2, Bounds DEF Objs
      <4> QED
        BY <3>2, <4>1
    <3> QED
      BY <1>8, <3>1, <3>2 DEF Edits
  <2> QED
    BY <1>8, <2>1, Bounds DEF Edits, StoreOK
<1>4. ASSUME NEW c \in Clients, GetInsert(c) \/ DeleteRemove(c) \/ DeletePoller(c) PROVE StoreOK'
  <2>1. req[c].read \in Objs \cup {None} /\ req[c].entity \in Entity
    BY DEF Request
  <2> QED
    BY <1>4, <2>1 DEF GetInsert, DeleteRemove, DeletePoller, RemoveFromIndexes, StoreOK
<1>5. ASSUME NEW n \in Nodes, AddsNode(n) PROVE StoreOK'
  <2>1. Node \in Rows
    BY DEF Node, Rows
  <2> QED
    BY <1>5, <2>1 DEF AddsNode, StoreOK
<1>6. ASSUME NEW nodes \in SUBSET Nodes, Invalidates(nodes) PROVE StoreOK'
  BY <1>6 DEF Invalidates, StoreOK
<1>7. CASE Restart
  BY <1>7, LoadType DEF Restart, StoreOK
<1> QED
  BY <1>1, <1>2, <1>3, <1>4, <1>5, <1>6, <1>7, <1>8 DEF Effect

LEMMA LockTypes ==
  ASSUME TypeOK, Next
  PROVE  bound' \in BOOLEAN /\ lock' \in [Managed -> Clients \cup {None}]
<1> USE TypeParts
<1>1. ASSUME NEW c \in Clients, Start(c)
      PROVE  bound' \in BOOLEAN /\ lock' \in [Managed -> Clients \cup {None}]
  <2>1. CASE GetRequest(c)
    BY <2>1, GetRequestIsLookup DEF Lookup
  <2>2. CASE ChangeRequest(c)
    <3>1. UNCHANGED bound
      BY <2>2 DEF ChangeRequest, CreateNamespace, CreateTarget, SetLabels, DeletePoller, CreateDirectory,
         TreeCreateDirectory, DeleteNamespace, DeleteTarget, DeleteTreeNode, StartDelete, CreateLink,
         TreeCreateLink, Watch
    <3>2. \/ UNCHANGED lock
          \/ \E e \in Entity, force, all \in BOOLEAN : StartDelete(c, e, force, all)
      BY <2>2, Names DEF ChangeRequest, CreateNamespace, CreateTarget, SetLabels, DeletePoller,
         CreateDirectory, TreeCreateDirectory, DeleteNamespace, DeleteTarget, DeleteTreeNode,
         CreateLink, TreeCreateLink, Watch
    <3>3. ASSUME NEW e \in Entity, NEW force \in BOOLEAN, NEW all \in BOOLEAN,
                 StartDelete(c, e, force, all)
          PROVE  lock' \in [Managed -> Clients \cup {None}]
      BY <3>3 DEF StartDelete
    <3> QED
      BY <3>1, <3>2, <3>3
  <2> QED
    BY <1>1, <2>1, <2>2 DEF Start
<1>2. ASSUME NEW c \in Clients, Step(c) \/ StoreError(c)
      PROVE  bound' \in BOOLEAN /\ lock' \in [Managed -> Clients \cup {None}]
  <2>1. bound' \in BOOLEAN
    BY <1>2 DEF Step, GetStep, ChangeStep, DeleteStep, TreeStep, ApplyStep, StoreError, GetLookup, Lookup,
       GetRead, GetInsert, Bind, PollerCreated, EditObject, NewObject, UpdateEntity, DeleteCount, DeleteRemove,
       ValidateLinkRef, InsertLink, InvalidatePath, InvalidateChildren, ApplyNamespace, ApplyTarget,
       ApplyPoller, ApplyEntity, ApplyFails, ApplyTreeNode
  <2>2. Unlock(c) \/ UNCHANGED lock
    BY <1>2 DEF Step, GetStep, ChangeStep, DeleteStep, TreeStep, ApplyStep, StoreError, GetLookup, Lookup,
       GetRead, GetInsert, Bind, PollerCreated, EditObject, NewObject, UpdateEntity, DeleteCount, DeleteRemove,
       ValidateLinkRef, InsertLink, InvalidatePath, InvalidateChildren, ApplyNamespace, ApplyTarget,
       ApplyPoller, ApplyEntity, ApplyFails, ApplyTreeNode
  <2> QED
    BY <2>1, <2>2 DEF Unlock
<1>3. CASE Restart
  BY <1>3 DEF Restart
<1> QED
  BY <1>1, <1>2, <1>3 DEF Next

-----------------------------------------------------------------------------
(* What is stored is listed. *)

\* The lists, spelled out.
Listed ==
  /\ row[Namespace] # None => cache[Namespace] # None
  /\ row[Poller] # None => cache[Poller] # None /\ indexed
  /\ indexed => cache[Poller] # None

LEMMA ListedDef == StoredIsListed <=> Listed
  BY Names DEF StoredIsListed, Listed, ListNamespaces, ListPollers

LEMMA ListedKept ==
  ASSUME TypeOK, ReqOK, Listed, Effect
  PROVE  Listed'
<1> USE TypeParts, Names
<1>1. CASE Still
  BY <1>1 DEF Still, Listed
<1>2. ASSUME NEW e \in Managed, Creates(e) PROVE Listed'
  <2>1. PICK o \in Objects : cache' = [cache EXCEPT ![e] = Placed(o, Inserted)]
    BY <1>2 DEF Creates
  <2>2. Placed(o, Inserted) # None
    BY InsertedType, PlacedType, NoneIsNoRow
  <2> QED
    BY <1>2, <2>1, <2>2 DEF Creates, Listed
<1>3. ASSUME NEW e \in Entity, Updates(e) PROVE Listed'
  <2>1. PICK x \in Objs : row' = [row EXCEPT ![e] = Content(x)] /\ cache' = [cache EXCEPT ![e] = x]
    BY <1>3 DEF Updates, Update
  <2>2. x # None /\ row[e] # None /\ indexed' = indexed
    BY <1>3, NoneIsNoRow DEF Updates, Updatable
  <2>3. /\ \A y \in Entity : row'[y] # None => row[y] # None
        /\ \A y \in Entity : cache[y] # None => cache'[y] # None
    BY <2>1, <2>2
  <2> QED
    BY <2>2, <2>3 DEF Listed
<1>10. ASSUME NEW e \in Entity, Edits(e) PROVE Listed'
  <2>1. \A y \in Entity : cache[y] # None => cache'[y] # None
    <3>1. cache[e] # None => [cache[e] EXCEPT !.write = writes + 1] \in Objs
      BY Bounds DEF Objs
    <3> QED
      BY <1>10, <3>1, NoneIsNoRow DEF Edits
  <2> QED
    BY <1>10, <2>1 DEF Edits, Listed
<1>4. ASSUME NEW c \in Clients, GetInsert(c) PROVE Listed'
  <2>1. req[c].read # None /\ req[c].entity \in Entity
    BY <1>4 DEF ReqOK, GetInsert, Sound, Holding, Request
  <2> QED
    BY <1>4, <2>1 DEF GetInsert, Listed
<1>5. ASSUME NEW c \in Clients, DeleteRemove(c) PROVE Listed'
  <2>1. req[c].entity \in Entity \ {Poller}
    BY <1>5 DEF ReqOK, DeleteRemove, Sound, Request
  <2>2. cache' = cache \/ cache' = [cache EXCEPT ![req[c].entity] = None]
    BY <1>5 DEF DeleteRemove
  <2>3. \A x \in Entity : row'[x] # None => row[x] # None
    BY <1>5 DEF DeleteRemove
  <2>4. req[c].entity = Namespace => row'[Namespace] = None
    BY <1>5 DEF DeleteRemove, Removed, RemovedWithNamespace
  <2>5. indexed' = indexed
    BY <1>5 DEF DeleteRemove
  <2> QED
    BY <2>1, <2>2, <2>3, <2>4, <2>5 DEF Listed
<1>6. ASSUME NEW c \in Clients, DeletePoller(c) PROVE Listed'
  BY <1>6 DEF DeletePoller, RemovedWithPoller, RemoveFromIndexes, Listed, PollerLink, Namespace
<1>7. ASSUME NEW n \in Nodes, AddsNode(n) PROVE Listed'
  BY <1>7 DEF AddsNode, Listed
<1>8. ASSUME NEW nodes \in SUBSET Nodes, Invalidates(nodes) PROVE Listed'
  BY <1>8 DEF Invalidates, Listed
<1>9. CASE Restart
  BY <1>9, LoadedNone DEF Restart, Load, LoadNamespaces, LoadPollers, Listed
<1> QED
  BY <1>1, <1>2, <1>3, <1>4, <1>5, <1>6, <1>7, <1>8, <1>9, <1>10 DEF Effect

-----------------------------------------------------------------------------
(* The invariant and the theorems. *)

IInv == TypeOK /\ ReqOK /\ Listed

LEMMA InitHolds == Init => IInv
<1> SUFFICES ASSUME Init PROVE IInv
  OBVIOUS
<1>1. row \in [Entity -> Rows \cup {None}]
  <2>1. Node \in Rows /\ [version |-> 1, write |-> 0] \in Rows
    BY DEF Node, Rows
  <2> QED
    BY <2>1 DEF Init
<1>2. TypeOK /\ ReqOK
  <2>1. req \in [Clients -> Request] /\ ReqOK
    BY NoRequestOK DEF Init, ReqOK
  <2>2. writes \in 0 .. MaxWrites
    BY Bounds DEF Init
  <2>3. cache \in [Entity -> Objs \cup {None}]
    BY <1>1, LoadType DEF Init
  <2>4. lock \in [Managed -> Clients \cup {None}] /\ indexed \in BOOLEAN /\ bound \in BOOLEAN
    BY DEF Init
  <2> QED
    BY <1>1, <2>1, <2>2, <2>3, <2>4, TypeParts DEF ReqOK, Sound
<1>3. Listed
  BY <1>1, LoadedNone, Names DEF Init, Load, LoadNamespaces, LoadPollers, Listed
<1> QED
  BY <1>2, <1>3 DEF IInv

LEMMA NextKeeps ==
  ASSUME IInv, [Next]_vars
  PROVE  IInv'
<1>1. CASE Next
  <2>1. Effect
    BY <1>1, Effects, TypeParts DEF IInv
  <2>2. ReqOK'
    BY <1>1, RequestsKept, TypeParts, Bounds DEF IInv
  <2>3. req' \in [Clients -> Request]
    BY <2>2 DEF ReqOK
  <2>4. StoreOK'
    BY <2>1, StoreTypes DEF IInv
  <2>5. bound' \in BOOLEAN /\ lock' \in [Managed -> Clients \cup {None}]
    BY <1>1, LockTypes DEF IInv
  <2>6. TypeOK'
    BY <2>2, <2>3, <2>4, <2>5 DEF TypeOK, StoreOK, ReqOK, Sound, Holding, Request, Steps, Nexts
  <2>7. Listed'
    BY <2>1, ListedKept DEF IInv
  <2> QED
    BY <2>2, <2>6, <2>7 DEF IInv
<1>2. CASE UNCHANGED vars
  BY <1>2 DEF vars, IInv, TypeOK, ReqOK, Listed
<1> QED
  BY <1>1, <1>2

LEMMA Inductive == Spec => []IInv
  BY InitHolds, NextKeeps, PTL DEF Spec

\* The type invariant of the rows, the caches, the requests and the locks.
THEOREM TypeCorrect == Spec => []TypeOK
<1>1. IInv => TypeOK
  BY DEF IInv
<1> QED
  BY <1>1, Inductive, PTL

\* A namespace or a poller that is stored is in its cache and its indexes, whatever
\* requests, reloads, failing statements and restarts interleave.
THEOREM StoredIsListedHolds == Spec => []StoredIsListed
<1>1. IInv => StoredIsListed
  BY ListedDef DEF IInv
<1> QED
  BY <1>1, Inductive, PTL

-----------------------------------------------------------------------------
(* The action properties. *)

LEMMA RefersPairs ==
  ASSUME NEW r \in Refers
  PROVE  \/ r[1] = Target /\ r[2] = Namespace
         \/ r[1] = Poller /\ r[2] = Target
         \/ r[1] = TargetLink /\ r[2] = Target
         \/ r[1] = PollerLink /\ r[2] = Poller
  BY DEF Refers

LEMMA RemovedCases ==
  ASSUME NEW all \in BOOLEAN
  PROVE  /\ Removed(Namespace, all) = Entity
         /\ Removed(Target, all) = {Target, Poller, TargetLink, PollerLink}
         /\ Removed(Poller, all) = {Poller, PollerLink}
         /\ \A n \in Nodes : Removed(n, all) \subseteq Nodes
  BY Names DEF Removed, RemovedWithNamespace, RemovedWithTarget, RemovedWithPoller, RemovedWithNode

LEMMA RemovesReferents ==
  ASSUME NEW e \in Entity, NEW all \in BOOLEAN, NEW r \in Refers, r[2] \in Removed(e, all)
  PROVE  r[1] \in Removed(e, all)
  BY RefersPairs, RemovedCases, Names DEF Entity, Managed

LEMMA OrphanStep ==
  ASSUME IInv, [Next]_vars
  PROVE  \A r \in Refers : Broken(r)' /\ ~Broken(r) => row[r[1]] = None
<1> SUFFICES ASSUME NEW r \in Refers, Broken(r)', ~Broken(r) PROVE row[r[1]] = None
  OBVIOUS
<1>0. r[1] \in Entity /\ r[2] \in Entity /\ r[2] \in Managed
  BY Names DEF Refers
<1>1. row'[r[1]] # None /\ row'[r[2]] = None
  BY DEF Broken
<1>2. SUFFICES ASSUME row[r[1]] # None, row[r[2]] # None PROVE FALSE
  BY DEF Broken
<1>3. row \in [Entity -> Rows \cup {None}] /\ req \in [Clients -> Request] /\ writes \in 0 .. MaxWrites
  BY TypeParts DEF IInv
<1>4. row' # row
  BY <1>1, <1>2
<1>5. Effect
  BY <1>4, Effects, TypeParts DEF IInv, vars
<1>6. ASSUME NEW e \in Managed, Creates(e) PROVE FALSE
  BY <1>0, <1>1, <1>2, <1>3, <1>6, InsertedType, NoneIsNoRow, Names DEF Creates
<1>7. ASSUME NEW e \in Entity, Updates(e) PROVE FALSE
  <2>1. PICK x \in Objs : row' = [row EXCEPT ![e] = Content(x)]
    BY <1>7 DEF Updates, Update
  <2>2. Content(x) # None
    BY ContentType, NoneIsNoRow
  <2> QED
    BY <1>0, <1>1, <1>2, <1>3, <2>1, <2>2
<1>8. ASSUME NEW c \in Clients, DeleteRemove(c) PROVE FALSE
  <2>1. req[c].entity \in Entity /\ req[c].all \in BOOLEAN
    BY <1>3 DEF Request
  <2>2. r[2] \in Removed(req[c].entity, req[c].all)
    BY <1>0, <1>1, <1>2, <1>8 DEF DeleteRemove
  <2>3. r[1] \in Removed(req[c].entity, req[c].all)
    BY <2>1, <2>2, RemovesReferents
  <2> QED
    BY <1>0, <1>1, <1>8, <2>3 DEF DeleteRemove
<1>9. ASSUME NEW c \in Clients, DeletePoller(c) PROVE FALSE
  <2>1. r[2] \in RemovedWithPoller
    BY <1>0, <1>1, <1>2, <1>9 DEF DeletePoller
  <2>2. r[1] \in RemovedWithPoller
    BY <2>1, RefersPairs DEF RemovedWithPoller, Target, Namespace, Poller, TargetLink, PollerLink
  <2> QED
    BY <1>0, <1>1, <1>9, <2>2 DEF DeletePoller
<1>10. ASSUME NEW n \in Nodes, AddsNode(n) PROVE FALSE
  BY <1>0, <1>1, <1>2, <1>3, <1>10, Names DEF AddsNode
<1> QED
  BY <1>4, <1>5, <1>6, <1>7, <1>8, <1>9, <1>10 DEF Effect, Still, Edits, GetInsert, Invalidates, Restart

\* No deletion leaves behind what refers to the deleted entity: a dangling reference is
\* always one that was inserted dangling.
THEOREM OrphansAreInsertedHolds == Spec => OrphansAreInserted
  BY OrphanStep, Inductive, PTL DEF Spec, OrphansAreInserted

\* Why the cached e falls behind in the next step.
Cause(e) ==
  \/ \E c \in Clients :
       \/ req[c].at = "insert" /\ req[c].entity = e /\ Content(req[c].read) # row[e]
       \/ req[c].at = "remove" /\ e \in Removed(req[c].entity, FALSE) \ {req[c].entity}
  \/ ChangedInPlace(e)

LEMMA CacheStep ==
  ASSUME IInv, [Next]_vars, NEW e \in Managed, Agrees(e), ~Agrees(e)'
  PROVE  Cause(e)
<1>0. e \in Entity /\ e \notin Nodes
  BY Names
<1>1. cache'[e] # None /\ Content(cache'[e]) # row'[e] /\ (cache[e] # None => Content(cache[e]) = row[e])
  BY DEF Agrees, Content
<1>2. /\ row \in [Entity -> Rows \cup {None}] /\ cache \in [Entity -> Objs \cup {None}]
      /\ req \in [Clients -> Request] /\ writes \in 0 .. MaxWrites
  BY TypeParts DEF IInv
<1>3. Effect
  <2>1. row' # row \/ cache' # cache
    BY <1>1
  <2> QED
    BY <2>1, Effects, TypeParts DEF IInv, vars
<1>4. ~Still
  BY <1>1 DEF Still
<1>5. ASSUME NEW x \in Managed, Creates(x) PROVE FALSE
  <2>1. PICK o \in Objects : cache' = [cache EXCEPT ![x] = Placed(o, Inserted)]
    BY <1>5 DEF Creates
  <2>2. Content(Placed(o, Inserted)) = Inserted
    BY <1>2, InsertedType, PlacedType
  <2> QED
    BY <1>0, <1>1, <1>2, <1>5, <2>1, <2>2, Names DEF Creates
<1>6. ASSUME NEW x \in Entity, Updates(x) PROVE FALSE
  <2>1. PICK y \in Objs : row' = [row EXCEPT ![x] = Content(y)] /\ cache' = [cache EXCEPT ![x] = y]
    BY <1>6 DEF Updates, Update
  <2> QED
    BY <1>0, <1>1, <1>2, <2>1
<1>13. ASSUME NEW x \in Entity, Edits(x) PROVE Cause(e)
  <2>1. x = e /\ cache[e] \in Objs /\ cache' = [cache EXCEPT ![e] = [@ EXCEPT !.write = writes + 1]]
    BY <1>0, <1>1, <1>2, <1>13 DEF Edits
  <2>2. cache'[e] = [cache[e] EXCEPT !.write = writes + 1]
    BY <1>0, <1>2, <2>1
  <2>3. cache'[e].obj = cache[e].obj /\ cache'[e].version = cache[e].version
    BY <2>1, <2>2 DEF Objs
  <2>4. ChangedInPlace(e)
    BY <1>1, <1>2, <1>13, <2>1, <2>3, NoneIsNoRow DEF Edits, ChangedInPlace
  <2> QED
    BY <2>4 DEF Cause
<1>7. ASSUME NEW c \in Clients, GetInsert(c) PROVE Cause(e)
  BY <1>0, <1>1, <1>2, <1>7 DEF GetInsert, Cause
<1>8. ASSUME NEW c \in Clients, DeleteRemove(c) PROVE Cause(e)
  <2>1. req[c].entity \in Entity /\ req[c].at = "remove" /\ req[c].all \in BOOLEAN
    BY <1>2, <1>8 DEF Request, DeleteRemove
  <2>2. cache' = cache \/ cache' = [cache EXCEPT ![req[c].entity] = None]
    BY <1>8 DEF DeleteRemove
  <2>3. cache'[e] = cache[e] /\ row'[e] # row[e]
    BY <1>0, <1>1, <1>2, <2>2
  <2>4. e \in Removed(req[c].entity, req[c].all)
    BY <1>0, <1>8, <2>3 DEF DeleteRemove
  <2>5. e # req[c].entity
    BY <1>0, <1>1, <1>2, <1>8 DEF DeleteRemove
  <2>6. e \in Removed(req[c].entity, FALSE)
    BY <1>0, <2>1, <2>4, <2>5, RemovedCases DEF Entity, Managed
  <2> QED
    BY <2>1, <2>5, <2>6 DEF Cause
<1>9. ASSUME NEW c \in Clients, DeletePoller(c) PROVE FALSE
  BY <1>0, <1>1, <1>2, <1>9 DEF DeletePoller, RemovedWithPoller, PollerLink, Nodes
<1>10. ASSUME NEW n \in Nodes, AddsNode(n) PROVE FALSE
  BY <1>0, <1>1, <1>2, <1>10 DEF AddsNode
<1>11. ASSUME NEW nodes \in SUBSET Nodes, Invalidates(nodes) PROVE FALSE
  BY <1>0, <1>1, <1>2, <1>11 DEF Invalidates
<1>12. ASSUME Restart PROVE FALSE
  <2>1. cache'[e] \in {None, Loaded(row[e])} /\ row' = row
    BY <1>0, <1>12 DEF Restart, Load, LoadNamespaces, LoadTargets, LoadPollers, Managed, Loaded
  <2>2. row[e] # None /\ cache'[e] = Placed(Home, row[e])
    BY <1>1, <2>1 DEF Loaded
  <2>3. Content(Placed(Home, row[e])) = row[e]
    BY <1>0, <1>2, <2>2, HomeType, PlacedType
  <2> QED
    BY <1>1, <2>1, <2>2, <2>3
<1> QED
  BY <1>3, <1>4, <1>5, <1>6, <1>7, <1>8, <1>9, <1>10, <1>11, <1>12, <1>13 DEF Effect

\* Whatever writes the row gives the cache the same content.
LEMMA WriteRepairs ==
  ASSUME IInv, [Next]_vars, NEW e \in Managed, row'[e] \notin {row[e], None}
  PROVE  Agrees(e)'
<1>0. e \in Entity /\ e \notin Nodes
  BY Names
<1>2. /\ row \in [Entity -> Rows \cup {None}] /\ cache \in [Entity -> Objs \cup {None}]
      /\ req \in [Clients -> Request] /\ writes \in 0 .. MaxWrites
  BY TypeParts DEF IInv
<1>3. Effect
  BY Effects, TypeParts DEF IInv, vars
<1>5. ASSUME NEW x \in Managed, Creates(x) PROVE Agrees(e)'
  <2>1. PICK o \in Objects : cache' = [cache EXCEPT ![x] = Placed(o, Inserted)]
    BY <1>5 DEF Creates
  <2>2. Content(Placed(o, Inserted)) = Inserted
    BY <1>2, InsertedType, PlacedType
  <2>3. row' = [row EXCEPT ![x] = Inserted]
    BY <1>5 DEF Creates
  <2>4. cache'[e] = Placed(o, Inserted) /\ row'[e] = Inserted
    BY <1>0, <1>2, <2>1, <2>3
  <2> QED
    BY <2>2, <2>4 DEF Agrees, Content
<1>6. ASSUME NEW x \in Entity, Updates(x) PROVE Agrees(e)'
  <2>1. PICK y \in Objs : row' = [row EXCEPT ![x] = Content(y)] /\ cache' = [cache EXCEPT ![x] = y]
    BY <1>6 DEF Updates, Update
  <2>2. cache'[e] = y /\ row'[e] = Content(y)
    BY <1>0, <1>2, <2>1
  <2> QED
    BY <2>2 DEF Agrees, Content
<1>7. ASSUME NEW c \in Clients, DeleteRemove(c) \/ DeletePoller(c) PROVE FALSE
  BY <1>0, <1>2, <1>7 DEF DeleteRemove, DeletePoller
<1>8. ASSUME NEW n \in Nodes, AddsNode(n) PROVE FALSE
  BY <1>0, <1>2, <1>8 DEF AddsNode
<1> QED
  BY <1>3, <1>5, <1>6, <1>7, <1>8 DEF Effect, Still, Edits, GetInsert, Invalidates, Restart

\* A cache comes to disagree with its rows only by a Get that inserts what it read too
\* early, by the deletion of what contains the entity, or by a change of the cached object
\* before its row is written; and the next write of the row makes them agree again.
THEOREM CacheLeftBehindHolds == Spec => CacheLeftBehind
<1>1. ASSUME IInv, [Next]_vars
      PROVE  \A e \in Managed :
               /\ Agrees(e) /\ ~Agrees(e)' =>
                    \/ \E c \in Clients :
                         \/ req[c].at = "insert" /\ req[c].entity = e /\ Content(req[c].read) # row[e]
                         \/ req[c].at = "remove" /\ e \in Removed(req[c].entity, FALSE) \ {req[c].entity}
                    \/ ChangedInPlace(e)
               /\ row[e]' \notin {row[e], None} => Agrees(e)'
  BY <1>1, CacheStep, WriteRepairs DEF Cause
<1> QED
  BY <1>1, Inductive, PTL DEF Spec, CacheLeftBehind
=============================================================================
