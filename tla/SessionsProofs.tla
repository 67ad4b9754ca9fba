--------------------------- MODULE SessionsProofs ---------------------------
(***************************************************************************)
(* Proofs of the safety properties of Sessions, for every set of           *)
(* connections, sessions, tokens and namespaces and every reconnect window. *)
(***************************************************************************)
EXTENDS Sessions, TLAPS

USE SessionsAssumption

\* What the registration of a session means: it has a state, the index by token has it
\* under its token and nowhere else, and what Cleanup has collected is expired for good.
Registered ==
  /\ \A s \in sessions : sess[s] \in SessionStates
  /\ \A t \in Tokens : \A s \in Sessions :
       s \in byToken[t] <=> s \in sessions /\ sess[s].token = t
  /\ \A s \in toRemove : s \in sessions /\ Expired(s)

\* A connection past its authentication has a token.
HasToken == \A c \in Conns : hand[c].at \in {"restore", "create", "serve"} => Token(c) \in Tokens

IInv ==
  /\ TypeOK /\ Registered /\ HasToken
  /\ OneConnection /\ ServedIsRegistered /\ BindingAllowed

\* The actions, each with what it ranges over.
LEMMA NextCases ==
  ASSUME Next
  PROVE  \/ \E c \in Conns : Dial(c) \/ Hangup(c) \/ AuthFails(c) \/ TryRestore(c) \/ MarkLost(c)
         \/ \E c \in Conns, t \in Tokens : ValidateToken(c, t)
         \/ \E c \in Conns, s \in Sessions : CreateSession(c, s)
         \/ \E c \in Conns, ns \in Namespaces : BindNamespace(c, ns)
         \/ \E c \in Conns, ps \in SUBSET Pollers :
              Subscribe(c, ps) \/ SubscribeByPath(c, ps) \/ Unsubscribe(c, ps)
         \/ Collect \/ (\E s \in Sessions : RemoveSession(s)) \/ Tick
BY DEF Next, Handle, Requests, Cleanup

-----------------------------------------------------------------------------
(* Records with one field changed. *)

LEMMA LostField ==
  ASSUME NEW x \in SessionStates, NEW n \in (0 .. Window + 1) \cup {None}
  PROVE  /\ [x EXCEPT !.lost = n] \in SessionStates
         /\ [x EXCEPT !.lost = n] = [token |-> x.token, ns |-> x.ns, subs |-> x.subs, lost |-> n]
BY DEF SessionStates

-----------------------------------------------------------------------------
(* Steps that change no session. *)

\* A connection is opened, closed, refused or authenticated: it serves nothing yet, or
\* still serves what it did.
LEMMA ConnectionStep ==
  ASSUME IInv, NEW c \in Conns,
         \/ Dial(c) \/ Hangup(c) \/ AuthFails(c)
         \/ \E t \in Tokens : ValidateToken(c, t)
  PROVE  IInv'
<1>1. UNCHANGED <<sess, sessions, byToken, toRemove>>
  BY DEF Dial, Hangup, AuthFails, ValidateToken
<1>2. /\ TypeOK' /\ HasToken'
      /\ \A d \in Conns : At(d, "serve")' =>
           At(d, "serve") /\ Session(d)' = Session(d) /\ Token(d)' = Token(d)
  BY DEF IInv, TypeOK, HasToken, Dial, Hangup, AuthFails, ValidateToken, Handler, At, Session, Token
<1>3. Registered' /\ BindingAllowed'
  BY <1>1 DEF IInv, Registered, BindingAllowed, Expired
<1>4. OneConnection'
  BY <1>2 DEF IInv, OneConnection
<1>5. ServedIsRegistered'
  BY <1>1, <1>2 DEF IInv, ServedIsRegistered
<1> QED
  BY <1>2, <1>3, <1>4, <1>5 DEF IInv

\* Cleanup collects what is expired.
LEMMA CollectStep ==
  ASSUME IInv, Collect
  PROVE  IInv'
<1>1. UNCHANGED <<conn, hand, sess, sessions, byToken>> /\ toRemove' = {s \in sessions : Expired(s)}
  BY DEF Collect
<1>2. TypeOK' /\ HasToken'
  BY <1>1 DEF IInv, TypeOK, HasToken, Token
<1>3. Registered'
  BY <1>1 DEF IInv, Registered, Expired
<1>4. OneConnection' /\ ServedIsRegistered' /\ BindingAllowed'
  BY <1>1 DEF IInv, OneConnection, ServedIsRegistered, BindingAllowed, At, Session, Token
<1> QED
  BY <1>2, <1>3, <1>4 DEF IInv

-----------------------------------------------------------------------------
(* Steps that change one session. *)

\* The session of a served connection is registered; the field of a state that changes
\* keeps its type.
LEMMA ServedState ==
  ASSUME IInv, NEW c \in Conns, At(c, "serve")
  PROVE  /\ Session(c) \in Sessions /\ Session(c) \in sessions
         /\ sess[Session(c)] \in SessionStates
         /\ sess[Session(c)].lost = None
         /\ Session(c) \notin toRemove
BY DEF IInv, TypeOK, ServedIsRegistered, Registered, Expired

\* Binding and subscriptions: the rest of the session and all others stay as they are.
LEMMA RequestStep ==
  ASSUME IInv, NEW c \in Conns,
         \/ \E ns \in Namespaces : BindNamespace(c, ns)
         \/ \E ps \in SUBSET Pollers : Subscribe(c, ps) \/ SubscribeByPath(c, ps) \/ Unsubscribe(c, ps)
  PROVE  IInv'
<1> DEFINE s == Session(c)
<1>1. At(c, "serve") /\ UNCHANGED <<conn, hand, sessions, byToken, toRemove>>
  BY DEF BindNamespace, Subscribe, SubscribeByPath, Unsubscribe
<1>2. s \in Sessions /\ s \in sessions /\ sess[s] \in SessionStates /\ s \notin toRemove
  BY <1>1, ServedState
<1>3. PICK ns \in Namespaces \cup {None}, subs \in SUBSET Pollers :
        /\ sess' = [sess EXCEPT ![s] = [sess[s] EXCEPT !.ns = ns, !.subs = subs]]
        /\ ns # None => CanAccessNamespace(sess[s].token, ns)
        /\ subs # {} => ns # None
  <2>1. CASE \E ns \in Namespaces : BindNamespace(c, ns)
    <3>1. PICK ns \in Namespaces : BindNamespace(c, ns)
      BY <2>1
    <3>2. sess' = [sess EXCEPT ![s] = [sess[s] EXCEPT !.ns = ns, !.subs = sess[s].subs]]
      BY <1>2, <3>1 DEF BindNamespace, SessionStates, IInv, TypeOK
    <3>3. CanAccessNamespace(sess[s].token, ns) /\ sess[s].subs \in SUBSET Pollers /\ ns # None
      BY <1>2, <3>1 DEF BindNamespace, MayBind, SessionStates
    <3> QED
      BY <3>2, <3>3
  <2>2. CASE \E ps \in SUBSET Pollers : Subscribe(c, ps) \/ SubscribeByPath(c, ps) \/ Unsubscribe(c, ps)
    <3>1. PICK subs \in SUBSET Pollers :
            /\ sess' = [sess EXCEPT ![s].subs = subs]
            /\ subs # {} => sess[s].ns # None
      <4>1. PICK ps \in SUBSET Pollers : Subscribe(c, ps) \/ SubscribeByPath(c, ps) \/ Unsubscribe(c, ps)
        BY <2>2
      <4>2. sess[s].subs \in SUBSET Pollers /\ (sess[s].subs # {} => sess[s].ns # None)
        BY <1>2 DEF IInv, BindingAllowed, SessionStates
      <4>3. CASE Subscribe(c, ps) \/ SubscribeByPath(c, ps)
        <5>1. sess[s].ns # None /\ sess' = [sess EXCEPT ![s].subs = sess[s].subs \cup ps]
          BY <4>3 DEF Subscribe, SubscribeByPath, AddKeys
        <5>2. (sess[s].subs \cup ps) \in SUBSET Pollers
          BY <4>2
        <5> QED
          BY <5>1, <5>2
      <4>4. CASE Unsubscribe(c, ps)
        <5>1. sess' = [sess EXCEPT ![s].subs = sess[s].subs \ ps]
          BY <4>4 DEF Unsubscribe, DropKeys
        <5>2. (sess[s].subs \ ps) \in SUBSET Pollers /\ (sess[s].subs \ ps # {} => sess[s].ns # None)
          BY <4>2
        <5> QED
          BY <5>1, <5>2
      <4> QED
        BY <4>1, <4>3, <4>4
    <3>2. sess' = [sess EXCEPT ![s] = [sess[s] EXCEPT !.ns = sess[s].ns, !.subs = subs]]
      BY <1>2, <3>1 DEF SessionStates, IInv, TypeOK
    <3>3. /\ sess[s].ns \in Namespaces \cup {None}
          /\ sess[s].ns # None => CanAccessNamespace(sess[s].token, sess[s].ns)
      BY <1>2 DEF IInv, BindingAllowed, SessionStates
    <3> QED
      BY <3>1, <3>2, <3>3
  <2> QED
    BY <2>1, <2>2
<1>4. /\ sess'[s] \in SessionStates /\ sess'[s].token = sess[s].token /\ sess'[s].lost = sess[s].lost
      /\ sess'[s].ns = ns /\ sess'[s].subs = subs
      /\ \A x \in Sessions \ {s} : sess'[x] = sess[x]
  BY <1>2, <1>3 DEF IInv, TypeOK, SessionStates
<1>5. TypeOK' /\ HasToken'
  BY <1>1, <1>2, <1>3, <1>4 DEF IInv, TypeOK, HasToken, Token
<1>6. Registered'
  BY <1>1, <1>2, <1>4 DEF IInv, Registered, Expired, TypeOK
<1>7. OneConnection' /\ ServedIsRegistered'
  BY <1>1, <1>2, <1>4 DEF IInv, OneConnection, ServedIsRegistered, At, Session, Token, TypeOK
<1>8. BindingAllowed'
  <2> SUFFICES ASSUME NEW x \in sessions'
               PROVE  /\ sess'[x].ns # None => CanAccessNamespace(sess'[x].token, sess'[x].ns)
                      /\ sess'[x].subs # {} => sess'[x].ns # None
    BY DEF BindingAllowed, CanAccessNamespace
  <2>1. CASE x = s
    BY <2>1, <1>3, <1>4
  <2>2. CASE x # s
    BY <2>2, <1>1, <1>4 DEF IInv, BindingAllowed, TypeOK
  <2> QED
    BY <2>1, <2>2
<1> QED
  BY <1>5, <1>6, <1>7, <1>8 DEF IInv

\* The connection that loses its session was the only one to serve it.
LEMMA MarkLostStep ==
  ASSUME IInv, NEW c \in Conns, MarkLost(c)
  PROVE  IInv'
<1> DEFINE s == Session(c)
<1>1. At(c, "serve") /\ UNCHANGED <<conn, sessions, byToken, toRemove>>
  BY DEF MarkLost
<1>2. s \in Sessions /\ s \in sessions /\ sess[s] \in SessionStates /\ s \notin toRemove
  BY <1>1, ServedState
<1>3. /\ sess' = [sess EXCEPT ![s].lost = 0]
      /\ hand' = [hand EXCEPT ![c] = Handler("lost")]
  BY DEF MarkLost
<1>4. /\ sess'[s] \in SessionStates /\ sess'[s].token = sess[s].token
      /\ sess'[s].ns = sess[s].ns /\ sess'[s].subs = sess[s].subs
      /\ \A x \in Sessions \ {s} : sess'[x] = sess[x]
  <2>1. /\ sess'[s] = [sess[s] EXCEPT !.lost = 0]
        /\ \A x \in Sessions \ {s} : sess'[x] = sess[x]
    BY <1>2, <1>3, Zenon DEF IInv, TypeOK
  <2>2. 0 \in (0 .. Window + 1) \cup {None}
    OBVIOUS
  <2>3. /\ [sess[s] EXCEPT !.lost = 0] \in SessionStates
        /\ [sess[s] EXCEPT !.lost = 0] =
             [token |-> sess[s].token, ns |-> sess[s].ns, subs |-> sess[s].subs, lost |-> 0]
    BY <1>2, <2>2, LostField, Zenon
  <2> QED
    BY <2>1, <2>3
<1>5. \A d \in Conns : At(d, "serve")' =>
        At(d, "serve") /\ Session(d)' = Session(d) /\ Token(d)' = Token(d) /\ Session(d) # s
  BY <1>1, <1>3 DEF IInv, TypeOK, OneConnection, At, Session, Token, Handler
<1>6. TypeOK' /\ HasToken'
  BY <1>1, <1>2, <1>3, <1>4 DEF IInv, TypeOK, HasToken, Token, Handler
<1>7. Registered'
  BY <1>1, <1>2, <1>4 DEF IInv, Registered, Expired, TypeOK
<1>8. OneConnection'
  BY <1>5 DEF IInv, OneConnection
<1>9. ServedIsRegistered'
  BY <1>1, <1>4, <1>5 DEF IInv, ServedIsRegistered, TypeOK
<1>10. BindingAllowed'
  BY <1>1, <1>2, <1>4 DEF IInv, BindingAllowed, TypeOK, CanAccessNamespace
<1> QED
  BY <1>6, <1>7, <1>8, <1>9, <1>10 DEF IInv

\* A session is restored only if it is lost, so that no connection serves it, and within
\* the window, so that Cleanup has not collected it.
LEMMA RestoreStep ==
  ASSUME IInv, NEW c \in Conns, TryRestore(c)
  PROVE  IInv'
<1>1. At(c, "restore") /\ Token(c) \in Tokens /\ UNCHANGED <<conn, sessions, byToken, toRemove>>
  BY DEF TryRestore, IInv, HasToken, At
<1>2. CASE Goto(c, "create") /\ UNCHANGED sess
  <2>1. /\ TypeOK' /\ HasToken'
        /\ \A d \in Conns : At(d, "serve")' =>
             At(d, "serve") /\ Session(d)' = Session(d) /\ Token(d)' = Token(d)
    BY <1>1, <1>2 DEF IInv, TypeOK, HasToken, At, Session, Token, Goto
  <2>2. Registered' /\ BindingAllowed'
    BY <1>1, <1>2 DEF IInv, Registered, BindingAllowed, Expired
  <2>3. OneConnection'
    BY <2>1 DEF IInv, OneConnection
  <2>4. ServedIsRegistered'
    BY <1>1, <1>2, <2>1 DEF IInv, ServedIsRegistered
  <2> QED
    BY <2>1, <2>2, <2>3, <2>4 DEF IInv
<1>3. CASE \E s \in byToken[Token(c)] : Restorable(s) /\ Restore(s) /\ Serve(c, s)
  <2>1. PICK s \in byToken[Token(c)] : Restorable(s) /\ Restore(s) /\ Serve(c, s)
    BY <1>3
  <2>2. /\ s \in Sessions /\ s \in sessions /\ sess[s] \in SessionStates
        /\ sess[s].token = Token(c)
    BY <1>1 DEF IInv, TypeOK, Registered
  <2>3. sess[s].lost \in 0 .. Window + 1 /\ sess[s].lost < Window /\ s \notin toRemove
    BY <2>1, <2>2 DEF Restorable, SessionStates, IInv, Registered, Expired
  <2>4. /\ sess'[s] \in SessionStates /\ sess'[s].token = sess[s].token /\ sess'[s].lost = None
        /\ sess'[s].ns = sess[s].ns /\ sess'[s].subs = sess[s].subs
        /\ \A x \in Sessions \ {s} : sess'[x] = sess[x]
    BY <2>1, <2>2 DEF IInv, TypeOK, SessionStates, Restore
  <2>5. /\ At(c, "serve")' /\ Session(c)' = s /\ Token(c)' = Token(c)
        /\ \A d \in Conns \ {c} : hand'[d] = hand[d]
    BY <2>1 DEF IInv, TypeOK, Serve, At, Session, Token
  <2>6. \A d \in Conns : At(d, "serve") => Session(d) # s
    BY <2>3 DEF IInv, ServedIsRegistered
  <2>7. TypeOK' /\ HasToken'
    <3>1. sess' \in [Sessions -> SessionStates \cup {None}]
      BY <2>1, <2>2, <2>4 DEF IInv, TypeOK, Restore
    <3> QED
      BY <1>1, <2>1, <2>2, <3>1 DEF IInv, TypeOK, HasToken, Token, Serve
  <2>8. Registered'
    BY <1>1, <2>2, <2>3, <2>4 DEF IInv, Registered, Expired, TypeOK
  <2>9. OneConnection'
    BY <2>5, <2>6 DEF IInv, OneConnection, At, Session
  <2>10. ServedIsRegistered'
    <3> SUFFICES ASSUME NEW d \in Conns, At(d, "serve")'
                 PROVE  /\ Session(d)' \in sessions' /\ Session(d)' \in byToken'[Token(d)']
                        /\ sess'[Session(d)'].token = Token(d)' /\ sess'[Session(d)'].lost = None
      BY DEF ServedIsRegistered
    <3>1. CASE d = c
      BY <3>1, <1>1, <2>2, <2>4, <2>5
    <3>2. CASE d # c
      BY <3>2, <1>1, <2>4, <2>5, <2>6 DEF IInv, ServedIsRegistered, At, Session, Token, TypeOK
    <3> QED
      BY <3>1, <3>2
  <2>11. BindingAllowed'
    <3> SUFFICES ASSUME NEW x \in sessions'
                 PROVE  /\ sess'[x].ns # None => CanAccessNamespace(sess'[x].token, sess'[x].ns)
                        /\ sess'[x].subs # {} => sess'[x].ns # None
      BY DEF BindingAllowed, CanAccessNamespace
    <3>1. CASE x = s
      BY <3>1, <2>2, <2>4 DEF IInv, BindingAllowed
    <3>2. CASE x # s
      BY <3>2, <1>1, <2>4 DEF IInv, BindingAllowed, TypeOK
    <3> QED
      BY <3>1, <3>2
  <2> QED
    BY <2>7, <2>8, <2>9, <2>10, <2>11 DEF IInv
<1> QED
  BY <1>2, <1>3 DEF TryRestore

\* A new session is under an id that nobody serves.
LEMMA CreateStep ==
  ASSUME IInv, NEW c \in Conns, NEW s \in Sessions, CreateSession(c, s)
  PROVE  IInv'
<1>1. /\ At(c, "create") /\ Token(c) \in Tokens /\ UNCHANGED <<conn, toRemove>>
      /\ s \notin sessions /\ s \notin toRemove
      /\ sessions' = sessions \cup {s}
      /\ byToken' = [byToken EXCEPT ![Token(c)] = @ \cup {s}]
  BY DEF CreateSession, IInv, HasToken, At
<1>2. /\ sess'[s] \in SessionStates /\ sess'[s] = NewSession(Token(c))
      /\ \A x \in Sessions \ {s} : sess'[x] = sess[x]
  BY <1>1 DEF CreateSession, IInv, TypeOK, NewSession, SessionStates
<1>3. /\ At(c, "serve")' /\ Session(c)' = s /\ Token(c)' = Token(c)
      /\ \A d \in Conns \ {c} : hand'[d] = hand[d]
  BY DEF CreateSession, IInv, TypeOK, Serve, At, Session, Token
<1>4. \A d \in Conns : At(d, "serve") => Session(d) # s
  BY <1>1 DEF IInv, ServedIsRegistered
<1>5. TypeOK' /\ HasToken'
  <2>1. sess' \in [Sessions -> SessionStates \cup {None}]
    BY <1>1, <1>2 DEF IInv, TypeOK, CreateSession
  <2>2. hand' = [hand EXCEPT ![c] = [at |-> "serve", token |-> Token(c), session |-> s]]
    BY DEF CreateSession, Serve
  <2> QED
    BY <1>1, <2>1, <2>2 DEF IInv, TypeOK, HasToken, Token
<1>6. Registered'
  <2>1. \A x \in sessions' : sess'[x] \in SessionStates
    BY <1>1, <1>2 DEF IInv, Registered, TypeOK
  <2>2. \A t \in Tokens : \A x \in Sessions :
          x \in byToken'[t] <=> x \in sessions' /\ sess'[x].token = t
    BY <1>1, <1>2 DEF IInv, Registered, TypeOK, NewSession
  <2>3. \A x \in toRemove' : x \in sessions' /\ Expired(x)'
    BY <1>1, <1>2 DEF IInv, Registered, TypeOK, Expired
  <2> QED
    BY <2>1, <2>2, <2>3 DEF Registered
<1>7. OneConnection'
  BY <1>3, <1>4 DEF IInv, OneConnection, At, Session
<1>8. ServedIsRegistered'
  <2> SUFFICES ASSUME NEW d \in Conns, At(d, "serve")'
               PROVE  /\ Session(d)' \in sessions' /\ Session(d)' \in byToken'[Token(d)']
                      /\ sess'[Session(d)'].token = Token(d)' /\ sess'[Session(d)'].lost = None
    BY DEF ServedIsRegistered
  <2>1. CASE d = c
    BY <2>1, <1>1, <1>2, <1>3 DEF NewSession, IInv, TypeOK
  <2>2. CASE d # c
    BY <2>2, <1>1, <1>2, <1>3, <1>4 DEF IInv, ServedIsRegistered, HasToken, At, Session, Token, TypeOK
  <2> QED
    BY <2>1, <2>2
<1>9. BindingAllowed'
  <2> SUFFICES ASSUME NEW x \in sessions'
               PROVE  /\ sess'[x].ns # None => CanAccessNamespace(sess'[x].token, sess'[x].ns)
                      /\ sess'[x].subs # {} => sess'[x].ns # None
    BY DEF BindingAllowed, CanAccessNamespace
  <2>1. CASE x = s
    BY <2>1, <1>2 DEF NewSession
  <2>2. CASE x # s
    BY <2>2, <1>1, <1>2 DEF IInv, BindingAllowed, TypeOK
  <2> QED
    BY <2>1, <2>2
<1> QED
  BY <1>5, <1>6, <1>7, <1>8, <1>9 DEF IInv

\* What Cleanup removes is still lost: nobody serves it.
LEMMA RemoveStep ==
  ASSUME IInv, NEW s \in Sessions, RemoveSession(s)
  PROVE  IInv'
<1>1. /\ s \in toRemove /\ UNCHANGED <<conn, hand>>
      /\ toRemove' = toRemove \ {s} /\ sessions' = sessions \ {s}
      /\ byToken' = [t \in Tokens |-> byToken[t] \ {s}]
      /\ sess' = [sess EXCEPT ![s] = None]
  BY DEF RemoveSession
<1>2. \A x \in Sessions \ {s} : sess'[x] = sess[x]
  BY <1>1 DEF IInv, TypeOK
<1>3. \A d \in Conns : At(d, "serve") => Session(d) # s
  BY <1>1, ServedState
<1>4. TypeOK' /\ HasToken'
  BY <1>1 DEF IInv, TypeOK, HasToken, Token
<1>5. Registered'
  BY <1>1, <1>2 DEF IInv, Registered, Expired, TypeOK
<1>6. OneConnection' /\ ServedIsRegistered'
  BY <1>1, <1>2, <1>3 DEF IInv, OneConnection, ServedIsRegistered, HasToken, At, Session, Token, TypeOK
<1>7. BindingAllowed'
  BY <1>1, <1>2 DEF IInv, BindingAllowed, TypeOK, CanAccessNamespace
<1> QED
  BY <1>4, <1>5, <1>6, <1>7 DEF IInv

\* Time only changes the age of lost sessions, and an expired one stays expired.
LEMMA TickStep ==
  ASSUME IInv, Tick
  PROVE  IInv'
<1>1. UNCHANGED <<conn, hand, sessions, byToken, toRemove>> /\ sess' = [s \in Sessions |-> Older(s)]
  BY DEF Tick
<1>2. \A s \in Sessions : s \notin sessions => sess'[s] = sess[s]
  BY <1>1 DEF Older
<1>3. \A s \in sessions :
        /\ sess'[s] \in SessionStates /\ sess'[s].token = sess[s].token
        /\ sess'[s].ns = sess[s].ns /\ sess'[s].subs = sess[s].subs
        /\ sess[s].lost = None => sess'[s].lost = None
        /\ Expired(s) => sess'[s] = sess[s]
  <2> SUFFICES ASSUME NEW s \in sessions
               PROVE  /\ sess'[s] \in SessionStates /\ sess'[s].token = sess[s].token
                      /\ sess'[s].ns = sess[s].ns /\ sess'[s].subs = sess[s].subs
                      /\ sess[s].lost = None => sess'[s].lost = None
                      /\ Expired(s) => sess'[s] = sess[s]
    OBVIOUS
  <2>1. s \in Sessions /\ sess[s] \in SessionStates /\ sess'[s] = Older(s)
    BY <1>1 DEF IInv, TypeOK, Registered
  <2>2. CASE sess[s].lost # None /\ sess[s].lost <= Window
    <3>1. sess[s].lost + 1 \in (0 .. Window + 1) \cup {None} /\ ~Expired(s)
      BY <2>1, <2>2 DEF SessionStates, Expired
    <3>2. sess'[s] = [sess[s] EXCEPT !.lost = sess[s].lost + 1]
      BY <2>1, <2>2 DEF Older
    <3>3. PICK n \in (0 .. Window + 1) \cup {None} : n = sess[s].lost + 1
      BY <3>1
    <3>4. /\ sess'[s] = [sess[s] EXCEPT !.lost = n]
          /\ sess'[s] \in SessionStates
          /\ sess'[s] = [token |-> sess[s].token, ns |-> sess[s].ns, subs |-> sess[s].subs, lost |-> n]
      <4>1. sess'[s] = [sess[s] EXCEPT !.lost = n]
        BY <3>2, <3>3
      <4>2. /\ [sess[s] EXCEPT !.lost = n] \in SessionStates
            /\ [sess[s] EXCEPT !.lost = n] =
                 [token |-> sess[s].token, ns |-> sess[s].ns, subs |-> sess[s].subs, lost |-> n]
        BY <2>1, LostField, Zenon
      <4> QED
        BY <4>1, <4>2, Zenon
    <3> QED
      BY <2>2, <3>1, <3>4
  <2>3. CASE ~(sess[s].lost # None /\ sess[s].lost <= Window)
    <3>1. sess'[s] = sess[s]
      BY <2>1, <2>3 DEF Older
    <3> QED
      BY <2>1, <3>1
  <2> QED
    BY <2>2, <2>3
<1>4. TypeOK' /\ HasToken'
  BY <1>1, <1>2, <1>3 DEF IInv, TypeOK, HasToken, Token
<1>5. Registered'
  BY <1>1, <1>3 DEF IInv, Registered, Expired, TypeOK
<1>6. OneConnection' /\ ServedIsRegistered'
  BY <1>1, <1>3 DEF IInv, OneConnection, ServedIsRegistered, At, Session, Token
<1>7. BindingAllowed'
  BY <1>1, <1>3 DEF IInv, BindingAllowed, CanAccessNamespace
<1> QED
  BY <1>4, <1>5, <1>6, <1>7 DEF IInv

-----------------------------------------------------------------------------
LEMMA InitHolds == Init => IInv
BY DEF Init, IInv, TypeOK, Registered, HasToken, OneConnection, ServedIsRegistered, BindingAllowed,
       Handler, At, Session, Token

LEMMA Inductive == IInv /\ [Next]_vars => IInv'
<1> SUFFICES ASSUME IInv, [Next]_vars PROVE IInv'
  OBVIOUS
<1>1. CASE Next
  BY <1>1, NextCases, ConnectionStep, CollectStep, RequestStep, MarkLostStep, RestoreStep, CreateStep,
     RemoveStep, TickStep
<1>2. CASE UNCHANGED vars
  BY <1>2 DEF vars, IInv, TypeOK, Registered, HasToken, OneConnection, ServedIsRegistered,
              BindingAllowed, Expired, At, Session, Token, CanAccessNamespace
<1> QED
  BY <1>1, <1>2

LEMMA IInvHolds == Spec => []IInv
BY InitHolds, Inductive, PTL DEF Spec

\* The variables of the connections, the sessions and both indices keep their types.
THEOREM TypeCorrect == Spec => []TypeOK
BY IInvHolds, PTL DEF IInv

\* Two connections never serve one session, however many look for a lost session of one
\* token at the same time.
THEOREM OneConnectionHolds == Spec => []OneConnection
BY IInvHolds, PTL DEF IInv

\* The session of a connection is never removed by a Cleanup that had found it lost.
THEOREM ServedIsRegisteredHolds == Spec => []ServedIsRegistered
BY IInvHolds, PTL DEF IInv

\* No session is bound to a namespace that its token may not access, across reconnections.
THEOREM BindingAllowedHolds == Spec => []BindingAllowed
BY IInvHolds, PTL DEF IInv

\* A step keeps the binding and the token of every session that stays registered: only
\* BindNamespace writes the namespace, and not over another one.
LEMMA BindingKept ==
  ASSUME IInv, Next, NEW s \in sessions, s \in sessions', sess[s].ns # None
  PROVE  sess'[s].ns = sess[s].ns /\ sess'[s].token = sess[s].token
<1>1. s \in Sessions /\ sess[s] \in SessionStates /\ sess \in [Sessions -> SessionStates \cup {None}]
  BY DEF IInv, TypeOK, Registered
<1>2. CASE UNCHANGED sess
  BY <1>2
<1>3. CASE \E c \in Conns, x \in Sessions : CreateSession(c, x)
  BY <1>1, <1>3 DEF CreateSession
<1>4. CASE \E x \in Sessions : RemoveSession(x)
  BY <1>1, <1>4 DEF RemoveSession
<1>5. CASE Tick
  <2>1. sess'[s] = Older(s)
    BY <1>1, <1>5 DEF Tick
  <2> QED
    BY <1>1, <2>1 DEF Older, SessionStates
<1>6. ASSUME NEW x \in Sessions, NEW n \in (0 .. Window + 1) \cup {None}, sess' = [sess EXCEPT ![x].lost = n]
      PROVE  sess'[s].ns = sess[s].ns /\ sess'[s].token = sess[s].token
  <2>1. CASE x = s
    <3>1. sess'[s] = [sess[s] EXCEPT !.lost = n]
      BY <1>1, <1>6, <2>1, Zenon
    <3>2. [sess[s] EXCEPT !.lost = n] =
            [token |-> sess[s].token, ns |-> sess[s].ns, subs |-> sess[s].subs, lost |-> n]
      BY <1>1, LostField, Zenon
    <3> QED
      BY <3>1, <3>2
  <2>2. CASE x # s
    BY <1>1, <1>6, <2>2, Zenon
  <2> QED
    BY <2>1, <2>2
<1>7. CASE \E c \in Conns : MarkLost(c)
  <2>1. PICK c \in Conns : MarkLost(c)
    BY <1>7
  <2>2. Session(c) \in Sessions
    BY <2>1, ServedState DEF MarkLost
  <2> QED
    BY <1>6, <2>1, <2>2 DEF MarkLost
<1>8. CASE \E c \in Conns : TryRestore(c)
  <2>1. PICK c \in Conns : TryRestore(c)
    BY <1>8
  <2>2. Token(c) \in Tokens
    BY <2>1 DEF TryRestore, IInv, HasToken, At
  <2>3. UNCHANGED sess \/ \E x \in Sessions : Restore(x)
    BY <2>1, <2>2 DEF TryRestore, IInv, TypeOK
  <2> QED
    BY <1>2, <1>6, <2>3 DEF Restore
<1>9. CASE \E c \in Conns, ns \in Namespaces : BindNamespace(c, ns)
  <2>1. PICK c \in Conns, ns \in Namespaces : BindNamespace(c, ns)
    BY <1>9
  <2>2. Session(c) \in Sessions /\ sess[Session(c)] \in SessionStates
    BY <2>1, ServedState DEF BindNamespace
  <2>3. CASE Session(c) = s
    <3>1. sess'[s] = [sess[s] EXCEPT !.ns = ns] /\ sess[s].ns = ns
      BY <1>1, <2>1, <2>3 DEF BindNamespace, MayBind
    <3> QED
      BY <1>1, <3>1 DEF SessionStates
  <2>4. CASE Session(c) # s
    BY <1>1, <2>1, <2>4 DEF BindNamespace
  <2> QED
    BY <2>3, <2>4
<1>10. CASE \E c \in Conns, ps \in SUBSET Pollers :
               Subscribe(c, ps) \/ SubscribeByPath(c, ps) \/ Unsubscribe(c, ps)
  <2>0. PICK c \in Conns : \E subs : sess' = [sess EXCEPT ![Session(c)].subs = subs]
    BY <1>10 DEF Subscribe, SubscribeByPath, Unsubscribe, AddKeys, DropKeys
  <2>1. PICK subs : sess' = [sess EXCEPT ![Session(c)].subs = subs]
    BY <2>0
  <2>2. CASE Session(c) = s
    <3>1. sess'[s] = [sess[s] EXCEPT !.subs = subs]
      BY <1>1, <2>1, <2>2
    <3> QED
      BY <1>1, <3>1 DEF SessionStates
  <2>3. CASE Session(c) # s
    BY <1>1, <2>1, <2>3
  <2> QED
    BY <2>2, <2>3
<1> QED
  BY <1>2, <1>3, <1>4, <1>5, <1>7, <1>8, <1>9, <1>10, NextCases
  DEF Dial, Hangup, AuthFails, ValidateToken, Collect

\* A session is bound to one namespace at the most, for as long as it is registered.
THEOREM BoundOnceHolds == Spec => BoundOnce
<1>1. IInv /\ [Next]_vars =>
        [\A s \in sessions \cap sessions' :
           sess[s].ns # None => sess'[s].ns = sess[s].ns /\ sess'[s].token = sess[s].token]_vars
  BY BindingKept
<1> QED
  BY <1>1, IInvHolds, PTL DEF Spec, BoundOnce
=============================================================================
