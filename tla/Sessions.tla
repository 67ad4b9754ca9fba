------------------------------ MODULE Sessions ------------------------------
(***************************************************************************)
(* Connections and sessions of the server: Server.handleConn and           *)
(* cleanupLoop (internal/server/server.go), the session manager            *)
(* (internal/handler/session.go) and the requests that change a session    *)
(* (internal/handler/subscription.go, namespace.go).                       *)
(*                                                                         *)
(* A session outlives its connection: it is marked lost, can be taken over *)
(* by the next connection with the same token within the reconnect window, *)
(* and is removed by the cleanup after it.  Time is the age of a lost      *)
(* session, in steps, up to Window + 1.                                    *)
(*                                                                         *)
(* sendAuthResponse sends nothing and handleMessage does nothing yet; the  *)
(* requests are those of MessageDispatcher.Dispatch, which a connection    *)
(* makes one after the other.  Nothing fills the subscription index, so    *)
(* BroadcastSample finds nobody and the send channel stays empty; nothing  *)
(* closes it either (Session.Close has no caller).                         *)
(***************************************************************************)
EXTENDS Naturals

CONSTANTS
  Conns,       \* the connections of the run
  Sessions,    \* session ids; one that is no longer registered may come back
  Tokens,
  Namespaces,
  Allowed,     \* TokenConfig.Namespaces of a token; {}: all
  Pollers,     \* "target/poller" keys
  Window,      \* reconnectWindow
  None

ASSUME SessionsAssumption ==
  /\ Allowed \in [Tokens -> SUBSET Namespaces]
  /\ Window \in Nat \ {0}
  /\ None \notin Conns \cup Sessions \cup Tokens \cup Namespaces \cup Nat

VARIABLES
  conn,      \* a connection
  hand,      \* handleConn of a connection: its next step and its variables
  sess,      \* the session objects
  sessions,  \* SessionManager.sessions
  byToken,   \* SessionManager.byToken
  toRemove   \* Cleanup: collected, not yet removed

vars == <<conn, hand, sess, sessions, byToken, toRemove>>

SessionStates ==
  [token : Tokens, ns : Namespaces \cup {None}, subs : SUBSET Pollers,
   lost : (0 .. Window + 1) \cup {None}]
Handler(step) == [at |-> step, token |-> None, session |-> None]
\* Mutant of NewSession: the token id is not set.
NewSessionNoToken(t) == [token |-> None, ns |-> None, subs |-> {}, lost |-> None]

NewSession(t) == [token |-> t, ns |-> None, subs |-> {}, lost |-> None]

TypeOK ==
  /\ conn \in [Conns -> {"unused", "open", "closed"}]
  /\ hand \in [Conns -> [at : {"none", "auth", "restore", "create", "serve", "lost", "ended"},
                         token : Tokens \cup {None}, session : Sessions \cup {None}]]
  /\ sess \in [Sessions -> SessionStates \cup {None}]
  /\ sessions \subseteq Sessions
  /\ byToken \in [Tokens -> SUBSET Sessions]
  /\ toRemove \subseteq Sessions

Init ==
  /\ conn = [c \in Conns |-> "unused"]
  /\ hand = [c \in Conns |-> Handler("none")]
  /\ sess = [s \in Sessions |-> None]
  /\ sessions = {}
  /\ byToken = [t \in Tokens |-> {}]
  /\ toRemove = {}

-----------------------------------------------------------------------------
(* The other end.                                                          *)

\* A client connects; Run accepts and starts handleConn.
Dial(c) ==
  /\ conn[c] = "unused"
  /\ conn' = [conn EXCEPT ![c] = "open"]
  /\ hand' = [hand EXCEPT ![c] = Handler("auth")]
  /\ UNCHANGED <<sess, sessions, byToken, toRemove>>

\* The client closes the connection or the network breaks it.
Hangup(c) ==
  /\ conn[c] = "open"
  /\ conn' = [conn EXCEPT ![c] = "closed"]
  /\ UNCHANGED <<hand, sess, sessions, byToken, toRemove>>

-----------------------------------------------------------------------------
(* handleConn.                                                             *)

At(c, step) == hand[c].at = step
Goto(c, step) == hand' = [hand EXCEPT ![c].at = step]
Token(c) == hand[c].token
Session(c) == hand[c].session

\* No message before the deadline, one that is not auth, or a bad token.
AuthFails(c) ==
  /\ At(c, "auth")
  /\ conn' = [conn EXCEPT ![c] = "closed"]
  /\ hand' = [hand EXCEPT ![c] = Handler("ended")]
  /\ UNCHANGED <<sess, sessions, byToken, toRemove>>

ValidateToken(c, t) ==
  /\ At(c, "auth")
  /\ hand' = [hand EXCEPT ![c] = [at |-> "restore", token |-> t, session |-> None]]
  /\ UNCHANGED <<conn, sess, sessions, byToken, toRemove>>

Restorable(s) == sess[s].lost # None /\ sess[s].lost < Window

Serve(c, s) == hand' = [hand EXCEPT ![c] = [at |-> "serve", token |-> Token(c), session |-> s]]

\* Mutant of Restore: the time of the loss is kept.
RestoreStillLost(s) == sess' = [sess EXCEPT ![s].subs = @]

\* Session.Restore: a new connection and send channel, not lost any more.
Restore(s) == sess' = [sess EXCEPT ![s].lost = None]

\* The window is checked under the manager's lock, here and in Cleanup.
TryRestore(c) ==
  /\ At(c, "restore")
  /\ IF \E s \in byToken[Token(c)] : Restorable(s)
     THEN \E s \in byToken[Token(c)] : Restorable(s) /\ Restore(s) /\ Serve(c, s)
     ELSE Goto(c, "create") /\ UNCHANGED sess
  /\ UNCHANGED <<conn, sessions, byToken, toRemove>>

CreateSession(c, s) ==
  /\ At(c, "create")
  /\ s \notin sessions \cup toRemove
  /\ sess' = [sess EXCEPT ![s] = NewSession(Token(c))]
  /\ sessions' = sessions \cup {s}
  /\ byToken' = [byToken EXCEPT ![Token(c)] = @ \cup {s}]
  /\ Serve(c, s)
  /\ UNCHANGED <<conn, toRemove>>

\* The read fails: MarkLost.  The handler then waits for its writer, which ends
\* only when the send channel is closed or a write fails, and neither happens.
MarkLost(c) ==
  /\ At(c, "serve")
  /\ conn[c] = "closed"
  /\ sess' = [sess EXCEPT ![Session(c)].lost = 0]
  /\ hand' = [hand EXCEPT ![c] = Handler("lost")]
  /\ UNCHANGED <<conn, sessions, byToken, toRemove>>

-----------------------------------------------------------------------------
(* Requests on the session of a connection.                                *)

CanAccessNamespace(t, ns) == Allowed[t] = {} \/ ns \in Allowed[t]

\* Mutant of MayBind: the access is not checked.
MayBindAny(s, ns) == sess[s].ns \in {None, ns}

\* Mutant of MayBind: the namespace of a bound session is not compared.
MayBindAgain(s, ns) == CanAccessNamespace(sess[s].token, ns)

MayBind(s, ns) ==
  /\ CanAccessNamespace(sess[s].token, ns)
  /\ sess[s].ns \in {None, ns}

BindNamespace(c, ns) ==
  /\ At(c, "serve")
  /\ MayBind(Session(c), ns)
  /\ sess' = [sess EXCEPT ![Session(c)].ns = ns]
  /\ UNCHANGED <<conn, hand, sessions, byToken, toRemove>>

\* Session.Subscribe, for each key.
AddKeys(c, ps) == sess' = [sess EXCEPT ![Session(c)].subs = @ \cup ps]
\* Session.Unsubscribe for each key, or UnsubscribeAll.
DropKeys(c, ps) == sess' = [sess EXCEPT ![Session(c)].subs = @ \ ps]

\* RequireNamespace; ps are the pollers of the request, named or of a named target,
\* that exist.
Subscribe(c, ps) ==
  /\ At(c, "serve")
  /\ sess[Session(c)].ns # None
  /\ AddKeys(c, ps)
  /\ UNCHANGED <<conn, hand, sessions, byToken, toRemove>>

\* Here ps are the pollers the paths resolve to.
SubscribeByPath(c, ps) ==
  /\ At(c, "serve")
  /\ sess[Session(c)].ns # None
  /\ AddKeys(c, ps)
  /\ UNCHANGED <<conn, hand, sessions, byToken, toRemove>>

\* Unsubscribe from given keys, or from all.
Unsubscribe(c, ps) ==
  /\ At(c, "serve")
  /\ DropKeys(c, ps)
  /\ UNCHANGED <<conn, hand, sessions, byToken, toRemove>>

-----------------------------------------------------------------------------
(* cleanupLoop.                                                            *)

\* Mutant of Expired: half of the window is enough.
ExpiredEarly(s) == sess[s].lost # None /\ 2 * sess[s].lost >= Window

\* Mutant of Expired: the comparison is turned round.
ExpiredTurned(s) == sess[s].lost # None /\ sess[s].lost < Window

Expired(s) == sess[s].lost # None /\ sess[s].lost > Window

\* Cleanup collects under the lock, releases it and removes one by one.
Collect ==
  /\ toRemove = {}
  /\ toRemove' = {s \in sessions : Expired(s)}
  /\ UNCHANGED <<conn, hand, sess, sessions, byToken>>

RemoveSession(s) ==
  /\ s \in toRemove
  /\ toRemove' = toRemove \ {s}
  /\ sessions' = sessions \ {s}
  /\ byToken' = [t \in Tokens |-> byToken[t] \ {s}]
  /\ sess' = [sess EXCEPT ![s] = None]
  /\ UNCHANGED <<conn, hand>>

\* Time passes for the lost sessions.
Older(s) ==
  IF s \in sessions /\ sess[s].lost # None /\ sess[s].lost <= Window
  THEN [sess[s] EXCEPT !.lost = @ + 1] ELSE sess[s]
Tick ==
  /\ \E s \in sessions : sess[s].lost # None /\ sess[s].lost <= Window
  /\ sess' = [s \in Sessions |-> Older(s)]
  /\ UNCHANGED <<conn, hand, sessions, byToken, toRemove>>

-----------------------------------------------------------------------------
Requests(c) ==
  \/ \E ns \in Namespaces : BindNamespace(c, ns)
  \/ \E ps \in SUBSET Pollers : Subscribe(c, ps) \/ SubscribeByPath(c, ps) \/ Unsubscribe(c, ps)

Handle(c) ==
  \/ AuthFails(c) \/ TryRestore(c)
  \/ \E t \in Tokens : ValidateToken(c, t)
  \/ \E s \in Sessions : CreateSession(c, s)
  \/ MarkLost(c)

Cleanup == Collect \/ \E s \in Sessions : RemoveSession(s)

Next ==
  \/ \E c \in Conns : Dial(c) \/ Hangup(c) \/ Handle(c) \/ Requests(c)
  \/ Cleanup \/ Tick

Spec == Init /\ [][Next]_vars

\* The cleanup loop runs and time passes; connections handle what they read.
Fairness ==
  /\ WF_vars(Tick)
  /\ WF_vars(Cleanup)
  /\ \A c \in Conns : WF_vars(Handle(c))
FairSpec == Spec /\ Fairness

-----------------------------------------------------------------------------
(* Properties.                                                             *)

\* No two connections serve one session, although connections with the same
\* token look for a lost session at the same time.
OneConnection ==
  \A c, d \in Conns :
    At(c, "serve") /\ At(d, "serve") /\ Session(c) = Session(d) => c = d

\* The session of a connection that is served stays registered under its token
\* and is not lost: Cleanup, which decides under the lock and removes after it,
\* never takes a session that was restored in between.
ServedIsRegistered ==
  \A c \in Conns :
    At(c, "serve") =>
      /\ Session(c) \in sessions
      /\ Session(c) \in byToken[Token(c)]
      /\ sess[Session(c)].token = Token(c)
      /\ sess[Session(c)].lost = None

\* Across reconnections a session is only ever bound to one namespace, one its
\* token may access, and has subscriptions only while it is bound.
BoundOnce ==
  [][\A s \in sessions \cap sessions' :
       sess[s].ns # None => sess'[s].ns = sess[s].ns /\ sess'[s].token = sess[s].token]_vars
BindingAllowed ==
  \A s \in sessions :
    /\ sess[s].ns # None => CanAccessNamespace(sess[s].token, sess[s].ns)
    /\ sess[s].subs # {} => sess[s].ns # None

\* A lost session is restored or removed: nothing of it stays for ever.
LostResolves ==
  \A s \in Sessions :
    (s \in sessions /\ sess[s].lost # None)
      ~> (s \notin sessions \/ sess[s].lost = None)
=============================================================================
