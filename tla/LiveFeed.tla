------------------------------ MODULE LiveFeed ------------------------------
(***************************************************************************)
(* One tab's live notifications: the reconnecting WebSocket, the persisted *)
(* notification store it feeds, the toasts it puts on the screen.          *)
(*                                                                         *)
(* A browser socket outlives the client's reference to it, `ws`: its events*)
(* reach the client until it is closed.  A connection that fails fires     *)
(* error and close in one task, so the handler of both runs twice.  Sockets *)
(* that are closed are reused as new ones.  Titles and texts are left out:  *)
(* a notification is the event it tells of.                                 *)
(***************************************************************************)
EXTENDS Naturals, FiniteSets, SequencesExt

CONSTANTS
    Sockets,
    None,                  \* no socket
    FeedEvents,            \* notifications the server sends
    PageEvents,            \* notifications pages add
    Category,              \* event -> its category
    MaxReconnectAttempts,  \* maxReconnectAttempts
    MaxTimers,             \* bound on pending reconnect timers
    MaxLoads               \* bound on how often the tab is loaded

ASSUME NoneAssumption == None \notin Sockets
ASSUME EventsAssumption == FeedEvents \intersect PageEvents = {}
ASSUME AttemptsAssumption == MaxReconnectAttempts \in Nat
ASSUME TimersAssumption == MaxTimers \in Nat
ASSUME LoadsAssumption == MaxLoads \in Nat \ {0}

Events == FeedEvents \union PageEvents
Categories == {Category[e] : e \in Events}

VARIABLES
    sock,          \* socket -> its readyState
    ws,            \* the client's socket
    status,        \* the client's status
    attempts,      \* reconnectAttempts
    reconnects,    \* reconnect timers that are pending
    heartbeat,     \* whether the heartbeat timer runs
    sent,          \* events that have happened
    wire,          \* <<socket, event>> on their way to the tab
    notifications, \* the store's list, newest first; persisted
    enabled,       \* categories switched on in the preferences; persisted
    toasts,        \* events on the screen, oldest first
    loads,         \* history: how often the tab has been loaded
    disconnected   \* history: disconnect() has been called

client == <<ws, status, attempts, reconnects, heartbeat>>
notices == <<notifications, enabled, toasts>>
loadHistory == <<loads, disconnected>>
feedVars == <<sock, client, sent, wire, notices, loadHistory>>

FeedTypeOK ==
    /\ sock \in [Sockets -> {"connecting", "open", "closing", "closed"}]
    /\ ws \in Sockets \union {None}
    /\ status \in {"connecting", "open", "closed"}
    /\ attempts \in 0..MaxReconnectAttempts
    /\ reconnects \in 0..MaxTimers
    /\ heartbeat \in BOOLEAN
    /\ sent \subseteq Events
    /\ wire \subseteq Sockets \X FeedEvents
    /\ notifications \in Seq([of : Events, read : BOOLEAN])
    /\ enabled \subseteq Categories
    /\ toasts \in Seq(Events)
    /\ loads \in 0..MaxLoads
    /\ disconnected \in BOOLEAN

Live == {s \in Sockets : sock[s] \in {"connecting", "open"}}

\* The tab is not loaded yet, and clearAll has emptied the persisted list, which
\* starts with two samples that tell of no event.
FeedInit ==
    /\ ws = None
    /\ sock = [s \in Sockets |-> "closed"]
    /\ status = "closed"
    /\ attempts = 0
    /\ reconnects = 0
    /\ heartbeat = FALSE
    /\ sent = {}
    /\ wire = {}
    /\ notifications = <<>>
    /\ enabled = Categories
    /\ toasts = <<>>
    /\ loads = 0
    /\ disconnected = FALSE

-----------------------------------------------------------------------------
(* The socket client.                                                      *)

\* Mutant: the attempts are not counted.
HandleUncounted(n, pending) ==
    /\ pending + 1 <= MaxTimers
    /\ status' = "closed"
    /\ heartbeat' = FALSE
    /\ ws' = None
    /\ reconnects' = pending + 1
    /\ UNCHANGED attempts

\* n calls of handleCloseOrFailure, after `pending` reconnect timers are left.
\* Each call takes one attempt and one timer, as long as attempts are left.
HandleCloseOrFailure(n, pending) ==
    LET more == IF attempts + n <= MaxReconnectAttempts
                THEN n ELSE MaxReconnectAttempts - attempts
    IN  /\ pending + more <= MaxTimers
        /\ status' = "closed"
        /\ heartbeat' = FALSE
        /\ ws' = None
        /\ attempts' = attempts + more
        /\ reconnects' = pending + more

\* Mutant: the readyState is not looked at.
ReconnectAlways ==
    /\ reconnects > 0
    /\ \E s \in Sockets :
          /\ sock[s] = "closed"
          /\ sock' = [sock EXCEPT ![s] = "connecting"]
          /\ ws' = s
          /\ status' = "connecting"
          /\ reconnects' = reconnects - 1
          /\ UNCHANGED <<attempts, heartbeat>>
    /\ UNCHANGED <<sent, wire, notices, loadHistory>>

\* The reconnect timer calls connect(), which does nothing if the client's
\* socket is live, and handles a WebSocket constructor that throws.
Reconnect ==
    /\ reconnects > 0
    /\ IF ws \in Live
       THEN /\ reconnects' = reconnects - 1
            /\ UNCHANGED <<sock, ws, status, attempts, heartbeat>>
       ELSE \/ \E s \in Sockets :
                  /\ sock[s] = "closed"
                  /\ sock' = [sock EXCEPT ![s] = "connecting"]
                  /\ ws' = s
                  /\ status' = "connecting"
                  /\ reconnects' = reconnects - 1
                  /\ UNCHANGED <<attempts, heartbeat>>
            \/ /\ HandleCloseOrFailure(1, reconnects - 1)
               /\ UNCHANGED sock
    /\ UNCHANGED <<sent, wire, notices, loadHistory>>

\* onopen.
Opens(s) ==
    /\ sock[s] = "connecting"
    /\ sock' = [sock EXCEPT ![s] = "open"]
    /\ status' = "open"
    /\ attempts' = 0
    /\ heartbeat' = TRUE
    /\ UNCHANGED <<ws, reconnects, sent, wire, notices, loadHistory>>

SocketCloses(s) ==
    /\ sock' = [sock EXCEPT ![s] = "closed"]
    /\ wire' = {m \in wire : m[1] # s}
    /\ UNCHANGED <<sent, notices, loadHistory>>

\* Mutant: a failure is taken for the end of the retries.
FailsForGood(s) ==
    /\ s \in Live
    /\ status' = "closed"
    /\ heartbeat' = FALSE
    /\ ws' = None
    /\ SocketCloses(s)
    /\ UNCHANGED <<attempts, reconnects>>

\* onerror, then onclose.
Fails(s) ==
    /\ s \in Live
    /\ HandleCloseOrFailure(2, reconnects)
    /\ SocketCloses(s)

\* onclose alone: the server says goodbye, or disconnect() has closed it.
Closes(s) ==
    /\ sock[s] \in {"open", "closing"}
    /\ HandleCloseOrFailure(1, reconnects)
    /\ SocketCloses(s)

\* disconnect().  The socket's onclose is still to come, and the reconnect
\* timers are not stopped.
Disconnect ==
    /\ heartbeat' = FALSE
    /\ sock' = IF ws = None THEN sock ELSE [sock EXCEPT ![ws] = "closing"]
    /\ ws' = None
    /\ status' = "closed"
    /\ disconnected' = TRUE
    /\ UNCHANGED <<loads, attempts, reconnects, sent, wire, notices>>

-----------------------------------------------------------------------------
(* Notifications.                                                          *)

\* addNotification: nothing if the category is switched off; otherwise the
\* list grows in front and a toast is shown.
AddNotification(e) ==
    /\ IF Category[e] \in enabled
       THEN /\ notifications' = <<[of |-> e, read |-> FALSE]>> \o notifications
            /\ toasts' = Append(toasts, e)
       ELSE UNCHANGED <<notifications, toasts>>
    /\ UNCHANGED enabled

\* A page of the application adds one.
PageAdds(e) ==
    /\ e \notin sent
    /\ sent' = sent \union {e}
    /\ AddNotification(e)
    /\ UNCHANGED <<sock, client, wire, loadHistory>>

\* The server tells every socket that is open.
Broadcast(e) ==
    /\ e \notin sent
    /\ sent' = sent \union {e}
    /\ wire' = wire \union ({s \in Sockets : sock[s] = "open"} \X {e})
    /\ UNCHANGED <<sock, client, notices, loadHistory>>

\* onmessage, and the store's listener; a socket that is closing hears nothing.
Message(s, e) ==
    /\ <<s, e>> \in wire
    /\ wire' = wire \ {<<s, e>>}
    /\ IF sock[s] = "open" THEN AddNotification(e) ELSE UNCHANGED notices
    /\ UNCHANGED <<sock, client, sent, loadHistory>>

MarkAsRead(i) ==
    /\ i \in DOMAIN notifications
    /\ notifications' = [notifications EXCEPT ![i].read = TRUE]
    /\ UNCHANGED <<sock, client, sent, wire, enabled, toasts, loadHistory>>

MarkAllAsRead ==
    /\ notifications' = [i \in DOMAIN notifications |->
                            [of |-> notifications[i].of, read |-> TRUE]]
    /\ UNCHANGED <<sock, client, sent, wire, enabled, toasts, loadHistory>>

ClearAll ==
    /\ notifications' = <<>>
    /\ UNCHANGED <<sock, client, sent, wire, enabled, toasts, loadHistory>>

UpdatePreference(c) ==
    /\ enabled' \in {enabled \union {c}, enabled \ {c}}
    /\ UNCHANGED <<sock, client, sent, wire, notifications, toasts, loadHistory>>

\* A toast's time is up.  Every change of the list renders all toasts with a
\* new onRemove and so starts their timers anew, in their order: the oldest
\* is the next to go.
ExpireToast ==
    /\ toasts # <<>>
    /\ toasts' = Tail(toasts)
    /\ UNCHANGED <<sock, client, sent, wire, notifications, enabled, loadHistory>>

DismissToast(i) ==
    /\ i \in DOMAIN toasts
    /\ toasts' = RemoveAt(toasts, i)
    /\ UNCHANGED <<sock, client, sent, wire, notifications, enabled, loadHistory>>

-----------------------------------------------------------------------------
\* The tab is loaded, for the first time or anew: the store's module calls
\* connect(), and only its list and preferences are what they were.
LoadTab ==
    /\ loads < MaxLoads
    /\ loads' = loads + 1
    /\ ws' \in Sockets
    /\ sock' = [s \in Sockets |-> IF s = ws' THEN "connecting" ELSE "closed"]
    /\ status' = "connecting"
    /\ attempts' = 0
    /\ reconnects' = 0
    /\ heartbeat' = FALSE
    /\ wire' = {}
    /\ toasts' = <<>>
    /\ UNCHANGED <<sent, notifications, enabled, disconnected>>

FeedMoves ==
    \/ \E s \in Sockets : Opens(s) \/ Fails(s) \/ Closes(s)
    \/ Reconnect \/ Disconnect
    \/ \E e \in PageEvents : PageAdds(e)
    \/ \E e \in FeedEvents : Broadcast(e) \/ \E s \in Sockets : Message(s, e)
    \/ \E i \in DOMAIN notifications : MarkAsRead(i)
    \/ MarkAllAsRead \/ ClearAll
    \/ \E c \in Categories : UpdatePreference(c)
    \/ ExpireToast \/ \E i \in DOMAIN toasts : DismissToast(i)

FeedNext ==
    \/ LoadTab
    \/ (loads > 0 /\ FeedMoves)

FeedSpec == FeedInit /\ [][FeedNext]_feedVars

\* Timers fire, and the browser ends every attempt to connect.
FeedFairness ==
    /\ WF_feedVars(Reconnect)
    /\ \A s \in Sockets : WF_feedVars(Opens(s) \/ Fails(s))

-----------------------------------------------------------------------------
(* Properties.                                                             *)

\* The tab has no socket but the one the client knows, in the state the client
\* tells its listeners, with the heartbeat running just while it is open:
\* although a failure schedules two reconnects and reconnect timers are never
\* stopped.  A late close after disconnect() takes the client's reference away
\* and is the exception (websocket.ts, connect and handleCloseOrFailure).
OneSocket ==
    ~disconnected =>
        /\ Live = {ws} \ {None}
        /\ status = IF ws = None THEN "closed" ELSE sock[ws]
        /\ heartbeat = (status = "open")

\* A feed that is down comes back by itself as long as it has attempts left
\* (websocket.ts, handleCloseOrFailure).
ReconnectPending ==
    loads > 0 /\ status = "closed" /\ ~disconnected =>
        reconnects > 0 \/ attempts = MaxReconnectAttempts

\* One event is one notification: reconnects never leave two sockets that both
\* hear it (websocket.ts and the store's listener).
NotifiedOnce ==
    ~disconnected => \A i, j \in DOMAIN notifications :
        notifications[i].of = notifications[j].of => i = j

\* The feed does not try for ever: it is open again and again, or gives up
\* (websocket.ts, reconnectAttempts).
FeedSettles ==
    []<>(status = "open" \/ (status = "closed" /\ reconnects = 0))

-----------------------------------------------------------------------------
(* The inductive invariant behind the safety properties.                   *)

\* Only disconnect() leaves a socket behind that is still to close.
NoneClosing == ~disconnected => \A s \in Sockets : sock[s] # "closing"

\* An event that is on its way or in the list has happened, and is there once.
NoticesSound ==
    /\ \A m \in wire : m[2] \in sent
    /\ \A i \in DOMAIN notifications : notifications[i].of \in sent
    /\ ~disconnected =>
          /\ \A m, n \in wire : m[2] = n[2] => m = n
          /\ \A i \in DOMAIN notifications : \A m \in wire : notifications[i].of # m[2]

FeedInv ==
    /\ FeedTypeOK
    /\ OneSocket
    /\ ReconnectPending
    /\ NotifiedOnce
    /\ NoneClosing
    /\ NoticesSound

=============================================================================
