---------------------------- MODULE ApiSession ----------------------------
(***************************************************************************)
(* One browser tab's session: the auth store, the axios interceptors with   *)
(* their refresh queue, the login form, and the auth service they talk to.  *)
(*                                                                         *)
(* Login and rotation issue pairs of an access and a refresh token, here    *)
(* numbers; pair 0 is "none".  A call to the API is a slot of Requests      *)
(* (pages), Logins (the login form) or Logouts (the revocation posts of     *)
(* logout()).  Its answer and the handling of the answer are two steps.     *)
(* Pages other than the login page are behind ProtectedRoute: they send     *)
(* requests only while the store holds credentials.                         *)
(***************************************************************************)
EXTENDS Integers

CONSTANTS
    Requests, Logins, Logouts,   \* call slots, disjoint
    NoCall,                      \* no call
    MaxPairs                     \* bound on the pairs ever issued

Calls == Requests \union Logins \union Logouts

ASSUME SlotsAssumption ==
    /\ Requests \intersect Logins = {}
    /\ Requests \intersect Logouts = {}
    /\ Logins \intersect Logouts = {}
    /\ NoCall \notin Requests \union Logins \union Logouts
ASSUME MaxPairsAssumption == MaxPairs \in Nat

VARIABLES
    creds,          \* the pair in the auth store, persisted; 0 is logged out
    isRefreshing,   \* the interceptor's flag
    phase,          \* call -> where it stands
    tok,            \* call -> pair whose access token it carries to the server,
                    \*         or whose refresh token it has presented
    got,            \* call -> pair in the answer to a login or a refresh
    retried,        \* calls whose config has _retry
    form,           \* the login call the form on the screen waits for
    issued,         \* pairs the auth service has issued
    dead,           \* pairs whose access token has expired or been revoked
    spent,          \* pairs whose refresh token has been rotated
    lost,           \* history: pairs presented by a page that was then reloaded
    stranded        \* history: since the load, a 401 found no refresh token

store == <<creds, isRefreshing>>
calls == <<phase, tok, got, retried, form>>
server == <<issued, dead, spent>>
history == <<lost, stranded>>
vars == <<store, calls, server, history>>

Pairs == 1..MaxPairs

Phases == {"idle", "sent", "ok", "401", "err", "queued",
           "refreshing", "rotated", "denied"}

TypeOK ==
    /\ creds \in 0..issued
    /\ isRefreshing \in BOOLEAN
    /\ phase \in [Calls -> Phases]
    /\ tok \in [Calls -> 0..issued]
    /\ got \in [Calls -> 0..issued]
    /\ retried \subseteq Calls
    /\ form \in {l \in Logins : phase[l] # "idle"} \union {NoCall}
    /\ issued \in 0..MaxPairs
    /\ dead \subseteq 1..issued
    /\ spent \subseteq 1..issued
    /\ lost \subseteq 1..issued
    /\ stranded \in BOOLEAN

Init ==
    /\ creds = 0
    /\ isRefreshing = FALSE
    /\ phase = [c \in Calls |-> "idle"]
    /\ tok = [c \in Calls |-> 0]
    /\ got = [c \in Calls |-> 0]
    /\ retried = {}
    /\ form = NoCall
    /\ issued = 0
    /\ dead = {}
    /\ spent = {}
    /\ lost = {}
    /\ stranded = FALSE

\* failedQueue.
Queue == {c \in Calls : phase[c] = "queued"}

\* Calls whose interceptor awaits the refresh.
Refreshers == {c \in Calls : phase[c] \in {"refreshing", "rotated", "denied"}}

-----------------------------------------------------------------------------
(* The user.                                                               *)

\* The request interceptor attaches the store's token.
Dispatch(c) ==
    /\ phase[c] = "idle"
    /\ phase' = [phase EXCEPT ![c] = "sent"]
    /\ tok' = [tok EXCEPT ![c] = creds]

SendRequest(r) ==
    /\ creds # 0
    /\ Dispatch(r)
    /\ UNCHANGED <<store, got, retried, form, server, history>>

\* onSubmit; the button is disabled while the form waits.
SubmitLogin(l) ==
    /\ form = NoCall
    /\ Dispatch(l)
    /\ form' = l
    /\ UNCHANGED <<store, got, retried, server, history>>

\* The login page is left; its call goes on without the form.
LeaveLogin ==
    /\ form # NoCall
    /\ form' = NoCall
    /\ UNCHANGED <<store, phase, tok, got, retried, server, history>>

\* The post of logout().  axios runs the request interceptor after the store
\* has been cleared, so the post carries no token.  With no free slot the
\* post counts as one the network lost.
WithLogoutPost(ph) ==
    IF \E o \in Logouts : ph[o] = "idle"
    THEN {[ph EXCEPT ![o] = "sent"] : o \in {o \in Logouts : ph[o] = "idle"}}
    ELSE {ph}

\* handleLogout, from a protected page.
UserLogout ==
    /\ creds # 0
    /\ creds' = 0
    /\ phase' \in WithLogoutPost(phase)
    /\ UNCHANGED <<isRefreshing, tok, got, retried, form, server, history>>

\* The tab is loaded anew.  The store survives; the flag, the queue and all
\* calls do not.  The auth service may still handle a refresh that is under way.
Reload ==
    /\ isRefreshing' = FALSE
    /\ phase' = [c \in Calls |-> "idle"]
    /\ tok' = [c \in Calls |-> 0]
    /\ got' = [c \in Calls |-> 0]
    /\ retried' = {}
    /\ form' = NoCall
    /\ spent' \in {spent, spent \union {tok[c] : c \in Refreshers}}
    /\ lost' = lost \union {tok[c] : c \in Refreshers}
    /\ stranded' = FALSE
    /\ UNCHANGED <<creds, issued, dead>>

-----------------------------------------------------------------------------
(* The services and the network.                                           *)

Expire(p) ==
    /\ p \in 1..issued
    /\ dead' = dead \union {p}
    /\ UNCHANGED <<store, calls, issued, spent, history>>

Valid(p) == p # 0 /\ p \notin dead

\* A page's request, or a logout post, which revokes the token it carries.
ServerAnswers(c) ==
    /\ c \in Requests \union Logouts
    /\ phase[c] = "sent"
    /\ phase' = [phase EXCEPT ![c] = IF Valid(tok[c]) THEN "ok" ELSE "401"]
    /\ tok' = [tok EXCEPT ![c] = 0]
    /\ dead' = IF c \in Logouts /\ Valid(tok[c]) THEN dead \union {tok[c]} ELSE dead
    /\ UNCHANGED <<store, got, retried, form, issued, spent, history>>

\* The login route issues a pair, or answers 401 to a wrong password.
LoginAnswered(l) ==
    /\ phase[l] = "sent"
    /\ \/ /\ issued < MaxPairs
          /\ issued' = issued + 1
          /\ phase' = [phase EXCEPT ![l] = "ok"]
          /\ got' = [got EXCEPT ![l] = issued + 1]
       \/ /\ phase' = [phase EXCEPT ![l] = "401"]
          /\ UNCHANGED <<issued, got>>
    /\ tok' = [tok EXCEPT ![l] = 0]
    /\ UNCHANGED <<store, retried, form, dead, spent, history>>

\* A network error, the ten-second timeout, or an answer that is no 401.
CallErrs(c) ==
    /\ phase[c] = "sent"
    /\ phase' = [phase EXCEPT ![c] = "err"]
    /\ tok' = [tok EXCEPT ![c] = 0]
    /\ UNCHANGED <<store, got, retried, form, server, history>>

\* refresh_tokens: the old refresh token is revoked and a pair is issued.
Rotate(c) ==
    /\ phase[c] = "refreshing"
    /\ tok[c] \notin spent
    /\ issued < MaxPairs
    /\ issued' = issued + 1
    /\ spent' = spent \union {tok[c]}
    /\ phase' = [phase EXCEPT ![c] = "rotated"]
    /\ got' = [got EXCEPT ![c] = issued + 1]
    /\ UNCHANGED <<store, tok, retried, form, dead, history>>

\* The refresh token is revoked or expired, or the post fails on its way there
\* or back.
RotateFails(c) ==
    /\ phase[c] = "refreshing"
    /\ spent' \in {spent, spent \union {tok[c]}}
    /\ phase' = [phase EXCEPT ![c] = "denied"]
    /\ UNCHANGED <<store, tok, got, retried, form, issued, dead, history>>

-----------------------------------------------------------------------------
(* The response interceptor and its callers.                               *)

\* The calls in S end: their promises settle and their slots are free.
Settle(f, S, v) == [c \in Calls |-> IF c \in S THEN v ELSE f[c]]

Free(S) ==
    /\ tok' = Settle(tok, S, 0)
    /\ got' = Settle(got, S, 0)
    /\ retried' = retried \ S
    /\ form' = IF form \in S THEN NoCall ELSE form

\* A 2xx answer.  The login form stores the pair.
Succeeds(c) ==
    /\ phase[c] = "ok"
    /\ creds' = IF c \in Logins THEN got[c] ELSE creds
    /\ phase' = Settle(phase, {c}, "idle")
    /\ Free({c})
    /\ UNCHANGED <<isRefreshing, server, history>>

\* Any other error, and a 401 of a call that has been retried, is rejected.
Rejected(c) ==
    /\ \/ phase[c] = "err"
       \/ phase[c] = "401" /\ c \in retried
    /\ phase' = Settle(phase, {c}, "idle")
    /\ Free({c})
    /\ UNCHANGED <<store, server, history>>

\* A first 401 while a refresh is under way waits for it.
Enqueue(c) ==
    /\ phase[c] = "401" /\ c \notin retried
    /\ isRefreshing
    /\ phase' = [phase EXCEPT ![c] = "queued"]
    /\ UNCHANGED <<store, tok, got, retried, form, server, history>>

\* Mutant: the flag is not tested.
StartRefreshUnguarded(c) ==
    /\ phase[c] = "401" /\ c \notin retried
    /\ creds # 0
    /\ isRefreshing' = TRUE
    /\ retried' = retried \union {c}
    /\ phase' = [phase EXCEPT ![c] = "refreshing"]
    /\ tok' = [tok EXCEPT ![c] = creds]
    /\ UNCHANGED <<creds, got, form, server, history>>

\* Another first 401 starts a refresh with the store's refresh token.
StartRefresh(c) ==
    /\ phase[c] = "401" /\ c \notin retried
    /\ ~isRefreshing
    /\ creds # 0
    /\ isRefreshing' = TRUE
    /\ retried' = retried \union {c}
    /\ phase' = [phase EXCEPT ![c] = "refreshing"]
    /\ tok' = [tok EXCEPT ![c] = creds]
    /\ UNCHANGED <<creds, got, form, server, history>>

\* Without a refresh token the call is rejected and logout() called.  The flag
\* stays set.
NoRefreshToken(c) ==
    /\ phase[c] = "401" /\ c \notin retried
    /\ ~isRefreshing
    /\ creds = 0
    /\ isRefreshing' = TRUE
    /\ phase' \in WithLogoutPost(Settle(phase, {c}, "idle"))
    /\ Free({c})
    /\ stranded' = TRUE
    /\ UNCHANGED <<creds, server, lost>>

\* Mutant: the store is not updated.
RefreshDoneUnstored(c) ==
    /\ phase[c] = "rotated"
    /\ isRefreshing' = FALSE
    /\ phase' = Settle(phase, Queue \union {c}, "sent")
    /\ tok' = Settle(tok, Queue \union {c}, got[c])
    /\ got' = [got EXCEPT ![c] = 0]
    /\ UNCHANGED <<creds, retried, form, server, history>>

\* Mutant: processQueue is not called.
RefreshDoneAlone(c) ==
    /\ phase[c] = "rotated"
    /\ creds' = got[c]
    /\ isRefreshing' = FALSE
    /\ phase' = Settle(phase, {c}, "sent")
    /\ tok' = Settle(tok, {c}, got[c])
    /\ got' = [got EXCEPT ![c] = 0]
    /\ UNCHANGED <<retried, form, server, history>>

\* The new pair is stored, and the queue and the call itself are sent again.
RefreshDone(c) ==
    /\ phase[c] = "rotated"
    /\ creds' = got[c]
    /\ isRefreshing' = FALSE
    /\ phase' = Settle(phase, Queue \union {c}, "sent")
    /\ tok' = Settle(tok, Queue \union {c}, got[c])
    /\ got' = [got EXCEPT ![c] = 0]
    /\ UNCHANGED <<retried, form, server, history>>

\* The queue and the call are rejected and logout() is called.
RefreshFailed(c) ==
    /\ phase[c] = "denied"
    /\ creds' = 0
    /\ isRefreshing' = FALSE
    /\ phase' \in WithLogoutPost(Settle(phase, Queue \union {c}, "idle"))
    /\ Free(Queue \union {c})
    /\ UNCHANGED <<server, history>>

Handle(c) ==
    \/ Succeeds(c) \/ Rejected(c) \/ Enqueue(c) \/ StartRefresh(c)
    \/ NoRefreshToken(c) \/ RefreshDone(c) \/ RefreshFailed(c)

Answer(c) == ServerAnswers(c) \/ CallErrs(c)

Next ==
    \/ \E r \in Requests : SendRequest(r)
    \/ \E l \in Logins : SubmitLogin(l) \/ LoginAnswered(l)
    \/ LeaveLogin \/ UserLogout \/ Reload
    \/ \E p \in Pairs : Expire(p)
    \/ \E c \in Calls : Answer(c) \/ Rotate(c) \/ RotateFails(c) \/ Handle(c)

Spec == Init /\ [][Next]_vars

-----------------------------------------------------------------------------
(* Properties.                                                             *)

\* The interceptor never runs two rotations at once, and never presents a
\* refresh token that has been rotated, which would end the session, unless
\* a reload lost the answer: whatever the order in which 401s, refreshes,
\* logouts and logins meet (api-client.ts, the response interceptor).
RotatesOnce ==
    /\ \A c, d \in Refreshers : c = d
    /\ \A c \in Calls :
          phase[c] = "refreshing" /\ tok[c] \in spent => tok[c] \in lost

\* A session that is alive stays usable: the refresh token in the store has
\* not been rotated, unless its answer is on the way or was lost in a reload
\* (api-client.ts, setCredentials before the queue is processed).
StoredPairUsable ==
    creds \in spent =>
        \/ creds \in lost
        \/ \E c \in Refreshers : tok[c] = creds

\* Calls wait in the queue only for a refresh that is under way and will send
\* or reject them.  The one exception is a tab in which a 401 has found no
\* refresh token: there the flag stays set, and calls wait for nothing until
\* the tab is loaded anew (api-client.ts, failedQueue and isRefreshing).
WaitersHaveRefresh ==
    isRefreshing \/ Queue # {} => Refreshers # {} \/ stranded

-----------------------------------------------------------------------------
(* The inductive invariant behind the safety properties.                   *)

\* Pairs in answers that have not been handled have never been used.
AnswersFresh ==
    \A c \in Calls : got[c] # 0 =>
        /\ phase[c] = "rotated" \/ (c \in Logins /\ phase[c] = "ok")
        /\ got[c] \notin spent
        /\ got[c] # creds
        /\ \A d \in Calls : /\ tok[d] # got[c]
                            /\ d # c => got[d] # got[c]

\* Only the flag's holder refreshes, with a token that was in the store.
RefreshersSound ==
    /\ Refreshers # {} \/ Queue # {} => isRefreshing
    /\ \A c \in Refreshers : tok[c] # 0
    /\ \A c \in Calls : (phase[c] = "rotated" \/ (c \in Logins /\ phase[c] = "ok")) => got[c] # 0

SessionInv ==
    /\ TypeOK
    /\ RotatesOnce
    /\ StoredPairUsable
    /\ WaitersHaveRefresh
    /\ AnswersFresh
    /\ RefreshersSound

=============================================================================
