---------------------------- MODULE MCApiSession ----------------------------
(* One tab with a page request, a login and a logout post at a time, and a  *)
(* history of the sessions that a user ended by them.  A logout post that   *)
(* the interceptor sends, after a refused refresh or without any session,   *)
(* is none of the user's.                                                   *)
EXTENDS ApiSession

VARIABLE
    ended       \* history: logout post -> pair that its UserLogout took out of
                \*          the store; 0 for the interceptor's posts and free slots

LogoutInit ==
    /\ Init
    /\ ended = [o \in Logouts |-> 0]

\* A post that has just been sent by the user's logout.
PostedByUser(o) == UserLogout /\ phase[o] = "idle" /\ phase'[o] = "sent"

LogoutNext ==
    /\ Next
    /\ ended' = [o \in Logouts |->
                    CASE phase'[o] = "idle" -> 0
                      [] PostedByUser(o)    -> creds
                      [] OTHER              -> ended[o]]

LogoutSpec == LogoutInit /\ [][LogoutNext]_<<vars, ended>>

\* What frontend/docs/architecture.md says of logout: its post lets the auth
\* service revoke the session's access token.  Once the service has answered the
\* post of a user's logout, the token of the session that it ended must be dead:
\* revoked by the post, or expired before (authStore.ts, logout).
LogoutRevokes ==
    [][\A o \in Logouts :
          ended[o] # 0 /\ ServerAnswers(o) => ended[o] \in dead']_<<vars, ended>>

=============================================================================
