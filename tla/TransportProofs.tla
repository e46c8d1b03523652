---------------------------- MODULE TransportProofs ----------------------------
(***************************************************************************)
(* The safety properties of a tab's session and of its live feed, for any   *)
(* values of their constants.                                              *)
(*                                                                         *)
(* SessionInv is inductive.  Two facts carry it: a call refreshes only      *)
(* while the flag is set, and one call at a time (RefreshersSound); and a   *)
(* pair in an answer that is not handled yet has never been used, so that   *)
(* storing it cannot store a spent one (AnswersFresh).                      *)
(*                                                                         *)
(* FeedInv is inductive.  OneSocket alone is not: a socket left to close    *)
(* would take the client's reference away (NoneClosing); and an event is    *)
(* notified of once because it is on its way at most once, and no more when *)
(* it is in the list (NoticesSound).                                        *)
(***************************************************************************)
EXTENDS ApiSession, LiveFeed, SequenceTheorems, TLAPS

-----------------------------------------------------------------------------
(* The session.                                                            *)

RefreshPhases == {"refreshing", "rotated", "denied"}

\* Before the first login SessionInv holds.
LEMMA InitSessionInv == Init => SessionInv
<1> SUFFICES ASSUME Init PROVE SessionInv
  OBVIOUS
<1>1. TypeOK
  <2>1. issued = 0 /\ 0 \in 0..issued /\ issued \in 0..MaxPairs
    BY MaxPairsAssumption DEF Init
  <2> QED
    BY <2>1 DEF Init, TypeOK, Phases
<1>2. Refreshers = {} /\ Queue = {}
  BY DEF Init, Refreshers, Queue
<1>3. RotatesOnce /\ StoredPairUsable /\ WaitersHaveRefresh
  BY <1>2 DEF Init, RotatesOnce, StoredPairUsable, WaitersHaveRefresh
<1>4. AnswersFresh /\ RefreshersSound
  BY <1>2 DEF Init, AnswersFresh, RefreshersSound
<1> QED
  BY <1>1, <1>3, <1>4 DEF SessionInv

\* The post of a logout takes an idle slot or none.
LEMMA LogoutPost ==
  ASSUME NEW ph \in [Calls -> Phases], NEW qh \in WithLogoutPost(ph)
  PROVE  /\ qh \in [Calls -> Phases]
         /\ \A c \in Calls : \/ qh[c] = ph[c]
                             \/ c \in Logouts /\ ph[c] = "idle" /\ qh[c] = "sent"
<1>1. CASE \E o \in Logouts : ph[o] = "idle"
  <2>1. PICK o \in Logouts : ph[o] = "idle" /\ qh = [ph EXCEPT ![o] = "sent"]
    BY <1>1 DEF WithLogoutPost
  <2> QED
    BY <2>1 DEF Calls, Phases
<1>2. CASE ~\E o \in Logouts : ph[o] = "idle"
  BY <1>2 DEF WithLogoutPost
<1> QED
  BY <1>1, <1>2

\* A step that leaves the refresh and the unhandled answers alone, and gives a
\* call no token but the store's, preserves SessionInv.
LEMMA CallStep ==
  ASSUME SessionInv, TypeOK',
         creds' \in {creds, 0},
         UNCHANGED <<isRefreshing, spent, lost, stranded>>,
         \A c \in Calls : phase[c] \in RefreshPhases \/ phase'[c] \in RefreshPhases =>
             phase'[c] = phase[c] /\ tok'[c] = tok[c] /\ got'[c] = got[c],
         \A c \in Calls : phase'[c] = "queued" => phase[c] = "queued" \/ isRefreshing,
         \A c \in Calls : tok'[c] \in {tok[c], 0, creds},
         \A c \in Calls : got'[c] # 0 => got'[c] = got[c] /\ phase'[c] = phase[c],
         \A c \in Logins : phase'[c] = "ok" => phase[c] = "ok" /\ got'[c] = got[c]
  PROVE  SessionInv'
<1> USE DEF SessionInv
<1>1. Refreshers' = Refreshers
  BY DEF Refreshers, RefreshPhases
<1>2. \A c \in Refreshers : phase'[c] = phase[c] /\ tok'[c] = tok[c]
  BY DEF Refreshers, RefreshPhases
<1>3. RotatesOnce'
  BY <1>1 DEF RotatesOnce, RefreshPhases
<1>4. StoredPairUsable'
  BY <1>1, <1>2 DEF StoredPairUsable, TypeOK
<1>5. Queue' # {} => Queue # {} \/ isRefreshing
  BY DEF Queue
<1>6. WaitersHaveRefresh'
  BY <1>1, <1>5 DEF WaitersHaveRefresh
<1>7. AnswersFresh'
  <2> SUFFICES ASSUME NEW c \in Calls, got'[c] # 0
      PROVE /\ phase'[c] = "rotated" \/ (c \in Logins /\ phase'[c] = "ok")
            /\ got'[c] \notin spent'
            /\ got'[c] # creds'
            /\ \A d \in Calls : /\ tok'[d] # got'[c]
                                /\ d # c => got'[d] # got'[c]
    BY DEF AnswersFresh
  <2>1. got'[c] = got[c] /\ phase'[c] = phase[c] /\ got[c] # 0
    OBVIOUS
  <2>2. \A d \in Calls : tok'[d] # got[c]
    BY <2>1 DEF AnswersFresh
  <2>3. \A d \in Calls : d # c => got'[d] # got[c]
    BY <2>1 DEF AnswersFresh
  <2> QED
    BY <2>1, <2>2, <2>3 DEF AnswersFresh
<1>8. RefreshersSound'
  <2>1. \A c \in Calls : phase'[c] = "rotated" \/ (c \in Logins /\ phase'[c] = "ok") =>
           got'[c] # 0
    BY DEF RefreshersSound, RefreshPhases
  <2> QED
    BY <1>1, <1>2, <1>5, <2>1 DEF RefreshersSound
<1> QED
  BY <1>3, <1>4, <1>6, <1>7, <1>8

\* A call that ends frees its slot; the form stops waiting for it.
LEMMA FormFreed ==
  ASSUME TypeOK, NEW S \in SUBSET Calls, Free(S),
         \A c \in Logins \ S : phase[c] # "idle" => phase'[c] # "idle"
  PROVE  /\ form' \in {l \in Logins : phase'[l] # "idle"} \union {NoCall}
         /\ tok' \in [Calls -> 0..issued] /\ got' \in [Calls -> 0..issued]
         /\ retried' \subseteq Calls
         /\ \A c \in Calls : /\ tok'[c] = IF c \in S THEN 0 ELSE tok[c]
                             /\ got'[c] = IF c \in S THEN 0 ELSE got[c]
<1>1. issued \in Nat
  BY MaxPairsAssumption DEF TypeOK
<1> QED
  BY <1>1 DEF Free, Settle, TypeOK, Calls

\* Every step of the user, the services and the interceptors preserves it.
LEMMA StepSessionInv == SessionInv /\ [Next]_vars => SessionInv'
<1> SUFFICES ASSUME SessionInv, [Next]_vars PROVE SessionInv'
  OBVIOUS
<1> USE DEF SessionInv
<1>a. issued \in Nat /\ 0 \in 0..issued
  BY MaxPairsAssumption DEF TypeOK
<1>b. Logins \subseteq Calls /\ Logouts \subseteq Calls /\ Requests \subseteq Calls
  BY DEF Calls
<1>c. ASSUME NEW c \in Calls, Dispatch(c), form' \in {form, c} \intersect (Logins \union {NoCall}),
             UNCHANGED <<store, got, retried, server, history>>
      PROVE  SessionInv'
  <2>1. /\ phase[c] = "idle"
        /\ phase' = [phase EXCEPT ![c] = "sent"]
        /\ tok' = [tok EXCEPT ![c] = creds]
        /\ UNCHANGED <<creds, isRefreshing, got, retried, issued, dead, spent,
                       lost, stranded>>
    BY <1>c DEF Dispatch, store, server, history
  <2>2. TypeOK'
    BY <1>a, <1>b, <1>c, <2>1 DEF TypeOK, Phases
  <2>3. \A d \in Calls : got[d] # 0 => phase'[d] = phase[d]
    BY <2>1 DEF AnswersFresh, TypeOK
  <2> QED
    BY <1>b, <2>1, <2>2, <2>3, CallStep DEF TypeOK, RefreshPhases
<1>1. ASSUME NEW r \in Requests, SendRequest(r) PROVE SessionInv'
  BY <1>1, <1>b, <1>c DEF SendRequest, TypeOK
<1>2. ASSUME NEW l \in Logins, SubmitLogin(l) PROVE SessionInv'
  BY <1>2, <1>b, <1>c DEF SubmitLogin
<1>3. CASE LeaveLogin
  <2>1. TypeOK'
    BY <1>3 DEF LeaveLogin, TypeOK, store, server, history
  <2> QED
    BY <1>3, <2>1, CallStep DEF LeaveLogin, TypeOK, RefreshPhases, store, server, history
<1>4. CASE UserLogout
  <2>1. phase \in [Calls -> Phases]
    BY DEF TypeOK
  <2>2. /\ phase' \in [Calls -> Phases]
        /\ \A c \in Calls : \/ phase'[c] = phase[c]
                            \/ c \in Logouts /\ phase[c] = "idle" /\ phase'[c] = "sent"
    BY <1>4, <2>1, LogoutPost DEF UserLogout
  <2>3. /\ creds' = 0
        /\ UNCHANGED <<isRefreshing, tok, got, retried, form, issued, dead, spent,
                       lost, stranded>>
    BY <1>4 DEF UserLogout, server, history
  <2>4. TypeOK'
    BY <1>a, <1>b, <2>2, <2>3 DEF TypeOK
  <2>5. \A c \in Calls : got[c] # 0 => phase'[c] = phase[c]
    BY <2>2 DEF AnswersFresh
  <2> QED
    BY <1>b, <2>2, <2>3, <2>4, <2>5, CallStep DEF RefreshPhases
<1>5. CASE Reload
  <2>1. /\ creds' = creds /\ issued' = issued /\ dead' = dead
        /\ isRefreshing' = FALSE /\ form' = NoCall /\ retried' = {}
        /\ phase' = [c \in Calls |-> "idle"]
        /\ tok' = [c \in Calls |-> 0] /\ got' = [c \in Calls |-> 0]
        /\ stranded' = FALSE
        /\ spent' \in {spent, spent \union {tok[c] : c \in Refreshers}}
        /\ lost' = lost \union {tok[c] : c \in Refreshers}
    BY <1>5 DEF Reload
  <2>2. \A c \in Refreshers : tok[c] \in 1..issued
    BY <1>a DEF TypeOK, RefreshersSound, Refreshers
  <2>3. TypeOK'
    BY <1>a, <2>1, <2>2 DEF TypeOK, Phases
  <2>4. Refreshers' = {} /\ Queue' = {}
    BY <2>1 DEF Refreshers, Queue
  <2>5. StoredPairUsable'
    BY <2>1 DEF StoredPairUsable
  <2>6. RotatesOnce' /\ WaitersHaveRefresh' /\ RefreshersSound'
    BY <2>1, <2>4 DEF RotatesOnce, WaitersHaveRefresh, RefreshersSound
  <2>7. AnswersFresh'
    BY <2>1 DEF AnswersFresh
  <2> QED
    BY <2>3, <2>5, <2>6, <2>7
<1>6. ASSUME NEW p \in Pairs, Expire(p) PROVE SessionInv'
  <2>1. TypeOK'
    BY <1>6 DEF Expire, TypeOK, store, calls, history
  <2> QED
    BY <1>6, <2>1, CallStep DEF Expire, TypeOK, RefreshPhases, store, calls, history
<1>7. ASSUME NEW c \in Calls, ServerAnswers(c) PROVE SessionInv'
  <2>1. /\ UNCHANGED <<creds, isRefreshing, got, retried, form, issued, spent,
                       lost, stranded>>
        /\ phase[c] = "sent" /\ c \notin Logins
        /\ phase' = [phase EXCEPT ![c] = IF Valid(tok[c]) THEN "ok" ELSE "401"]
        /\ tok' = [tok EXCEPT ![c] = 0]
        /\ dead' \subseteq dead \union {tok[c]} /\ (0 \notin dead => 0 \notin dead')
    BY <1>7, SlotsAssumption DEF ServerAnswers, Valid, store, history
  <2>2. TypeOK'
    BY <1>a, <2>1 DEF TypeOK, Phases
  <2>3. \A d \in Calls : got[d] # 0 => phase'[d] = phase[d]
    BY <2>1 DEF AnswersFresh, TypeOK
  <2> QED
    BY <1>b, <2>1, <2>2, <2>3, CallStep DEF TypeOK, RefreshPhases
<1>8. ASSUME NEW l \in Logins, LoginAnswered(l) PROVE SessionInv'
  <2>1. /\ UNCHANGED <<creds, isRefreshing, retried, form, dead, spent, lost, stranded>>
        /\ phase[l] = "sent" /\ l \in Calls
        /\ tok' = [tok EXCEPT ![l] = 0]
    BY <1>8, <1>b DEF LoginAnswered, store, history
  <2>2. got[l] = 0
    BY <2>1 DEF AnswersFresh
  <2>3. CASE phase' = [phase EXCEPT ![l] = "401"] /\ UNCHANGED <<issued, got>>
    <3>1. TypeOK'
      BY <1>a, <2>1, <2>3 DEF TypeOK, Phases
    <3>2. \A d \in Calls : got[d] # 0 => phase'[d] = phase[d]
      BY <2>1, <2>2, <2>3 DEF TypeOK
    <3> QED
      BY <1>b, <2>1, <2>3, <3>1, <3>2, CallStep DEF TypeOK, RefreshPhases
  <2>4. CASE /\ issued < MaxPairs /\ issued' = issued + 1
             /\ phase' = [phase EXCEPT ![l] = "ok"]
             /\ got' = [got EXCEPT ![l] = issued + 1]
    <3>1. issued + 1 \in Nat /\ issued + 1 <= MaxPairs /\ 0..issued \subseteq 0..(issued + 1)
          /\ 1..issued \subseteq 1..(issued + 1) /\ issued + 1 \in 0..(issued + 1)
      BY <1>a, <2>4, MaxPairsAssumption
    <3>2. TypeOK'
      BY <2>1, <2>4, <3>1, MaxPairsAssumption DEF TypeOK, Phases
    <3>3. Refreshers' = Refreshers /\ Queue' = Queue
      BY <2>1, <2>4 DEF Refreshers, Queue, TypeOK
    <3>4. \A d \in Refreshers : phase'[d] = phase[d] /\ tok'[d] = tok[d]
      BY <2>1, <2>4 DEF Refreshers, TypeOK
    <3>5. RotatesOnce' /\ StoredPairUsable' /\ WaitersHaveRefresh'
      BY <2>1, <2>4, <3>3, <3>4
      DEF RotatesOnce, StoredPairUsable, WaitersHaveRefresh, TypeOK, Refreshers
    <3>6. /\ issued + 1 \notin spent /\ issued + 1 # creds
          /\ \A d \in Calls : tok'[d] # issued + 1 /\ got[d] # issued + 1
      BY <1>a, <2>1 DEF TypeOK
    <3>7. AnswersFresh'
      BY <1>a, <2>1, <2>4, <3>6 DEF AnswersFresh, TypeOK
    <3>8. RefreshersSound'
      BY <1>a, <2>1, <2>4, <3>3, <3>4 DEF RefreshersSound, TypeOK
    <3> QED
      BY <3>2, <3>5, <3>7, <3>8
  <2> QED
    BY <1>8, <2>3, <2>4 DEF LoginAnswered
<1>9. ASSUME NEW c \in Calls, CallErrs(c) PROVE SessionInv'
  <2>1. /\ UNCHANGED <<creds, isRefreshing, got, retried, form, issued, dead, spent,
                       lost, stranded>>
        /\ phase[c] = "sent"
        /\ phase' = [phase EXCEPT ![c] = "err"]
        /\ tok' = [tok EXCEPT ![c] = 0]
    BY <1>9 DEF CallErrs, store, server, history
  <2>2. TypeOK'
    BY <1>a, <2>1 DEF TypeOK, Phases
  <2>3. \A d \in Calls : got[d] # 0 => phase'[d] = phase[d]
    BY <2>1 DEF AnswersFresh, TypeOK
  <2> QED
    BY <1>b, <2>1, <2>2, <2>3, CallStep DEF TypeOK, RefreshPhases
<1>10. ASSUME NEW c \in Calls, Rotate(c) PROVE SessionInv'
  <2>1. /\ UNCHANGED <<creds, isRefreshing, tok, retried, form, dead, lost, stranded>>
        /\ phase[c] = "refreshing" /\ issued' = issued + 1 /\ issued < MaxPairs
        /\ spent' = spent \union {tok[c]}
        /\ phase' = [phase EXCEPT ![c] = "rotated"]
        /\ got' = [got EXCEPT ![c] = issued + 1]
    BY <1>10 DEF Rotate, store, history
  <2>2. c \in Refreshers /\ tok[c] # 0 /\ \A d \in Refreshers : d = c
    BY <2>1 DEF RefreshersSound, RotatesOnce, Refreshers
  <2>3. issued + 1 \in Nat /\ issued + 1 <= MaxPairs /\ 0..issued \subseteq 0..(issued + 1)
        /\ 1..issued \subseteq 1..(issued + 1) /\ issued + 1 \in 0..(issued + 1)
    BY <1>a, <2>1, MaxPairsAssumption
  <2>4. tok[c] \in 1..issued
    BY <1>a, <2>2 DEF TypeOK
  <2>5. TypeOK'
    <3>1. phase' \in [Calls -> Phases] /\ \A d \in Calls : phase'[d] # "idle" \/ phase'[d] = phase[d]
      BY <2>1 DEF TypeOK, Phases
    <3>2. issued' \in 0..MaxPairs /\ creds' \in 0..issued'
      BY <2>1, <2>3, MaxPairsAssumption DEF TypeOK
    <3>3. dead' \subseteq 1..issued' /\ lost' \subseteq 1..issued' /\ spent' \subseteq 1..issued'
      BY <2>1, <2>3, <2>4 DEF TypeOK
    <3>4. tok' \in [Calls -> 0..issued'] /\ got' \in [Calls -> 0..issued']
      BY <2>1, <2>3 DEF TypeOK
    <3>5. form' \in {l \in Logins : phase'[l] # "idle"} \union {NoCall}
      BY <1>b, <2>1 DEF TypeOK
    <3> QED
      BY <2>1, <3>1, <3>2, <3>3, <3>4, <3>5 DEF TypeOK
  <2>6. Refreshers' = Refreshers /\ Queue' = Queue
    BY <2>1 DEF Refreshers, Queue, TypeOK
  <2>7. \A d \in Calls : phase'[d] # "refreshing"
    BY <2>1, <2>2 DEF Refreshers, TypeOK
  <2>8. RotatesOnce' /\ StoredPairUsable' /\ WaitersHaveRefresh'
    BY <2>1, <2>2, <2>6, <2>7 DEF RotatesOnce, StoredPairUsable, WaitersHaveRefresh
  <2>9. /\ issued + 1 \notin spent' /\ issued + 1 # creds
        /\ \A d \in Calls : tok[d] # issued + 1 /\ got[d] # issued + 1
    BY <1>a, <2>1, <2>4 DEF TypeOK
  <2>10. AnswersFresh'
    BY <1>a, <2>1, <2>9 DEF AnswersFresh, TypeOK
  <2>11. RefreshersSound'
    BY <1>a, <2>1, <2>6 DEF RefreshersSound, TypeOK
  <2> QED
    BY <2>5, <2>8, <2>10, <2>11
<1>11. ASSUME NEW c \in Calls, RotateFails(c) PROVE SessionInv'
  <2>1. /\ UNCHANGED <<creds, isRefreshing, tok, got, retried, form, issued, dead, lost,
                       stranded>>
        /\ phase[c] = "refreshing"
        /\ spent' \in {spent, spent \union {tok[c]}}
        /\ phase' = [phase EXCEPT ![c] = "denied"]
    BY <1>11 DEF RotateFails, store, history
  <2>2. c \in Refreshers /\ tok[c] # 0 /\ \A d \in Refreshers : d = c
    BY <2>1 DEF RefreshersSound, RotatesOnce, Refreshers
  <2>3. tok[c] \in 1..issued
    BY <1>a, <2>2 DEF TypeOK
  <2>4. TypeOK'
    BY <2>1, <2>3 DEF TypeOK, Phases
  <2>5. Refreshers' = Refreshers /\ Queue' = Queue
    BY <2>1 DEF Refreshers, Queue, TypeOK
  <2>6. \A d \in Calls : phase'[d] # "refreshing"
    BY <2>1, <2>2 DEF Refreshers, TypeOK
  <2>7. RotatesOnce' /\ StoredPairUsable' /\ WaitersHaveRefresh'
    BY <2>1, <2>2, <2>5, <2>6 DEF RotatesOnce, StoredPairUsable, WaitersHaveRefresh
  <2>8. got[c] = 0
    BY <2>1, SlotsAssumption DEF AnswersFresh
  <2>9. AnswersFresh'
    BY <2>1, <2>8 DEF AnswersFresh, TypeOK
  <2>10. RefreshersSound'
    BY <2>1, <2>5 DEF RefreshersSound, TypeOK
  <2> QED
    BY <2>4, <2>7, <2>9, <2>10
<1>12. ASSUME NEW c \in Calls, Succeeds(c) PROVE SessionInv'
  <2>1. /\ UNCHANGED <<isRefreshing, issued, dead, spent, lost, stranded>>
        /\ phase[c] = "ok"
        /\ creds' = IF c \in Logins THEN got[c] ELSE creds
        /\ phase' = [d \in Calls |-> IF d = c THEN "idle" ELSE phase[d]]
        /\ Free({c})
    BY <1>12 DEF Succeeds, Settle, server, history
  <2>2. /\ form' \in {l \in Logins : phase'[l] # "idle"} \union {NoCall}
        /\ tok' \in [Calls -> 0..issued] /\ got' \in [Calls -> 0..issued]
        /\ retried' \subseteq Calls
        /\ \A d \in Calls : /\ tok'[d] = IF d = c THEN 0 ELSE tok[d]
                            /\ got'[d] = IF d = c THEN 0 ELSE got[d]
    <3>1. \A d \in Logins \ {c} : phase[d] # "idle" => phase'[d] # "idle"
      BY <1>b, <2>1
    <3> QED
      BY <2>1, <3>1, FormFreed
  <2>3. TypeOK'
    BY <1>a, <2>1, <2>2 DEF TypeOK, Phases
  <2>4. CASE c \notin Logins
    BY <1>b, <2>1, <2>2, <2>3, <2>4, CallStep DEF TypeOK, RefreshPhases
  <2>5. CASE c \in Logins
    <3>1. got[c] # 0 /\ creds' = got[c]
      BY <2>1, <2>5 DEF RefreshersSound
    <3>2. Refreshers' = Refreshers /\ Queue' = Queue
      BY <2>1 DEF Refreshers, Queue
    <3>3. \A d \in Refreshers : phase'[d] = phase[d] /\ tok'[d] = tok[d]
      BY <2>1, <2>2 DEF Refreshers
    <3>4. RotatesOnce' /\ WaitersHaveRefresh'
      BY <2>1, <3>2, <3>3 DEF RotatesOnce, WaitersHaveRefresh, Refreshers
    <3>5. StoredPairUsable'
      BY <2>1, <3>1 DEF StoredPairUsable, AnswersFresh
    <3>6. AnswersFresh'
      BY <2>1, <2>2, <3>1 DEF AnswersFresh
    <3>7. RefreshersSound'
      BY <1>b, <2>1, <2>2, <3>2, <3>3 DEF RefreshersSound
    <3> QED
      BY <2>3, <3>4, <3>5, <3>6, <3>7
  <2> QED
    BY <2>4, <2>5
<1>13. ASSUME NEW c \in Calls, Rejected(c) PROVE SessionInv'
  <2>1. /\ UNCHANGED <<creds, isRefreshing, issued, dead, spent, lost, stranded>>
        /\ phase[c] \in {"err", "401"}
        /\ phase' = [d \in Calls |-> IF d = c THEN "idle" ELSE phase[d]]
        /\ Free({c})
    BY <1>13 DEF Rejected, Settle, store, server, history
  <2>2. /\ form' \in {l \in Logins : phase'[l] # "idle"} \union {NoCall}
        /\ tok' \in [Calls -> 0..issued] /\ got' \in [Calls -> 0..issued]
        /\ retried' \subseteq Calls
        /\ \A d \in Calls : /\ tok'[d] = IF d = c THEN 0 ELSE tok[d]
                            /\ got'[d] = IF d = c THEN 0 ELSE got[d]
    <3>1. \A d \in Logins \ {c} : phase[d] # "idle" => phase'[d] # "idle"
      BY <1>b, <2>1
    <3> QED
      BY <2>1, <3>1, FormFreed
  <2>3. TypeOK'
    BY <1>a, <2>1, <2>2 DEF TypeOK, Phases
  <2> QED
    BY <1>b, <2>1, <2>2, <2>3, CallStep DEF TypeOK, RefreshPhases
<1>14. ASSUME NEW c \in Calls, Enqueue(c) PROVE SessionInv'
  <2>1. /\ UNCHANGED <<creds, isRefreshing, tok, got, retried, form, issued, dead, spent,
                       lost, stranded>>
        /\ phase[c] = "401" /\ isRefreshing
        /\ phase' = [phase EXCEPT ![c] = "queued"]
    BY <1>14 DEF Enqueue, store, server, history
  <2>2. TypeOK'
    BY <1>a, <2>1 DEF TypeOK, Phases
  <2>3. \A d \in Calls : got[d] # 0 => phase'[d] = phase[d]
    BY <2>1 DEF AnswersFresh, TypeOK
  <2> QED
    BY <1>b, <2>1, <2>2, <2>3, CallStep DEF TypeOK, RefreshPhases
<1>15. ASSUME NEW c \in Calls, StartRefresh(c) PROVE SessionInv'
  <2>1. /\ UNCHANGED <<creds, got, form, issued, dead, spent, lost, stranded>>
        /\ phase[c] = "401" /\ ~isRefreshing /\ creds # 0
        /\ isRefreshing' = TRUE
        /\ retried' = retried \union {c}
        /\ phase' = [phase EXCEPT ![c] = "refreshing"]
        /\ tok' = [tok EXCEPT ![c] = creds]
    BY <1>15 DEF StartRefresh, server, history
  <2>2. TypeOK'
    BY <1>a, <2>1 DEF TypeOK, Phases
  \* The flag was not set, so no other call refreshes.
  <2>3. Refreshers = {} /\ Queue = {}
    BY <2>1 DEF RefreshersSound
  <2>4. Refreshers' = {c} /\ Queue' = {}
    BY <2>1, <2>3 DEF Refreshers, Queue, TypeOK
  <2>5. creds \in spent => creds \in lost
    BY <2>3 DEF StoredPairUsable
  <2>6. RotatesOnce' /\ StoredPairUsable' /\ WaitersHaveRefresh'
    BY <2>1, <2>3, <2>4, <2>5
    DEF RotatesOnce, StoredPairUsable, WaitersHaveRefresh, TypeOK, Refreshers
  <2>7. got[c] = 0
    BY <2>1 DEF AnswersFresh
  <2>8. AnswersFresh'
    BY <2>1, <2>7 DEF AnswersFresh, TypeOK
  <2>9. RefreshersSound'
    BY <1>b, <2>1, <2>3, <2>4 DEF RefreshersSound, TypeOK
  <2> QED
    BY <2>2, <2>6, <2>8, <2>9
<1>16. ASSUME NEW c \in Calls, NoRefreshToken(c) PROVE SessionInv'
  <2> DEFINE idled == [d \in Calls |-> IF d = c THEN "idle" ELSE phase[d]]
  <2>1. /\ UNCHANGED <<creds, issued, dead, spent, lost>>
        /\ phase[c] = "401" /\ ~isRefreshing /\ isRefreshing' = TRUE
        /\ creds = 0 /\ stranded' = TRUE
        /\ phase' \in WithLogoutPost(idled)
        /\ Free({c})
    BY <1>16 DEF NoRefreshToken, Settle, server
  <2>2. idled \in [Calls -> Phases]
    BY DEF TypeOK, Phases
  <2>3. /\ phase' \in [Calls -> Phases]
        /\ \A d \in Calls : \/ phase'[d] = idled[d]
                            \/ d \in Logouts /\ idled[d] = "idle" /\ phase'[d] = "sent"
    <3> HIDE DEF idled
    <3> QED
      BY <2>1, <2>2, LogoutPost
  <2>4. /\ form' \in {l \in Logins : phase'[l] # "idle"} \union {NoCall}
        /\ tok' \in [Calls -> 0..issued] /\ got' \in [Calls -> 0..issued]
        /\ retried' \subseteq Calls
        /\ \A d \in Calls : /\ tok'[d] = IF d = c THEN 0 ELSE tok[d]
                            /\ got'[d] = IF d = c THEN 0 ELSE got[d]
    <3>1. \A d \in Logins \ {c} : phase[d] # "idle" => phase'[d] # "idle"
      BY <1>b, <2>3
    <3> QED
      BY <2>1, <3>1, FormFreed
  <2>5. TypeOK'
    BY <1>a, <2>1, <2>3, <2>4 DEF TypeOK
  <2>6. Refreshers = {} /\ Queue = {}
    BY <2>1 DEF RefreshersSound
  <2>7. Refreshers' = {} /\ Queue' = {}
    BY <2>3, <2>6 DEF Refreshers, Queue
  <2>8. RotatesOnce' /\ StoredPairUsable' /\ WaitersHaveRefresh'
    BY <2>1, <2>7 DEF RotatesOnce, StoredPairUsable, WaitersHaveRefresh, Refreshers, TypeOK
  <2>9. \A d \in Calls : got'[d] # 0 => phase'[d] = phase[d] /\ d # c /\ got'[d] = got[d]
    BY <2>3, <2>4 DEF AnswersFresh
  <2>10. AnswersFresh'
    BY <2>1, <2>4, <2>9 DEF AnswersFresh
  <2>11. RefreshersSound'
    BY <1>b, <2>1, <2>3, <2>4, <2>7 DEF RefreshersSound
  <2> QED
    BY <2>5, <2>8, <2>10, <2>11
<1>17. ASSUME NEW c \in Calls, RefreshDone(c) PROVE SessionInv'
  <2>1. /\ UNCHANGED <<retried, form, issued, dead, spent, lost, stranded>>
        /\ phase[c] = "rotated" /\ creds' = got[c] /\ isRefreshing' = FALSE
        /\ phase' = [d \in Calls |-> IF d \in Queue \union {c} THEN "sent" ELSE phase[d]]
        /\ tok' = [d \in Calls |-> IF d \in Queue \union {c} THEN got[c] ELSE tok[d]]
        /\ got' = [got EXCEPT ![c] = 0]
    BY <1>17 DEF RefreshDone, Settle, server, history
  <2>2. TypeOK'
    BY <1>a, <1>b, <2>1 DEF TypeOK, Phases
  <2>3. \A d \in Refreshers : d = c
    BY <2>1 DEF RotatesOnce, Refreshers
  <2>4. Refreshers' = {} /\ Queue' = {}
    BY <2>1, <2>3 DEF Refreshers, Queue
  <2>5. got[c] # 0 /\ got[c] \notin spent
    BY <2>1 DEF RefreshersSound, AnswersFresh
  <2>6. RotatesOnce' /\ StoredPairUsable' /\ WaitersHaveRefresh'
    BY <2>1, <2>4, <2>5 DEF RotatesOnce, StoredPairUsable, WaitersHaveRefresh, Refreshers
  <2>7. \A d \in Calls : got'[d] # 0 => phase'[d] = phase[d] /\ d # c /\ got'[d] = got[d]
    BY <2>1 DEF AnswersFresh, TypeOK, Queue
  <2>8. AnswersFresh'
    BY <2>1, <2>5, <2>7 DEF AnswersFresh
  <2>9. RefreshersSound'
    BY <1>b, <2>1, <2>4 DEF RefreshersSound, TypeOK
  <2> QED
    BY <2>2, <2>6, <2>8, <2>9
<1>18. ASSUME NEW c \in Calls, RefreshFailed(c) PROVE SessionInv'
  <2> DEFINE S == Queue \union {c}
             idled == [d \in Calls |-> IF d \in S THEN "idle" ELSE phase[d]]
  <2>1. /\ UNCHANGED <<issued, dead, spent, lost, stranded>>
        /\ phase[c] = "denied" /\ creds' = 0 /\ isRefreshing' = FALSE
        /\ phase' \in WithLogoutPost(idled)
        /\ Free(S)
    BY <1>18 DEF RefreshFailed, Settle, server, history
  <2>2. idled \in [Calls -> Phases] /\ S \in SUBSET Calls
    BY DEF TypeOK, Phases, Queue
  <2>3. /\ phase' \in [Calls -> Phases]
        /\ \A d \in Calls : \/ phase'[d] = idled[d]
                            \/ d \in Logouts /\ idled[d] = "idle" /\ phase'[d] = "sent"
    <3> HIDE DEF idled
    <3> QED
      BY <2>1, <2>2, LogoutPost
  <2>4. /\ form' \in {l \in Logins : phase'[l] # "idle"} \union {NoCall}
        /\ tok' \in [Calls -> 0..issued] /\ got' \in [Calls -> 0..issued]
        /\ retried' \subseteq Calls
        /\ \A d \in Calls : /\ tok'[d] = IF d \in S THEN 0 ELSE tok[d]
                            /\ got'[d] = IF d \in S THEN 0 ELSE got[d]
    <3>1. \A d \in Logins \ S : phase[d] # "idle" => phase'[d] # "idle"
      BY <1>b, <2>3
    <3> HIDE DEF S
    <3> QED
      BY <2>1, <2>2, <3>1, FormFreed
  <2>5. TypeOK'
    BY <1>a, <2>1, <2>3, <2>4 DEF TypeOK
  <2>6. \A d \in Refreshers : d = c
    BY <2>1 DEF RotatesOnce, Refreshers
  <2>7. Refreshers' = {} /\ Queue' = {}
    BY <2>3, <2>6 DEF Refreshers, Queue
  <2>8. RotatesOnce' /\ StoredPairUsable' /\ WaitersHaveRefresh'
    BY <2>1, <2>7 DEF RotatesOnce, StoredPairUsable, WaitersHaveRefresh, Refreshers, TypeOK
  <2>9. \A d \in Calls : got'[d] # 0 => phase'[d] = phase[d] /\ got'[d] = got[d]
    BY <2>3, <2>4 DEF AnswersFresh
  <2>10. AnswersFresh'
    BY <2>1, <2>4, <2>9 DEF AnswersFresh
  <2>11. RefreshersSound'
    BY <1>b, <2>1, <2>3, <2>4, <2>7 DEF RefreshersSound
  <2> QED
    BY <2>5, <2>8, <2>10, <2>11
<1>19. CASE UNCHANGED vars
  <2>1. UNCHANGED <<Queue, Refreshers>>
    BY <1>19 DEF vars, calls, Queue, Refreshers
  <2> QED
    BY <1>19, <2>1 DEF vars, store, calls, server, history, TypeOK, RotatesOnce,
       StoredPairUsable, WaitersHaveRefresh, AnswersFresh, RefreshersSound
<1> QED
  BY <1>1, <1>2, <1>3, <1>4, <1>5, <1>6, <1>7, <1>8, <1>9, <1>10, <1>11, <1>12, <1>13,
     <1>14, <1>15, <1>16, <1>17, <1>18, <1>19 DEF Next, Answer, Handle

\* SessionInv holds in every state.
LEMMA SessionInvariant == Spec => []SessionInv
<1>1. Init => SessionInv
  BY InitSessionInv
<1>2. SessionInv /\ [Next]_vars => SessionInv'
  BY StepSessionInv
<1> QED
  BY <1>1, <1>2, PTL DEF Spec

-----------------------------------------------------------------------------

\* The types of the session hold for any calls: the login form waits only for a
\* call that has not been settled (Login.tsx, loading).
THEOREM SessionTypeCorrect == Spec => []TypeOK
<1>1. SessionInv => TypeOK
  BY DEF SessionInv
<1> QED
  BY <1>1, SessionInvariant, PTL

\* However many calls meet a 401, one rotation runs at a time, and no refresh
\* token is presented twice but through a reload (api-client.ts).
THEOREM RotationsAreSingle == Spec => []RotatesOnce
<1>1. SessionInv => RotatesOnce
  BY DEF SessionInv
<1> QED
  BY <1>1, SessionInvariant, PTL

\* The stored refresh token has not been rotated away, unless its successor is
\* on the way or was lost in a reload (api-client.ts, authStore.ts).
THEOREM StoredPairStaysUsable == Spec => []StoredPairUsable
<1>1. SessionInv => StoredPairUsable
  BY DEF SessionInv
<1> QED
  BY <1>1, SessionInvariant, PTL

\* A call waits in the queue only for a refresh under way, except in a tab where
\* a 401 found no refresh token (api-client.ts, failedQueue).
THEOREM QueueIsServed == Spec => []WaitersHaveRefresh
<1>1. SessionInv => WaitersHaveRefresh
  BY DEF SessionInv
<1> QED
  BY <1>1, SessionInvariant, PTL

-----------------------------------------------------------------------------
(* The live feed.                                                          *)

\* Before the tab is loaded FeedInv holds.
LEMMA InitFeedInv == FeedInit => FeedInv
<1> SUFFICES ASSUME FeedInit PROVE FeedInv
  OBVIOUS
<1>1. FeedTypeOK
  <2>1. /\ attempts \in 0..MaxReconnectAttempts
        /\ reconnects \in 0..MaxTimers
        /\ loads \in 0..MaxLoads
    BY AttemptsAssumption, TimersAssumption, LoadsAssumption DEF FeedInit
  <2>2. notifications \in Seq([of : Events, read : BOOLEAN]) /\ toasts \in Seq(Events)
    BY DEF FeedInit
  <2> QED
    BY <2>1, <2>2 DEF FeedInit, FeedTypeOK
<1>2. OneSocket /\ ReconnectPending /\ NotifiedOnce
  <2>1. Live = {}
    BY DEF FeedInit, Live
  <2>2. DOMAIN notifications = {}
    BY DEF FeedInit
  <2> QED
    BY <2>1, <2>2 DEF FeedInit, OneSocket, ReconnectPending, NotifiedOnce
<1>3. NoneClosing /\ NoticesSound
  BY DEF FeedInit, NoneClosing, NoticesSound
<1> QED
  BY <1>1, <1>2, <1>3 DEF FeedInv

Notification == [of : Events, read : BOOLEAN]

\* What is in a list of notifications.
LEMMA Listed ==
  ASSUME NEW R, NEW s \in Seq(R), NEW i \in DOMAIN s
  PROVE  s[i] \in R
BY ElementOfSeq

\* A list of notifications of which some are marked as read.
LEMMA Marked ==
  ASSUME NEW R, NEW s \in Seq(R), NEW t, t = [i \in DOMAIN s |-> t[i]],
         \A i \in DOMAIN s : t[i] \in R
  PROVE  t \in Seq(R) /\ DOMAIN t = DOMAIN s
<1>1. t \in [1..Len(s) -> R]
  OBVIOUS
<1> QED
  BY <1>1

\* The handler of error and close takes the client's socket away, and leaves a
\* timer or no attempt.
LEMMA Handled ==
  ASSUME FeedTypeOK, NEW n \in {1, 2}, NEW pending \in Nat,
         HandleCloseOrFailure(n, pending)
  PROVE  /\ status' = "closed" /\ heartbeat' = FALSE /\ ws' = None
         /\ attempts' \in 0..MaxReconnectAttempts
         /\ reconnects' \in 0..MaxTimers
         /\ reconnects' > 0 \/ attempts' = MaxReconnectAttempts
<1> DEFINE more == IF attempts + n <= MaxReconnectAttempts
                   THEN n ELSE MaxReconnectAttempts - attempts
<1>1. attempts \in Nat /\ attempts <= MaxReconnectAttempts
  BY AttemptsAssumption DEF FeedTypeOK
<1>2. /\ more \in Nat /\ attempts + more <= MaxReconnectAttempts
      /\ more > 0 \/ attempts + more = MaxReconnectAttempts
  BY <1>1, AttemptsAssumption
<1>3. /\ pending + more <= MaxTimers
      /\ status' = "closed" /\ heartbeat' = FALSE /\ ws' = None
      /\ attempts' = attempts + more /\ reconnects' = pending + more
  BY DEF HandleCloseOrFailure
<1> HIDE DEF more
<1> QED
  BY <1>1, <1>2, <1>3, AttemptsAssumption, TimersAssumption

\* A step of the client that leaves the notifications alone, but for the
\* messages of sockets that it closes.
LEMMA ClientStep ==
  ASSUME FeedInv, UNCHANGED <<sent, notices, loadHistory>>,
         wire' \subseteq wire,
         sock' \in [Sockets -> {"connecting", "open", "closing", "closed"}],
         ws' \in Sockets \union {None},
         status' \in {"connecting", "open", "closed"},
         attempts' \in 0..MaxReconnectAttempts,
         reconnects' \in 0..MaxTimers,
         heartbeat' \in BOOLEAN,
         OneSocket', ReconnectPending', NoneClosing'
  PROVE  FeedInv'
<1> USE DEF FeedInv
<1>1. UNCHANGED <<notifications, enabled, toasts, loads, disconnected>>
  BY DEF notices, loadHistory
<1>2. FeedTypeOK'
  BY <1>1 DEF FeedTypeOK
<1>3. NotifiedOnce' /\ NoticesSound'
  BY <1>1 DEF NotifiedOnce, NoticesSound
<1> QED
  BY <1>2, <1>3

\* A step that leaves the client alone.
LEMMA NoticeStep ==
  ASSUME FeedInv, UNCHANGED <<sock, client, loadHistory>>,
         sent' \subseteq Events, wire' \subseteq Sockets \X FeedEvents,
         notifications' \in Seq([of : Events, read : BOOLEAN]),
         enabled' \subseteq Categories, toasts' \in Seq(Events),
         NotifiedOnce', NoticesSound'
  PROVE  FeedInv'
<1> USE DEF FeedInv
<1>1. UNCHANGED <<ws, status, attempts, reconnects, heartbeat, loads, disconnected>>
  BY DEF client, loadHistory
<1>2. FeedTypeOK'
  BY <1>1 DEF FeedTypeOK
<1>3. Live' = Live
  BY DEF Live
<1>4. OneSocket' /\ ReconnectPending' /\ NoneClosing'
  BY <1>1, <1>3 DEF OneSocket, ReconnectPending, NoneClosing
<1> QED
  BY <1>2, <1>4

\* Adding a notification of an event that is neither on its way nor in the list.
LEMMA AddedOnce ==
  ASSUME FeedInv, NEW e \in Events, AddNotification(e),
         UNCHANGED <<sock, client, loadHistory>>,
         sent' = sent \union {e}, wire' \subseteq wire,
         ~disconnected => \A m \in wire' : m[2] # e,
         ~disconnected => \A i \in DOMAIN notifications : notifications[i].of # e
  PROVE  FeedInv'
<1> USE DEF FeedInv
<1>1. /\ enabled' = enabled /\ disconnected' = disconnected
      /\ notifications \in Seq([of : Events, read : BOOLEAN])
      /\ toasts \in Seq(Events)
  BY DEF AddNotification, loadHistory, FeedTypeOK
<1>2. CASE Category[e] \notin enabled
  <2>1. UNCHANGED <<notifications, toasts>>
    BY <1>2 DEF AddNotification
  <2>2. NotifiedOnce' /\ NoticesSound'
    BY <1>1, <2>1 DEF NotifiedOnce, NoticesSound
  <2> QED
    BY <1>1, <2>1, <2>2, NoticeStep DEF FeedTypeOK
<1>3. CASE Category[e] \in enabled
  <2> DEFINE new == [of |-> e, read |-> FALSE]
  <2>1. notifications' = <<new>> \o notifications /\ toasts' = Append(toasts, e)
    BY <1>3 DEF AddNotification
  <2>2. new \in [of : Events, read : BOOLEAN]
    OBVIOUS
  <2>3. /\ notifications' \in Seq([of : Events, read : BOOLEAN])
        /\ toasts' \in Seq(Events)
        /\ notifications'[1] = new
        /\ \A i \in DOMAIN notifications' \ {1} :
              i - 1 \in DOMAIN notifications /\ notifications'[i] = notifications[i - 1]
        /\ DOMAIN notifications' \subseteq Nat
    <3> HIDE DEF new
    <3> QED
      BY <1>1, <2>1, <2>2
  <2>4. NotifiedOnce'
    <3> SUFFICES ASSUME ~disconnected, NEW i \in DOMAIN notifications',
                        NEW j \in DOMAIN notifications',
                        notifications'[i].of = notifications'[j].of
                 PROVE  i = j
      BY <1>1 DEF NotifiedOnce
    <3>1. CASE i = 1 \/ j = 1
      BY <2>3, <3>1
    <3>2. CASE i # 1 /\ j # 1
      <4>1. i - 1 = j - 1
        BY <2>3, <3>2 DEF NotifiedOnce
      <4> QED
        BY <2>3, <4>1
    <3> QED
      BY <3>1, <3>2
  <2>5. NoticesSound'
    <3>1. \A i \in DOMAIN notifications' :
             notifications'[i].of = e
             \/ \E j \in DOMAIN notifications : notifications'[i].of = notifications[j].of
      BY <2>3
    <3> QED
      BY <1>1, <3>1 DEF NoticesSound
  <2> QED
    BY <1>1, <2>3, <2>4, <2>5, NoticeStep DEF FeedTypeOK
<1> QED
  BY <1>2, <1>3

\* Every step of the sockets, the client, the store and the user preserves it.
LEMMA StepFeedInv == FeedInv /\ [FeedNext]_feedVars => FeedInv'
<1> SUFFICES ASSUME FeedInv, [FeedNext]_feedVars PROVE FeedInv'
  OBVIOUS
<1> USE DEF FeedInv
<1>a. /\ reconnects \in Nat /\ attempts \in Nat /\ MaxTimers \in Nat /\ 0 \in 0..MaxReconnectAttempts
      /\ \A k \in 0..MaxTimers : k > 0 => k - 1 \in 0..MaxTimers
  BY AttemptsAssumption, TimersAssumption DEF FeedTypeOK
<1>1. ASSUME NEW s \in Sockets, Opens(s) PROVE FeedInv'
  <2>1. /\ sock[s] = "connecting" /\ sock' = [sock EXCEPT ![s] = "open"]
        /\ status' = "open" /\ attempts' = 0 /\ heartbeat' = TRUE
        /\ UNCHANGED <<ws, reconnects, sent, wire, notices, loadHistory>>
    BY <1>1 DEF Opens
  <2>2. Live' = Live /\ s \in Live /\ disconnected' = disconnected
    BY <2>1 DEF Live, FeedTypeOK, loadHistory
  <2>3. OneSocket'
    BY <2>1, <2>2, NoneAssumption DEF OneSocket, FeedTypeOK
  <2>4. ReconnectPending' /\ NoneClosing'
    BY <2>1, <2>2 DEF ReconnectPending, NoneClosing, FeedTypeOK
  <2> QED
    BY <1>a, <2>1, <2>3, <2>4, ClientStep DEF FeedTypeOK
<1>2. ASSUME NEW s \in Sockets, NEW n \in {1, 2}, HandleCloseOrFailure(n, reconnects),
             SocketCloses(s), sock[s] \in {"connecting", "open", "closing"}
      PROVE  FeedInv'
  <2>1. /\ sock' = [sock EXCEPT ![s] = "closed"] /\ wire' \subseteq wire
        /\ UNCHANGED <<sent, notices, loadHistory>> /\ disconnected' = disconnected
    BY <1>2 DEF SocketCloses, loadHistory
  <2>2. /\ status' = "closed" /\ heartbeat' = FALSE /\ ws' = None
        /\ attempts' \in 0..MaxReconnectAttempts /\ reconnects' \in 0..MaxTimers
        /\ reconnects' > 0 \/ attempts' = MaxReconnectAttempts
    BY <1>a, <1>2, Handled
  <2>3. Live' = Live \ {s}
    BY <2>1 DEF Live, FeedTypeOK
  <2>4. ~disconnected => Live = {s}
    BY <1>2, NoneAssumption DEF OneSocket, NoneClosing, Live
  <2>5. OneSocket' /\ ReconnectPending' /\ NoneClosing'
    BY <2>1, <2>2, <2>3, <2>4 DEF OneSocket, ReconnectPending, NoneClosing, FeedTypeOK
  <2> QED
    BY <2>1, <2>2, <2>5, ClientStep DEF FeedTypeOK
<1>3. ASSUME NEW s \in Sockets, Fails(s) PROVE FeedInv'
  BY <1>2, <1>3 DEF Fails, Live
<1>4. ASSUME NEW s \in Sockets, Closes(s) PROVE FeedInv'
  BY <1>2, <1>4 DEF Closes
<1>5. CASE Reconnect
  <2>1. /\ reconnects > 0 /\ UNCHANGED <<sent, wire, notices, loadHistory>>
        /\ disconnected' = disconnected
    BY <1>5 DEF Reconnect, loadHistory
  <2>2. CASE ws \in Live
    <3>1. reconnects' = reconnects - 1 /\ UNCHANGED <<sock, ws, status, attempts, heartbeat>>
      BY <1>5, <2>2 DEF Reconnect
    <3>2. Live' = Live
      BY <3>1 DEF Live
    <3>3. ~disconnected => status # "closed"
      BY <2>2, NoneAssumption DEF OneSocket, Live
    <3>4. OneSocket' /\ ReconnectPending' /\ NoneClosing'
      BY <2>1, <3>1, <3>2, <3>3 DEF OneSocket, ReconnectPending, NoneClosing
    <3> QED
      BY <1>a, <2>1, <3>1, <3>4, ClientStep DEF FeedTypeOK
  <2>3. ASSUME ws \notin Live, NEW s \in Sockets, sock[s] = "closed",
               sock' = [sock EXCEPT ![s] = "connecting"], ws' = s,
               status' = "connecting", reconnects' = reconnects - 1,
               UNCHANGED <<attempts, heartbeat>>
        PROVE  FeedInv'
    <3>1. Live' = Live \union {s}
      BY <2>3 DEF Live, FeedTypeOK
    <3>2. ~disconnected => Live = {} /\ ws = None
      BY <2>3 DEF OneSocket
    <3>3. OneSocket'
      BY <2>1, <2>3, <3>1, <3>2, NoneAssumption DEF OneSocket, FeedTypeOK
    <3>4. ReconnectPending' /\ NoneClosing'
      BY <2>1, <2>3 DEF ReconnectPending, NoneClosing, FeedTypeOK
    <3> QED
      BY <1>a, <2>1, <2>3, <3>3, <3>4, ClientStep DEF FeedTypeOK
  <2>4. ASSUME ws \notin Live, HandleCloseOrFailure(1, reconnects - 1), UNCHANGED sock
        PROVE  FeedInv'
    <3>1. reconnects - 1 \in Nat
      BY <1>a, <2>1
    <3>2. /\ status' = "closed" /\ heartbeat' = FALSE /\ ws' = None
          /\ attempts' \in 0..MaxReconnectAttempts /\ reconnects' \in 0..MaxTimers
          /\ reconnects' > 0 \/ attempts' = MaxReconnectAttempts
      BY <2>4, <3>1, Handled
    <3>3. Live' = Live /\ (~disconnected => Live = {})
      BY <2>4 DEF Live, OneSocket
    <3>4. OneSocket' /\ ReconnectPending' /\ NoneClosing'
      BY <2>1, <2>4, <3>2, <3>3 DEF OneSocket, ReconnectPending, NoneClosing
    <3> QED
      BY <2>1, <2>4, <3>2, <3>4, ClientStep DEF FeedTypeOK
  <2> QED
    BY <1>5, <2>2, <2>3, <2>4 DEF Reconnect
<1>6. CASE Disconnect
  <2>1. /\ heartbeat' = FALSE /\ ws' = None /\ status' = "closed" /\ disconnected' = TRUE
        /\ sock' = IF ws = None THEN sock ELSE [sock EXCEPT ![ws] = "closing"]
        /\ UNCHANGED <<loads, attempts, reconnects, sent, wire, notifications, enabled, toasts>>
    BY <1>6 DEF Disconnect, notices
  <2>2. FeedTypeOK'
    BY <2>1 DEF FeedTypeOK
  <2> QED
    BY <2>1, <2>2 DEF OneSocket, ReconnectPending, NotifiedOnce, NoneClosing, NoticesSound
<1>7. CASE LoadTab
  <2>1. /\ ws' \in Sockets /\ loads' = loads + 1 /\ loads < MaxLoads
        /\ sock' = [s \in Sockets |-> IF s = ws' THEN "connecting" ELSE "closed"]
        /\ status' = "connecting" /\ attempts' = 0 /\ reconnects' = 0 /\ heartbeat' = FALSE
        /\ wire' = {} /\ toasts' = <<>>
        /\ UNCHANGED <<sent, notifications, enabled, disconnected>>
    BY <1>7 DEF LoadTab
  <2>2. FeedTypeOK'
    <3>1. loads' \in 0..MaxLoads
      BY <2>1, LoadsAssumption DEF FeedTypeOK
    <3>2. sock' \in [Sockets -> {"connecting", "open", "closing", "closed"}]
      BY <2>1
    <3>3. toasts' \in Seq(Events) /\ reconnects' \in 0..MaxTimers
      BY <1>a, <2>1
    <3> QED
      BY <1>a, <2>1, <3>1, <3>2, <3>3 DEF FeedTypeOK
  <2>3. Live' = {ws'}
    BY <2>1 DEF Live
  <2>4. OneSocket' /\ ReconnectPending' /\ NoneClosing'
    BY <2>1, <2>3, NoneAssumption DEF OneSocket, ReconnectPending, NoneClosing
  <2>5. NotifiedOnce' /\ NoticesSound'
    BY <2>1 DEF NotifiedOnce, NoticesSound
  <2> QED
    BY <2>2, <2>4, <2>5
<1>8. ASSUME NEW e \in PageEvents, PageAdds(e) PROVE FeedInv'
  <2>1. /\ e \notin sent /\ sent' = sent \union {e} /\ AddNotification(e) /\ e \in Events
        /\ UNCHANGED <<sock, client, wire, loadHistory>>
    BY <1>8 DEF PageAdds, Events
  <2>2. /\ \A m \in wire : m[2] # e
        /\ \A i \in DOMAIN notifications : notifications[i].of # e
    BY <2>1 DEF NoticesSound
  <2> QED
    BY <2>1, <2>2, AddedOnce
<1>9. ASSUME NEW e \in FeedEvents, Broadcast(e) PROVE FeedInv'
  <2>1. /\ e \notin sent /\ sent' = sent \union {e} /\ e \in Events
        /\ wire' = wire \union ({s \in Sockets : sock[s] = "open"} \X {e})
        /\ UNCHANGED <<sock, client, notices, loadHistory>>
        /\ UNCHANGED <<notifications, enabled, toasts, disconnected>>
    BY <1>9 DEF Broadcast, Events, notices, loadHistory
  <2>2. ~disconnected => \A s, t \in Sockets : sock[s] = "open" /\ sock[t] = "open" => s = t
    BY DEF OneSocket, Live
  <2>3. \A m \in wire' \ wire : m[2] = e /\ m[1] \in Sockets /\ sock[m[1]] = "open"
                                /\ m = <<m[1], m[2]>>
    BY <2>1
  <2>4. \A m \in wire : m[2] # e
    BY <2>1 DEF NoticesSound
  <2>5. NoticesSound'
    <3>1. ~disconnected => \A m, n \in wire' : m[2] = n[2] => m = n
      BY <2>1, <2>2, <2>3, <2>4 DEF NoticesSound
    <3>2. ~disconnected =>
            \A i \in DOMAIN notifications : \A m \in wire' : notifications[i].of # m[2]
      BY <2>1, <2>3 DEF NoticesSound
    <3>3. \A m \in wire' : m[2] \in sent'
      BY <2>1, <2>3 DEF NoticesSound
    <3> QED
      BY <2>1, <3>1, <3>2, <3>3 DEF NoticesSound
  <2>6. NotifiedOnce'
    BY <2>1 DEF NotifiedOnce
  <2>7. wire' \subseteq Sockets \X FeedEvents /\ sent' \subseteq Events
    BY <2>1 DEF FeedTypeOK
  <2> QED
    BY <2>1, <2>5, <2>6, <2>7, NoticeStep DEF FeedTypeOK
<1>10. ASSUME NEW e \in FeedEvents, NEW s \in Sockets, Message(s, e) PROVE FeedInv'
  <2>1. /\ <<s, e>> \in wire /\ wire' = wire \ {<<s, e>>} /\ e \in Events
        /\ UNCHANGED <<sock, client, sent, loadHistory>> /\ disconnected' = disconnected
        /\ IF sock[s] = "open" THEN AddNotification(e) ELSE UNCHANGED notices
    BY <1>10 DEF Message, Events, loadHistory
  <2>2. e \in sent
    BY <2>1 DEF NoticesSound
  <2>3. ~disconnected => /\ \A m \in wire' : m[2] # e
                         /\ \A i \in DOMAIN notifications : notifications[i].of # e
    BY <2>1 DEF NoticesSound
  <2>4. CASE sock[s] = "open"
    BY <2>1, <2>2, <2>3, <2>4, AddedOnce
  <2>5. CASE sock[s] # "open"
    <3>1. UNCHANGED <<notifications, enabled, toasts>>
      BY <2>1, <2>5 DEF notices
    <3>2. NotifiedOnce' /\ NoticesSound'
      BY <2>1, <3>1 DEF NotifiedOnce, NoticesSound
    <3> QED
      BY <2>1, <3>1, <3>2, NoticeStep DEF FeedTypeOK
  <2> QED
    BY <2>4, <2>5
<1>11. ASSUME notifications' \in Seq([of : Events, read : BOOLEAN]),
              DOMAIN notifications' \subseteq DOMAIN notifications,
              \A i \in DOMAIN notifications' : notifications'[i].of = notifications[i].of,
              UNCHANGED <<sock, client, sent, wire, enabled, toasts, loadHistory>>
       PROVE  FeedInv'
  <2>1. NotifiedOnce' /\ NoticesSound'
    BY <1>11 DEF NotifiedOnce, NoticesSound, loadHistory
  <2> QED
    BY <1>11, <2>1, NoticeStep DEF FeedTypeOK
<1>12. ASSUME NEW i \in DOMAIN notifications, MarkAsRead(i) PROVE FeedInv'
  <2>1. notifications \in Seq([of : Events, read : BOOLEAN])
        /\ notifications' = [notifications EXCEPT ![i].read = TRUE]
    BY <1>12 DEF MarkAsRead, FeedTypeOK
  <2>2. \A j \in DOMAIN notifications : notifications[j] \in Notification
    <3>1. notifications \in Seq(Notification)
      BY <2>1 DEF Notification
    <3> QED
      BY <3>1, Listed
  <2>3. /\ notifications' = [j \in DOMAIN notifications |-> notifications'[j]]
        /\ \A j \in DOMAIN notifications :
              /\ notifications'[j] \in [of : Events, read : BOOLEAN]
              /\ notifications'[j].of = notifications[j].of
    BY <2>1, <2>2 DEF Notification
  <2>4. /\ notifications' \in Seq([of : Events, read : BOOLEAN])
        /\ DOMAIN notifications' = DOMAIN notifications
    <3>1. \A j \in DOMAIN notifications : notifications'[j] \in Notification
      BY <2>3 DEF Notification
    <3>2. notifications \in Seq(Notification)
      BY <2>1 DEF Notification
    <3>3. notifications' \in Seq(Notification) /\ DOMAIN notifications' = DOMAIN notifications
      BY <2>3, <3>1, <3>2, Marked
    <3> QED
      BY <3>3 DEF Notification
  <2> QED
    BY <1>11, <1>12, <2>3, <2>4 DEF MarkAsRead
<1>13. CASE MarkAllAsRead
  <2>1. /\ notifications \in Seq([of : Events, read : BOOLEAN])
        /\ notifications' = [i \in DOMAIN notifications |->
                                [of |-> notifications[i].of, read |-> TRUE]]
    BY <1>13 DEF MarkAllAsRead, FeedTypeOK
  <2>2. \A j \in DOMAIN notifications : notifications[j] \in Notification
    <3>1. notifications \in Seq(Notification)
      BY <2>1 DEF Notification
    <3> QED
      BY <3>1, Listed
  <2>3. /\ notifications' = [j \in DOMAIN notifications |-> notifications'[j]]
        /\ \A j \in DOMAIN notifications :
              /\ notifications'[j] \in [of : Events, read : BOOLEAN]
              /\ notifications'[j].of = notifications[j].of
    BY <2>1, <2>2 DEF Notification
  <2>4. /\ notifications' \in Seq([of : Events, read : BOOLEAN])
        /\ DOMAIN notifications' = DOMAIN notifications
    <3>1. \A j \in DOMAIN notifications : notifications'[j] \in Notification
      BY <2>3 DEF Notification
    <3>2. notifications \in Seq(Notification)
      BY <2>1 DEF Notification
    <3>3. notifications' \in Seq(Notification) /\ DOMAIN notifications' = DOMAIN notifications
      BY <2>3, <3>1, <3>2, Marked
    <3> QED
      BY <3>3 DEF Notification
  <2> QED
    BY <1>11, <1>13, <2>3, <2>4 DEF MarkAllAsRead
<1>14. CASE ClearAll
  BY <1>11, <1>14 DEF ClearAll
<1>15. ASSUME NEW c \in Categories, UpdatePreference(c) PROVE FeedInv'
  <2>1. /\ enabled' \subseteq Categories
        /\ UNCHANGED <<sock, client, sent, wire, notifications, toasts, loadHistory>>
    BY <1>15 DEF UpdatePreference, FeedTypeOK
  <2>2. NotifiedOnce' /\ NoticesSound'
    BY <2>1 DEF NotifiedOnce, NoticesSound, loadHistory
  <2> QED
    BY <2>1, <2>2, NoticeStep DEF FeedTypeOK
<1>16. ASSUME toasts' \in Seq(Events),
              UNCHANGED <<sock, client, sent, wire, notifications, enabled, loadHistory>>
       PROVE  FeedInv'
  <2>1. NotifiedOnce' /\ NoticesSound'
    BY <1>16 DEF NotifiedOnce, NoticesSound, loadHistory
  <2> QED
    BY <1>16, <2>1, NoticeStep DEF FeedTypeOK
<1>17. CASE ExpireToast
  <2>1. toasts \in Seq(Events) /\ toasts # <<>> /\ toasts' = Tail(toasts)
    BY <1>17 DEF ExpireToast, FeedTypeOK
  <2> QED
    BY <1>16, <1>17, <2>1 DEF ExpireToast
<1>18. ASSUME NEW i \in DOMAIN toasts, DismissToast(i) PROVE FeedInv'
  <2>1. toasts \in Seq(Events) /\ i \in 1..Len(toasts)
        /\ toasts' = SubSeq(toasts, 1, i - 1) \o SubSeq(toasts, i + 1, Len(toasts))
    BY <1>18 DEF DismissToast, FeedTypeOK, RemoveAt
  <2>2. SubSeq(toasts, 1, i - 1) \in Seq(Events) /\ SubSeq(toasts, i + 1, Len(toasts)) \in Seq(Events)
    BY <2>1
  <2> QED
    BY <1>16, <1>18, <2>1, <2>2 DEF DismissToast
<1>19. CASE UNCHANGED feedVars
  <2>1. Live' = Live
    BY <1>19 DEF feedVars, Live
  <2> QED
    BY <1>19, <2>1 DEF feedVars, client, notices, loadHistory, FeedTypeOK, OneSocket,
       ReconnectPending, NotifiedOnce, NoneClosing, NoticesSound
<1> QED
  BY <1>1, <1>3, <1>4, <1>5, <1>6, <1>7, <1>8, <1>9, <1>10, <1>12, <1>13, <1>14, <1>15,
     <1>17, <1>18, <1>19 DEF FeedNext, FeedMoves

\* FeedInv holds in every state.
LEMMA FeedInvariant == FeedSpec => []FeedInv
<1>1. FeedInit => FeedInv
  BY InitFeedInv
<1>2. FeedInv /\ [FeedNext]_feedVars => FeedInv'
  BY StepFeedInv
<1> QED
  BY <1>1, <1>2, PTL DEF FeedSpec

-----------------------------------------------------------------------------

\* The types hold for any sockets and bounds: no more attempts are counted than
\* maxReconnectAttempts, although a failure counts two (websocket.ts).
THEOREM FeedTypeCorrect == FeedSpec => []FeedTypeOK
<1>1. FeedInv => FeedTypeOK
  BY DEF FeedInv
<1> QED
  BY <1>1, FeedInvariant, PTL

\* The tab has one socket, whose state the client tells (websocket.ts).
THEOREM SocketIsSingle == FeedSpec => []OneSocket
<1>1. FeedInv => OneSocket
  BY DEF FeedInv
<1> QED
  BY <1>1, FeedInvariant, PTL

\* A feed that is down has a timer or no attempt left (websocket.ts).
THEOREM ReconnectIsPending == FeedSpec => []ReconnectPending
<1>1. FeedInv => ReconnectPending
  BY DEF FeedInv
<1> QED
  BY <1>1, FeedInvariant, PTL

\* Whatever connections are lost, one event is one notification
\* (notificationStore.ts).
THEOREM EventsNotifiedOnce == FeedSpec => []NotifiedOnce
<1>1. FeedInv => NotifiedOnce
  BY DEF FeedInv
<1> QED
  BY <1>1, FeedInvariant, PTL

=============================================================================
