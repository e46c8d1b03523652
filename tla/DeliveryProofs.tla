--------------------------- MODULE DeliveryProofs ---------------------------
(***************************************************************************)
(* The safety properties of event delivery: of the outbox, for any rows,    *)
(* replicas, batch size and retry limit, and of the consume loops and the   *)
(* inbox, for any events, replicas and retry counts, and any bounds on log  *)
(* and faults.                                                              *)
(*                                                                         *)
(* RelayInv is inductive: what makes it so is SessionsSound, which ties     *)
(* each relay's copies to the table and to the broker.                      *)
(***************************************************************************)
EXTENDS OutboxRelay, EventConsumer, TLAPS

-----------------------------------------------------------------------------
(* The outbox.                                                             *)

\* Ending a session, by commit or by a crash, keeps the sessions sound.
LEMMA EndSessionSound ==
    ASSUME RelayTypeOK, SessionsSound, NEW r \in Relays, EndSession(r),
           created' = created, published' = published, attempts' = attempts
    PROVE  /\ SessionsSound'
           /\ batch' \in [Relays -> SUBSET Messages]
           /\ read' \in [Relays -> [Messages -> 0..RelayRetries]]
           /\ sent' \in [Relays -> SUBSET Messages]
           /\ failed' \in [Relays -> SUBSET Messages]
<1>1. 0 \in 0..RelayRetries
  BY RelayRetriesAssumption
<1>2. /\ batch' \in [Relays -> SUBSET Messages]
      /\ read' \in [Relays -> [Messages -> 0..RelayRetries]]
      /\ sent' \in [Relays -> SUBSET Messages]
      /\ failed' \in [Relays -> SUBSET Messages]
  BY <1>1 DEF EndSession, RelayTypeOK
<1>3. SessionsSound'
  BY DEF EndSession, RelayTypeOK, SessionsSound, Written
<1> QED
  BY <1>2, <1>3

\* Before the first row is written there is nothing to say.
LEMMA InitRelayInv == RelayInit => RelayInv
<1> SUFFICES ASSUME RelayInit PROVE RelayInv
  OBVIOUS
<1>1. 0 \in 0..RelayRetries
  BY RelayRetriesAssumption
<1>2. RelayTypeOK
  BY <1>1 DEF RelayInit, RelayTypeOK
<1>3. ProcessedIsPublished /\ AbandonedOnlyAfterRetries /\ SessionsSound
  BY DEF RelayInit, ProcessedIsPublished, AbandonedOnlyAfterRetries, SessionsSound
<1> QED
  BY <1>2, <1>3 DEF RelayInv

\* Every step of the writers and the relays preserves RelayInv.
LEMMA StepRelayInv == RelayInv /\ [RelayNext]_relayVars => RelayInv'
<1> SUFFICES ASSUME RelayInv, [RelayNext]_relayVars PROVE RelayInv'
  OBVIOUS
<1> USE DEF RelayInv
<1>1. ASSUME NEW m \in Messages, NEW t \in Times, WriteOutbox(m, t)
      PROVE  RelayInv'
  <2>1. RelayTypeOK'
    BY <1>1 DEF WriteOutbox, RelayTypeOK, history, sessions
  <2>2. Written \subseteq Written'
    BY <1>1, TimesAssumption DEF WriteOutbox, Written, RelayTypeOK
  <2>3. ProcessedIsPublished' /\ AbandonedOnlyAfterRetries'
    BY <1>1, <2>2 DEF WriteOutbox, ProcessedIsPublished,
                      AbandonedOnlyAfterRetries, history
  <2>4. SessionsSound'
    BY <1>1, <2>2 DEF WriteOutbox, SessionsSound, history, sessions
  <2> QED
    BY <2>1, <2>3, <2>4
<1>2. ASSUME NEW r \in Relays, SelectBatch(r)
      PROVE  RelayInv'
  <2>1. PICK S \in SUBSET Eligible :
           /\ batch' = [batch EXCEPT ![r] = S]
           /\ read' = [read EXCEPT ![r] =
                        [m \in Messages |-> IF m \in S THEN retries[m] ELSE 0]]
    BY <1>2 DEF SelectBatch
  <2>2. /\ UNCHANGED <<created, processed, retries, published, attempts, sent, failed>>
        /\ failed[r] = {}
    BY <1>2 DEF SelectBatch, Busy, table, history
  <2>3. 0 \in 0..RelayRetries
    BY RelayRetriesAssumption
  <2>4. RelayTypeOK'
    BY <2>1, <2>2, <2>3 DEF RelayTypeOK, Eligible, Written
  <2>5. ProcessedIsPublished' /\ AbandonedOnlyAfterRetries'
    BY <2>2 DEF ProcessedIsPublished, AbandonedOnlyAfterRetries, Written
  <2>6. ASSUME NEW m \in S
        PROVE  /\ m \in Written
               /\ read'[r][m] <= attempts[m]
               /\ read'[r][m] < RelayRetries
    BY <2>1, <2>6 DEF Eligible, Written, AbandonedOnlyAfterRetries, RelayTypeOK
  <2>7. SessionsSound'
    <3> SUFFICES ASSUME NEW q \in Relays
        PROVE /\ batch'[q] \union sent'[q] \union failed'[q] \subseteq Written'
              /\ sent'[q] \subseteq published'
              /\ batch'[q] \intersect failed'[q] = {}
              /\ \A m \in batch'[q] :
                    read'[q][m] <= attempts'[m] /\ read'[q][m] < RelayRetries
              /\ \A m \in failed'[q] : read'[q][m] + 1 <= attempts'[m]
      BY DEF SessionsSound
    <3>1. CASE q = r
      <4>1. batch'[q] = S /\ failed'[q] = {}
        BY <2>1, <2>2, <3>1 DEF RelayTypeOK
      <4> QED
        BY <4>1, <2>2, <2>6, <3>1 DEF SessionsSound, Written
    <3>2. CASE q # r
      BY <2>1, <2>2, <3>2 DEF SessionsSound, Written, RelayTypeOK
    <3> QED
      BY <3>1, <3>2
  <2> QED
    BY <2>4, <2>5, <2>7
<1>3. ASSUME NEW r \in Relays, NEW m \in Messages, Send(r, m)
      PROVE  RelayInv'
  <2>1. RelayTypeOK'
    BY <1>3 DEF Send, RelayTypeOK, table
  <2>2. m \in Written
    BY <1>3 DEF Send, NextOf, SessionsSound
  <2>3. ProcessedIsPublished' /\ AbandonedOnlyAfterRetries'
    BY <1>3, <2>2 DEF Send, ProcessedIsPublished, AbandonedOnlyAfterRetries,
                      Written, table
  <2>4. SessionsSound'
    BY <1>3, <2>2 DEF Send, NextOf, SessionsSound, Written, RelayTypeOK, table
  <2> QED
    BY <2>1, <2>3, <2>4
<1>4. ASSUME NEW r \in Relays, NEW m \in Messages, SendFails(r, m)
      PROVE  RelayInv'
  <2>1. /\ attempts' \in [Messages -> 0..RelayRetries]
        /\ \A k \in Messages : attempts[k] <= attempts'[k]
        /\ attempts'[m] = IF attempts[m] < RelayRetries
                          THEN attempts[m] + 1 ELSE attempts[m]
    BY <1>4, RelayRetriesAssumption DEF SendFails, CountFailure, RelayTypeOK
  <2>2. m \in Written /\ m \in batch[r]
    BY <1>4 DEF SendFails, NextOf, SessionsSound
  <2>3. /\ published \subseteq published'
        /\ published' \subseteq published \union {m}
    BY <1>4 DEF SendFails
  <2>4. /\ UNCHANGED <<created, processed, retries, read, sent>>
        /\ batch' = [batch EXCEPT ![r] = @ \ {m}]
        /\ failed' = [failed EXCEPT ![r] = @ \union {m}]
    BY <1>4 DEF SendFails, table
  <2>5. RelayTypeOK'
    BY <2>1, <2>3, <2>4 DEF RelayTypeOK
  <2>6. ProcessedIsPublished'
    BY <2>2, <2>3, <2>4 DEF ProcessedIsPublished, Written
  <2>7. AbandonedOnlyAfterRetries'
    BY <2>1, <2>4, RelayRetriesAssumption DEF AbandonedOnlyAfterRetries, RelayTypeOK
  <2>8. read[r][m] + 1 <= attempts'[m]
    <3>1. /\ read[r][m] \in Nat /\ attempts[m] \in Nat
          /\ read[r][m] <= attempts[m] /\ read[r][m] < RelayRetries
      BY <2>2, RelayRetriesAssumption DEF SessionsSound, RelayTypeOK
    <3> QED
      BY <2>1, <3>1, RelayRetriesAssumption
  <2>9. SessionsSound'
    <3> SUFFICES ASSUME NEW q \in Relays
        PROVE /\ batch'[q] \union sent'[q] \union failed'[q] \subseteq Written'
              /\ sent'[q] \subseteq published'
              /\ batch'[q] \intersect failed'[q] = {}
              /\ \A k \in batch'[q] :
                    read'[q][k] <= attempts'[k] /\ read'[q][k] < RelayRetries
              /\ \A k \in failed'[q] : read'[q][k] + 1 <= attempts'[k]
      BY DEF SessionsSound
    <3>1. /\ batch'[q] \subseteq batch[q]
          /\ failed[q] \subseteq failed'[q]
          /\ failed'[q] \subseteq failed[q] \union {m}
          /\ m \in failed'[q] /\ m \notin failed[q] => q = r
          /\ q = r => m \notin batch'[q]
          /\ q # r => failed'[q] = failed[q]
      BY <2>4 DEF RelayTypeOK
    <3>2. \A k \in Messages : /\ read[q][k] \in Nat /\ attempts[k] \in Nat
                              /\ attempts'[k] \in Nat /\ attempts[k] <= attempts'[k]
      BY <2>1, RelayRetriesAssumption DEF RelayTypeOK
    <3>3. batch[q] \subseteq Messages /\ failed[q] \subseteq Messages
      BY DEF RelayTypeOK
    <3>4. \A k \in batch'[q] : read'[q][k] <= attempts'[k] /\ read'[q][k] < RelayRetries
      BY <2>4, <3>1, <3>2, <3>3 DEF SessionsSound
    <3>5. \A k \in failed'[q] : read'[q][k] + 1 <= attempts'[k]
      <4> SUFFICES ASSUME NEW k \in failed'[q]
                   PROVE  read[q][k] + 1 <= attempts'[k]
        BY <2>4
      <4>1. CASE k \in failed[q]
        BY <4>1, <3>2, <3>3 DEF SessionsSound
      <4>2. CASE k \notin failed[q]
        BY <4>2, <2>8, <3>1
      <4> QED
        BY <4>1, <4>2
    <3>6. batch'[q] \intersect failed'[q] = {}
      BY <3>1 DEF SessionsSound
    <3>7. /\ batch'[q] \union sent'[q] \union failed'[q] \subseteq Written'
          /\ sent'[q] \subseteq published'
      BY <2>2, <2>3, <2>4, <3>1 DEF SessionsSound, Written
    <3> QED
      BY <3>4, <3>5, <3>6, <3>7
  <2> QED
    BY <2>5, <2>6, <2>7, <2>9
<1>5. ASSUME NEW r \in Relays, Commit(r)
      PROVE  RelayInv'
  <2>1. /\ processed' = processed \union sent[r]
        /\ retries' = [m \in Messages |-> IF m \in failed[r]
                                          THEN read[r][m] + 1 ELSE retries[m]]
        /\ UNCHANGED <<created, published, attempts>>
        /\ EndSession(r)
    BY <1>5 DEF Commit, history
  <2>2. \A m \in failed[r] : read[r][m] + 1 <= attempts[m]
    BY DEF SessionsSound
  <2>3. ASSUME NEW m \in Messages
        PROVE  retries'[m] \in 0..RelayRetries /\ retries'[m] <= attempts[m]
    <3>1. /\ read[r][m] \in Nat /\ retries[m] \in 0..RelayRetries
          /\ attempts[m] \in 0..RelayRetries /\ retries[m] <= attempts[m]
      BY RelayRetriesAssumption DEF RelayTypeOK, AbandonedOnlyAfterRetries
    <3>2. CASE m \in failed[r]
      BY <2>1, <2>2, <3>1, <3>2, RelayRetriesAssumption
    <3>3. CASE m \notin failed[r]
      BY <2>1, <3>1, <3>3
    <3> QED
      BY <3>2, <3>3
  <2>4. SessionsSound' /\ RelayTypeOK'
    BY <2>1, <2>3, EndSessionSound DEF RelayTypeOK
  <2>5. ProcessedIsPublished'
    BY <2>1 DEF ProcessedIsPublished, SessionsSound, Written
  <2>6. AbandonedOnlyAfterRetries'
    BY <2>1, <2>3 DEF AbandonedOnlyAfterRetries
  <2> QED
    BY <2>4, <2>5, <2>6
<1>6. ASSUME NEW r \in Relays, Abort(r)
      PROVE  RelayInv'
  <2>1. /\ UNCHANGED <<created, processed, retries, published, attempts>>
        /\ EndSession(r)
    BY <1>6 DEF Abort, table, history
  <2>2. SessionsSound' /\ RelayTypeOK'
    BY <2>1, EndSessionSound DEF RelayTypeOK
  <2>3. ProcessedIsPublished' /\ AbandonedOnlyAfterRetries'
    BY <2>1 DEF ProcessedIsPublished, AbandonedOnlyAfterRetries, Written
  <2> QED
    BY <2>2, <2>3
<1>7. CASE UNCHANGED relayVars
  BY <1>7 DEF relayVars, table, history, sessions, RelayTypeOK, ProcessedIsPublished,
              AbandonedOnlyAfterRetries, SessionsSound, Written
<1> QED
  BY <1>1, <1>2, <1>3, <1>4, <1>5, <1>6, <1>7 DEF RelayNext, Attempt

\* RelayInv holds in every state of every behaviour of the outbox.
THEOREM RelayInvariance == RelaySpec => []RelayInv
  BY InitRelayInv, StepRelayInv, PTL DEF RelaySpec

\* The types of the outbox hold; retry_count never passes max_retries, although
\* replicas write it back from copies.
THEOREM RelayTypeCorrect == RelaySpec => []RelayTypeOK
<1>1. RelayInv => RelayTypeOK
  BY DEF RelayInv
<1> QED
  BY <1>1, RelayInvariance, PTL

\* A processed row's event is in Kafka, and only committed rows get there.
THEOREM ProcessedRowsArePublished == RelaySpec => []ProcessedIsPublished
<1>1. RelayInv => ProcessedIsPublished
  BY DEF RelayInv
<1> QED
  BY <1>1, RelayInvariance, PTL

\* No row is abandoned before max_retries of its sends have failed.
THEOREM RowsAbandonedLate == RelaySpec => []AbandonedOnlyAfterRetries
<1>1. RelayInv => AbandonedOnlyAfterRetries
  BY DEF RelayInv
<1> QED
  BY <1>1, RelayInvariance, PTL


-----------------------------------------------------------------------------
(* The consume loops and the inbox.  ConsumerInv is inductive.              *)
(* NothingSkipped alone is not: a commit moves the offset to the consumer's *)
(* position, so PositionsSound must say of that position what               *)
(* NothingSkipped says of the offset; and OwnerAhead is what keeps a commit *)
(* from moving it back.                                                    *)

\* On an empty partition ConsumerInv holds.
LEMMA InitConsumerInv == Init => ConsumerInv
<1> SUFFICES ASSUME Init PROVE ConsumerInv
  OBVIOUS
<1>1. TypeOK
  BY BoundsAssumption DEF Init, TypeOK, Phases, InHandler
<1>2. InboxCountsEffects /\ NothingSkipped /\ PositionsSound /\ OwnerAhead
  BY NobodyAssumption DEF Init, InboxCountsEffects, NothingSkipped,
                          PositionsSound, OwnerAhead
<1> QED
  BY <1>1, <1>2 DEF ConsumerInv

\* Every step of Kafka, the loops and the processes preserves ConsumerInv.
LEMMA StepConsumerInv == ConsumerInv /\ [Next]_vars => ConsumerInv'
<1> SUFFICES ASSUME ConsumerInv, [Next]_vars PROVE ConsumerInv'
  OBVIOUS
<1> USE DEF ConsumerInv
<1>1. ASSUME NEW e \in Events, Publish(e) PROVE ConsumerInv'
  <2>1. /\ log' \in Seq(Events)
        /\ Len(log') = Len(log) + 1
        /\ \A i \in 1..Len(log) : log'[i] = log[i]
        /\ UNCHANGED <<offset, owner, phase, pos, at, inbox, applied,
                       retryTopic, dlq, dropped, faults>>
    BY <1>1 DEF Publish, TypeOK, service, topics
  <2>2. Len(log) \in Nat /\ Len(log) + 1 <= MaxLog
    BY <1>1, BoundsAssumption DEF Publish, TypeOK
  <2>3. TypeOK'
    BY <2>1, <2>2 DEF TypeOK
  <2>4. InboxCountsEffects' /\ OwnerAhead'
    BY <2>1 DEF InboxCountsEffects, OwnerAhead
  <2>5. NothingSkipped'
    <3> SUFFICES ASSUME NEW i \in 1..offset
                 PROVE  log'[i] \in inbox \union retryTopic \union dlq \union dropped
      BY <2>1 DEF NothingSkipped, Accounted
    <3>1. i \in 1..Len(log)
      BY <2>2 DEF TypeOK
    <3> QED
      BY <2>1, <3>1 DEF NothingSkipped, Accounted
  <2>6. PositionsSound'
    <3> SUFFICES ASSUME NEW c \in Consumers
        PROVE /\ \A i \in 1..pos[c] :
                    \/ log'[i] \in inbox \union retryTopic \union dlq \union dropped
                    \/ i = at[c] /\ phase[c] \in InHandler
              /\ phase[c] \in {"handled", "routed"} =>
                    log'[at[c]] \in inbox \union retryTopic \union dlq \union dropped
      BY <2>1 DEF PositionsSound, Accounted
    <3>1. \A i \in 1..pos[c] : log'[i] = log[i]
      <4> SUFFICES ASSUME NEW i \in 1..pos[c] PROVE log'[i] = log[i]
        OBVIOUS
      <4>1. pos[c] \in 0..Len(log)
        BY DEF TypeOK
      <4> QED
        BY <2>1, <2>2, <4>1
    <3>2. phase[c] \in {"handled", "routed"} => log'[at[c]] = log[at[c]]
      <4>1. at[c] \in 0..Len(log)
        BY DEF TypeOK
      <4>2. phase[c] \in {"handled", "routed"} => at[c] # 0
        BY DEF TypeOK
      <4> QED
        BY <2>1, <2>2, <4>1, <4>2
    <3> QED
      BY <3>1, <3>2 DEF PositionsSound, Accounted
  <2> QED
    BY <2>3, <2>4, <2>5, <2>6
<1>2. ASSUME NEW c \in Consumers, Join(c) \/ Rebalance(c) PROVE ConsumerInv'
  <2>1. /\ owner' = c
        /\ pos' = [pos EXCEPT ![c] = offset]
        /\ UNCHANGED <<log, offset, phase, at, inbox, applied,
                       retryTopic, dlq, dropped>>
        /\ faults' \in 0..MaxFaults
    BY <1>2, BoundsAssumption
    DEF Join, Rebalance, Assign, Fault, TypeOK, service, topics
  <2>2. TypeOK'
    BY <2>1 DEF TypeOK
  <2>3. InboxCountsEffects' /\ NothingSkipped'
    BY <2>1 DEF InboxCountsEffects, NothingSkipped, Accounted
  <2>4. PositionsSound'
    BY <2>1 DEF PositionsSound, NothingSkipped, Accounted, TypeOK
  <2>5. OwnerAhead'
    BY <2>1 DEF OwnerAhead, TypeOK
  <2> QED
    BY <2>2, <2>3, <2>4, <2>5
<1>3. ASSUME NEW c \in Consumers, Fetch(c) PROVE ConsumerInv'
  <2>1. /\ pos' = [pos EXCEPT ![c] = pos[c] + 1]
        /\ at' = [at EXCEPT ![c] = pos[c] + 1]
        /\ phase' = [phase EXCEPT ![c] = "called"]
        /\ UNCHANGED <<log, offset, owner, inbox, applied,
                       retryTopic, dlq, dropped, faults>>
        /\ phase[c] = "idle"
    BY <1>3 DEF Fetch, GoTo, service, topics
  <2>2. pos[c] \in 0..Len(log) /\ Len(log) \in Nat /\ pos[c] < Len(log)
    BY <1>3 DEF Fetch, TypeOK
  <2>3. TypeOK'
    BY <2>1, <2>2 DEF TypeOK, Phases, InHandler
  <2>4. InboxCountsEffects' /\ NothingSkipped'
    BY <2>1 DEF InboxCountsEffects, NothingSkipped, Accounted
  <2>5. PositionsSound'
    <3> SUFFICES ASSUME NEW d \in Consumers
        PROVE /\ \A i \in 1..pos'[d] :
                    Accounted(log[i])' \/ (i = at'[d] /\ phase'[d] \in InHandler)
              /\ phase'[d] \in {"handled", "routed"} => Accounted(log[at[d]])'
      BY DEF PositionsSound
    <3>1. CASE d # c
      BY <2>1, <3>1 DEF PositionsSound, Accounted, TypeOK
    <3>2. CASE d = c
      <4>1. /\ pos'[d] = pos[d] + 1 /\ at'[d] = pos[d] + 1
            /\ phase'[d] = "called" /\ phase[d] = "idle"
        BY <2>1, <3>2 DEF TypeOK
      <4>2. \A i \in 1..pos[d] : Accounted(log[i])'
        BY <2>1, <4>1 DEF PositionsSound, Accounted, InHandler
      <4> QED
        BY <2>2, <3>2, <4>1, <4>2 DEF InHandler
    <3> QED
      BY <3>1, <3>2
  <2>6. OwnerAhead'
    BY <2>1, <2>2 DEF OwnerAhead, TypeOK
  <2> QED
    BY <2>3, <2>4, <2>5, <2>6
<1>4. ASSUME NEW c \in Consumers, CheckInbox(c) PROVE ConsumerInv'
  <2>1. /\ phase' = [phase EXCEPT ![c] = IF log[at[c]] \in inbox
                                         THEN "handled" ELSE "working"]
        /\ UNCHANGED <<log, offset, owner, pos, at, inbox, applied,
                       retryTopic, dlq, dropped, faults>>
        /\ phase[c] = "called"
    BY <1>4 DEF CheckInbox, GoTo, Current, service, topics
  <2>2. TypeOK'
    BY <2>1 DEF TypeOK, Phases, InHandler
  <2>3. InboxCountsEffects' /\ NothingSkipped' /\ OwnerAhead'
    BY <2>1 DEF InboxCountsEffects, NothingSkipped, Accounted, OwnerAhead
  <2>4. PositionsSound'
    BY <2>1 DEF PositionsSound, Accounted, TypeOK, InHandler
  <2> QED
    BY <2>2, <2>3, <2>4
<1>5. ASSUME NEW c \in Consumers, CommitHandler(c) PROVE ConsumerInv'
  <2> DEFINE e == log[at[c]]
  <2>1. /\ e \notin inbox
        /\ inbox' = inbox \union {e}
        /\ applied' = [applied EXCEPT ![e] = @ + 1]
        /\ phase' = [phase EXCEPT ![c] = "handled"]
        /\ UNCHANGED <<log, offset, owner, pos, at,
                       retryTopic, dlq, dropped, faults>>
        /\ phase[c] = "working"
    BY <1>5 DEF CommitHandler, GoTo, Current, topics
  <2>2. e \in Events
    BY <2>1 DEF TypeOK, InHandler
  <2>3. TypeOK'
    BY <2>1, <2>2 DEF TypeOK, Phases, InHandler
  <2>4. InboxCountsEffects'
    BY <2>1, <2>2 DEF InboxCountsEffects, TypeOK
  <2>5. NothingSkipped' /\ OwnerAhead'
    BY <2>1 DEF NothingSkipped, Accounted, OwnerAhead
  <2>6. PositionsSound'
    BY <2>1 DEF PositionsSound, Accounted, TypeOK, InHandler
  <2> QED
    BY <2>3, <2>4, <2>5, <2>6
<1>6. ASSUME NEW c \in Consumers, HandlerFails(c) \/ CommitRaises(c)
      PROVE  ConsumerInv'
  <2>1. /\ phase' = [phase EXCEPT ![c] = "failed"]
        /\ UNCHANGED <<log, offset, owner, pos, at, inbox, applied,
                       retryTopic, dlq, dropped>>
        /\ faults' \in 0..MaxFaults
        /\ phase[c] \in {"called", "working", "handled"}
    BY <1>6, BoundsAssumption
    DEF HandlerFails, CommitRaises, Fault, GoTo, TypeOK, service, topics
  <2>2. TypeOK'
    BY <2>1 DEF TypeOK, Phases, InHandler
  <2>3. InboxCountsEffects' /\ NothingSkipped' /\ OwnerAhead'
    BY <2>1 DEF InboxCountsEffects, NothingSkipped, Accounted, OwnerAhead
  <2>4. PositionsSound'
    BY <2>1 DEF PositionsSound, Accounted, TypeOK, InHandler
  <2> QED
    BY <2>2, <2>3, <2>4
<1>7. ASSUME NEW c \in Consumers, RouteFailure(c) PROVE ConsumerInv'
  <2> DEFINE e == log[at[c]]
  <2>1. /\ phase' = [phase EXCEPT ![c] = "routed"]
        /\ UNCHANGED <<log, offset, owner, pos, at, inbox, applied, faults>>
        /\ retryTopic' \in {retryTopic, retryTopic \union {e}}
        /\ dlq' \in {dlq, dlq \union {e}}
        /\ dropped' \in {dropped, dropped \union {e}}
        /\ phase[c] = "failed"
    BY <1>7 DEF RouteFailure, GoTo, Current, service
  <2>2. e \in retryTopic' \union dlq' \union dropped'
    BY <1>7 DEF RouteFailure, Current
  <2>3. e \in Events
    BY <2>1 DEF TypeOK, InHandler
  <2>4. TypeOK'
    BY <2>1, <2>3 DEF TypeOK, Phases, InHandler
  <2>5. InboxCountsEffects' /\ OwnerAhead'
    BY <2>1 DEF InboxCountsEffects, OwnerAhead
  <2>6. NothingSkipped'
    BY <2>1 DEF NothingSkipped, Accounted
  <2>7. PositionsSound'
    BY <2>1, <2>2 DEF PositionsSound, Accounted, TypeOK, InHandler
  <2> QED
    BY <2>4, <2>5, <2>6, <2>7
<1>8. ASSUME NEW c \in Consumers, CommitOffset(c) PROVE ConsumerInv'
  <2>1. /\ offset' = IF owner = c THEN pos[c] ELSE offset
        /\ phase' = [phase EXCEPT ![c] = "idle"]
        /\ at' = [at EXCEPT ![c] = 0]
        /\ UNCHANGED <<log, owner, pos, inbox, applied,
                       retryTopic, dlq, dropped, faults>>
        /\ phase[c] \in {"handled", "routed"}
    BY <1>8 DEF CommitOffset, GoTo, service, topics
  <2>2. TypeOK'
    BY <2>1 DEF TypeOK, Phases, InHandler
  <2>3. InboxCountsEffects'
    BY <2>1 DEF InboxCountsEffects
  <2>4. NothingSkipped'
    BY <2>1 DEF NothingSkipped, PositionsSound, Accounted, InHandler
  <2>5. PositionsSound'
    BY <2>1 DEF PositionsSound, Accounted, TypeOK, InHandler
  <2>6. OwnerAhead'
    BY <2>1 DEF OwnerAhead, TypeOK
  <2> QED
    BY <2>2, <2>3, <2>4, <2>5, <2>6
<1>9. ASSUME NEW c \in Consumers, LoopEnds(c) \/ Crash(c) PROVE ConsumerInv'
  <2>1. /\ phase' \in {[phase EXCEPT ![c] = "stopped"], [phase EXCEPT ![c] = "down"]}
        /\ owner' = IF owner = c THEN Nobody ELSE owner
        /\ pos' = [pos EXCEPT ![c] = 0]
        /\ at' = [at EXCEPT ![c] = 0]
        /\ UNCHANGED <<log, offset, inbox, applied, retryTopic, dlq, dropped>>
        /\ faults' \in 0..MaxFaults
    BY <1>9, BoundsAssumption
    DEF LoopEnds, Crash, Leave, Fault, GoTo, TypeOK, service, topics
  <2>2. TypeOK'
    <3>1. phase' \in [Consumers -> Phases] /\ phase'[c] \in {"stopped", "down"}
      BY <2>1 DEF TypeOK, Phases
    <3>2. \A d \in Consumers : d # c => phase'[d] = phase[d] /\ at'[d] = at[d]
      BY <2>1 DEF TypeOK
    <3>3. \A d \in Consumers :
             phase'[d] \in InHandler \union {"handled", "routed"} => at'[d] # 0
      BY <3>1, <3>2 DEF TypeOK, InHandler
    <3>4. /\ pos' \in [Consumers -> 0..Len(log)]
          /\ at' \in [Consumers -> 0..Len(log)]
          /\ owner' \in Consumers \union {Nobody}
      BY <2>1 DEF TypeOK
    <3> QED
      BY <2>1, <3>1, <3>3, <3>4 DEF TypeOK
  <2>3. InboxCountsEffects' /\ NothingSkipped'
    BY <2>1 DEF InboxCountsEffects, NothingSkipped, Accounted
  <2>4. PositionsSound'
    BY <2>1 DEF PositionsSound, Accounted, TypeOK, InHandler
  <2>5. OwnerAhead'
    BY <2>1, NobodyAssumption DEF OwnerAhead, TypeOK
  <2> QED
    BY <2>2, <2>3, <2>4, <2>5
<1>10. ASSUME NEW c \in Consumers, Restart(c) PROVE ConsumerInv'
  <2>1. /\ phase' = [phase EXCEPT ![c] = "idle"]
        /\ UNCHANGED <<log, offset, owner, pos, at, inbox, applied,
                       retryTopic, dlq, dropped, faults>>
        /\ phase[c] = "down"
    BY <1>10 DEF Restart, GoTo, service, topics
  <2>2. TypeOK'
    BY <2>1 DEF TypeOK, Phases, InHandler
  <2>3. InboxCountsEffects' /\ NothingSkipped' /\ OwnerAhead'
    BY <2>1 DEF InboxCountsEffects, NothingSkipped, Accounted, OwnerAhead
  <2>4. PositionsSound'
    BY <2>1 DEF PositionsSound, Accounted, TypeOK, InHandler
  <2> QED
    BY <2>2, <2>3, <2>4
<1>11. CASE UNCHANGED vars
  BY <1>11 DEF vars, service, topics, TypeOK, InboxCountsEffects,
               NothingSkipped, PositionsSound, OwnerAhead, Accounted
<1> QED
  BY <1>1, <1>2, <1>3, <1>4, <1>5, <1>6, <1>7, <1>8, <1>9, <1>10, <1>11
  DEF Next, Step, Handle

\* ConsumerInv holds in every state of every behaviour of the consume loops.
THEOREM ConsumerInvariance == Spec => []ConsumerInv
  BY InitConsumerInv, StepConsumerInv, PTL DEF Spec

\* The types of the consume loops and the inbox hold.
THEOREM ConsumerTypeCorrect == Spec => []TypeOK
<1>1. ConsumerInv => TypeOK
  BY DEF ConsumerInv
<1> QED
  BY <1>1, ConsumerInvariance, PTL

\* No event takes effect twice, however often and on however many replicas it
\* is delivered.
THEOREM EffectsHappenOnce == Spec => []EffectOnce
<1>1. ConsumerInv => EffectOnce
  <2> SUFFICES ASSUME ConsumerInv, NEW e \in Events PROVE applied[e] <= 1
    BY DEF EffectOnce
  <2>1. applied[e] = 0 \/ applied[e] = 1
    BY DEF ConsumerInv, InboxCountsEffects
  <2> QED
    BY <2>1
<1> QED
  BY <1>1, ConsumerInvariance, PTL

\* No delivery is passed over without a trace, whatever crashes, rebalances
\* and failed commits happen.
THEOREM NoSilentLoss == Spec => []NothingSkipped
<1>1. ConsumerInv => NothingSkipped
  BY DEF ConsumerInv
<1> QED
  BY <1>1, ConsumerInvariance, PTL

\* The committed offset of the group only grows.
THEOREM OffsetsAdvance == Spec => OffsetNeverGoesBack
<1>1. ConsumerInv /\ [Next]_vars => [offset' >= offset]_vars
  <2> SUFFICES ASSUME ConsumerInv, Next PROVE offset' >= offset
    BY DEF vars
  <2>1. offset \in Nat
    BY DEF ConsumerInv, TypeOK
  <2>2. ASSUME NEW c \in Consumers, CommitOffset(c) PROVE offset' >= offset
    BY <2>1, <2>2 DEF CommitOffset, ConsumerInv, OwnerAhead
  <2>3. ASSUME offset' = offset PROVE offset' >= offset
    BY <2>1, <2>3
  <2> QED
    BY <2>2, <2>3 DEF Next, Step, Handle, Publish, Join, Rebalance, Assign,
       Fetch, CheckInbox, CommitHandler, HandlerFails, RouteFailure,
       CommitRaises, LoopEnds, Crash, Restart
<1> QED
  BY <1>1, ConsumerInvariance, PTL DEF Spec, OffsetNeverGoesBack

=============================================================================
