---------------------------- MODULE OutboxRelay ----------------------------
(***************************************************************************)
(* The transactional outbox: rows written with the business transactions of *)
(* a service, and the OutboxWorker of each of its replicas, which polls the *)
(* table and publishes the rows to Kafka.                                   *)
(*                                                                         *)
(* A worker's batch is one session: it selects the rows once, works on      *)
(* those copies and writes the changed columns back in one commit at the    *)
(* end.  The select takes no row locks and the rows have no version, so     *)
(* replicas work on the same rows at the same time.                         *)
(***************************************************************************)
EXTENDS Integers, FiniteSets

CONSTANTS
    Messages,       \* outbox rows
    Relays,         \* OutboxWorkers, one per replica
    Times,          \* created_at values
    BatchSize,      \* batch_size
    RelayRetries      \* max_retries

ASSUME TimesAssumption == Times \subseteq Nat \ {0}
ASSUME BatchSizeAssumption == BatchSize \in Nat \ {0}
ASSUME RelayRetriesAssumption == RelayRetries \in Nat \ {0}

VARIABLES
    created,    \* row -> created_at, 0 before its transaction commits
    processed,  \* rows whose processed column is true
    retries,    \* row -> retry_count
    published,  \* history: rows the broker has stored at least once
    attempts,   \* history: row -> failed sends, counted up to RelayRetries
    batch,      \* relay -> rows of its batch it has yet to send
    read,       \* relay -> row -> retry_count in the relay's copy
    sent,       \* relay -> rows its session will mark processed
    failed      \* relay -> rows whose retry_count its session will raise

table == <<created, processed, retries>>
history == <<published, attempts>>
sessions == <<batch, read, sent, failed>>
relayVars == <<table, history, sessions>>

Written == {m \in Messages : created[m] # 0}

\* The worker's WHERE clause.
Eligible == {m \in Written \ processed : retries[m] < RelayRetries}

RelayTypeOK ==
    /\ created \in [Messages -> Times \union {0}]
    /\ processed \subseteq Messages
    /\ retries \in [Messages -> 0..RelayRetries]
    /\ published \subseteq Messages
    /\ attempts \in [Messages -> 0..RelayRetries]
    /\ batch \in [Relays -> SUBSET Messages]
    /\ read \in [Relays -> [Messages -> 0..RelayRetries]]
    /\ sent \in [Relays -> SUBSET Messages]
    /\ failed \in [Relays -> SUBSET Messages]

RelayInit ==
    /\ created = [m \in Messages |-> 0]
    /\ processed = {}
    /\ retries = [m \in Messages |-> 0]
    /\ published = {}
    /\ attempts = [m \in Messages |-> 0]
    /\ batch = [r \in Relays |-> {}]
    /\ read = [r \in Relays |-> [m \in Messages |-> 0]]
    /\ sent = [r \in Relays |-> {}]
    /\ failed = [r \in Relays |-> {}]

\* A relay between its select and the end of its session.
Busy(r) == batch[r] \union sent[r] \union failed[r] # {}

-----------------------------------------------------------------------------

\* write_outbox: the row appears when the business transaction commits.  Its
\* created_at was taken before that, so rows need not appear in its order.
WriteOutbox(m, t) ==
    /\ created[m] = 0
    /\ created' = [created EXCEPT ![m] = t]
    /\ UNCHANGED <<processed, retries, history, sessions>>

\* ORDER BY created_at LIMIT batch_size; rows of one instant come in any order.
OldestOf(S, rows) ==
    /\ S \subseteq rows
    /\ Cardinality(S) = (IF Cardinality(rows) < BatchSize
                         THEN Cardinality(rows) ELSE BatchSize)
    /\ \A m \in S, k \in rows \ S : created[m] <= created[k]

\* _process_batch selects its records.  An empty result changes nothing.
SelectBatch(r) ==
    /\ ~Busy(r)
    /\ \E S \in SUBSET Eligible :
          /\ S # {}
          /\ OldestOf(S, Eligible)
          /\ batch' = [batch EXCEPT ![r] = S]
          /\ read' = [read EXCEPT ![r] =
                        [m \in Messages |-> IF m \in S THEN retries[m] ELSE 0]]
    /\ UNCHANGED <<table, history, sent, failed>>

\* The loop's next record.
NextOf(r, m) ==
    /\ m \in batch[r]
    /\ \A k \in batch[r] : created[m] <= created[k]

\* send_event returns: the broker has acknowledged the event.
Send(r, m) ==
    /\ NextOf(r, m)
    /\ published' = published \union {m}
    /\ batch' = [batch EXCEPT ![r] = @ \ {m}]
    /\ sent' = [sent EXCEPT ![r] = @ \union {m}]
    /\ UNCHANGED <<table, attempts, read, failed>>

\* One more failed send of m; the history stops counting at RelayRetries.
CountFailure(m) ==
    attempts' = [attempts EXCEPT ![m] = IF @ < RelayRetries THEN @ + 1 ELSE @]

\* Mutant: the exception is logged and retry_count stays as it is.
SendFailsUncounted(r, m) ==
    /\ NextOf(r, m)
    /\ published' \in {published, published \union {m}}
    /\ CountFailure(m)
    /\ batch' = [batch EXCEPT ![r] = @ \ {m}]
    /\ UNCHANGED <<table, read, sent, failed>>

\* send_event raises.  The broker may have stored the event all the same.
SendFails(r, m) ==
    /\ NextOf(r, m)
    /\ published' \in {published, published \union {m}}
    /\ CountFailure(m)
    /\ batch' = [batch EXCEPT ![r] = @ \ {m}]
    /\ failed' = [failed EXCEPT ![r] = @ \union {m}]
    /\ UNCHANGED <<table, read, sent>>

EndSession(r) ==
    /\ batch' = [batch EXCEPT ![r] = {}]
    /\ read' = [read EXCEPT ![r] = [m \in Messages |-> 0]]
    /\ sent' = [sent EXCEPT ![r] = {}]
    /\ failed' = [failed EXCEPT ![r] = {}]

\* Mutant: every record of the batch is marked.
CommitMarksAll(r) ==
    /\ batch[r] = {}
    /\ Busy(r)
    /\ processed' = processed \union sent[r] \union failed[r]
    /\ UNCHANGED <<created, retries>>
    /\ EndSession(r)
    /\ UNCHANGED history

\* Mutant: retry_count counts every send, the good ones too.
CommitCountsAll(r) ==
    /\ batch[r] = {}
    /\ Busy(r)
    /\ processed' = processed \union sent[r]
    /\ retries' = [m \in Messages |-> IF m \in sent[r] \union failed[r]
                                      THEN read[r][m] + 1 ELSE retries[m]]
    /\ EndSession(r)
    /\ UNCHANGED <<created, history>>

\* session.commit() writes the changed columns of the rows it has copies of;
\* retry_count is the copy's value plus one, whatever the row says by now.
Commit(r) ==
    /\ batch[r] = {}
    /\ Busy(r)
    /\ processed' = processed \union sent[r]
    /\ retries' = [m \in Messages |-> IF m \in failed[r]
                                      THEN read[r][m] + 1 ELSE retries[m]]
    /\ EndSession(r)
    /\ UNCHANGED <<created, history>>

\* The process dies, or the commit raises and _poll_loop logs it: nothing of
\* the batch is written.
Abort(r) ==
    /\ Busy(r)
    /\ EndSession(r)
    /\ UNCHANGED <<table, history>>

Attempt(r) == \E m \in Messages : Send(r, m) \/ SendFails(r, m)

RelayNext ==
    \/ \E m \in Messages, t \in Times : WriteOutbox(m, t)
    \/ \E r \in Relays : SelectBatch(r) \/ Attempt(r) \/ Commit(r) \/ Abort(r)

RelaySpec == RelayInit /\ [][RelayNext]_relayVars

\* _poll_loop runs for ever and every send returns or raises.
RelayFairness ==
    \A r \in Relays : /\ WF_relayVars(SelectBatch(r))
                      /\ WF_relayVars(Attempt(r))
                      /\ WF_relayVars(Commit(r))

\* A send that is tried over and over succeeds: no outage of Kafka is endless.
BrokerFairness == \A r \in Relays, m \in Messages : SF_relayVars(Send(r, m))

FairRelaySpec == RelaySpec /\ RelayFairness

ReachableBrokerSpec == FairRelaySpec /\ BrokerFairness

-----------------------------------------------------------------------------
(* Properties.                                                             *)

\* A row is marked processed only when the broker has stored its event, and
\* only committed rows are ever published: whatever the replicas, failed sends
\* and lost batches do, an event that never reached Kafka is never marked as
\* if it had (outbox.py, _process_batch).
ProcessedIsPublished ==
    /\ processed \subseteq published
    /\ published \subseteq Written

\* retry_count never exceeds the sends that really failed, so a row is left
\* behind by the WHERE clause only after max_retries failures, although
\* replicas overwrite each other's retry_count (outbox.py, _process_batch).
AbandonedOnlyAfterRetries ==
    \A m \in Messages : retries[m] <= attempts[m]

\* Sessions are lost only finitely often.  A commit that writes what the rows
\* already say is the same step as a lost session, and is not counted as one.
StaysUp ==
    <>[][\A r \in Relays : Abort(r) => Commit(r) \/ Attempt(r)]_relayVars

\* Every row is eventually published or given up after max_retries: a row
\* whose sends keep failing cannot hold back the rows behind it for ever
\* (outbox.py, _process_batch's limit and retry_count).
PublishedOrAbandoned ==
    StaysUp => \A m \in Messages :
                   m \in Written ~> (m \in published \/ retries[m] = RelayRetries)

\* What outbox.py promises of the worker: an event in the outbox reaches Kafka,
\* whether or not Kafka was available when it was written.
AtLeastOnceDelivery ==
    StaysUp => \A m \in Messages : m \in Written ~> m \in published

-----------------------------------------------------------------------------
(* The inductive invariant behind the two safety properties.               *)

\* What a relay's copies say about the rows.
SessionsSound ==
    \A r \in Relays :
       /\ batch[r] \union sent[r] \union failed[r] \subseteq Written
       /\ sent[r] \subseteq published
       /\ batch[r] \intersect failed[r] = {}
       /\ \A m \in batch[r] : read[r][m] <= attempts[m] /\ read[r][m] < RelayRetries
       /\ \A m \in failed[r] : read[r][m] + 1 <= attempts[m]

RelayInv ==
    /\ RelayTypeOK
    /\ ProcessedIsPublished
    /\ AbandonedOnlyAfterRetries
    /\ SessionsSound

=============================================================================
