--------------------------- MODULE EventConsumer ---------------------------
(***************************************************************************)
(* KafkaConsumerWrapper and the transactional inbox: the consume loops of a *)
(* service's replicas, one consumer group on one partition of one topic.    *)
(*                                                                         *)
(* The partition may hold an event twice, because the outbox publishes at   *)
(* least once.  The group's coordinator gives the partition to one consumer *)
(* at a time, but a handler that is running when the partition moves on     *)
(* runs to its end: two replicas can handle the same event at once, and     *)
(* only the inbox's unique column stands between them.                      *)
(***************************************************************************)
EXTENDS Integers, Sequences

CONSTANTS
    Events,         \* event ids
    RetryCount,     \* event -> the retry_count it was published with
    Consumers,      \* the consume loops, one per replica
    MaxRetries,     \* max_retries
    MaxLog,         \* bound: deliveries appended to the partition
    MaxFaults,      \* bound: crashes, rebalances and failed commits
    Nobody          \* owner of a partition no consumer has

ASSUME RetryCountAssumption == RetryCount \in [Events -> Nat]
ASSUME MaxRetriesAssumption == MaxRetries \in Nat
ASSUME BoundsAssumption == MaxLog \in Nat /\ MaxFaults \in Nat
ASSUME NobodyAssumption == Nobody \notin Consumers

VARIABLES
    log,        \* the partition: the events in the order of their offsets
    offset,     \* the group's committed offset: deliveries committed
    owner,      \* the consumer the partition is assigned to
    phase,      \* consumer -> where its loop is
    pos,        \* consumer -> its position: deliveries fetched so far
    at,         \* consumer -> the delivery its loop works on, 0 for none
    inbox,      \* event ids in the inbox table
    applied,    \* history: event -> handler transactions committed for it
    retryTopic, \* events on <topic>-retry
    dlq,        \* events on <topic>-dlq
    dropped,    \* events both sends were refused for
    faults      \* crashes, rebalances and failed commits so far

service == <<inbox, applied>>
topics == <<retryTopic, dlq, dropped>>
vars == <<log, offset, owner, phase, pos, at, service, topics, faults>>

\* "called": the handler has been called; "working": its inbox check passed;
\* "handled": it returned; "failed": it, or the offset commit, raised;
\* "routed": _handle_failure returned; "stopped": the loop has ended in a
\* process that is still up; "down": the process is not running.
InHandler == {"called", "working", "failed"}
Phases == InHandler \union {"idle", "handled", "routed", "stopped", "down"}

TypeOK ==
    /\ log \in Seq(Events) /\ Len(log) <= MaxLog
    /\ offset \in 0..Len(log)
    /\ owner \in Consumers \union {Nobody}
    /\ phase \in [Consumers -> Phases]
    /\ pos \in [Consumers -> 0..Len(log)]
    /\ at \in [Consumers -> 0..Len(log)]
    /\ \A c \in Consumers :
          phase[c] \in InHandler \union {"handled", "routed"} => at[c] # 0
    /\ inbox \subseteq Events
    /\ applied \in [Events -> Nat]
    /\ retryTopic \subseteq Events
    /\ dlq \subseteq Events
    /\ dropped \subseteq Events
    /\ faults \in 0..MaxFaults

Init ==
    /\ log = <<>>
    /\ offset = 0
    /\ owner = Nobody
    /\ phase = [c \in Consumers |-> "idle"]
    /\ pos = [c \in Consumers |-> 0]
    /\ at = [c \in Consumers |-> 0]
    /\ inbox = {}
    /\ applied = [e \in Events |-> 0]
    /\ retryTopic = {}
    /\ dlq = {}
    /\ dropped = {}
    /\ faults = 0

GoTo(c, p) == phase' = [phase EXCEPT ![c] = p]

\* A consumer that is a member of the group.
Member(c) == phase[c] \notin {"stopped", "down"}

Fault ==
    /\ faults < MaxFaults
    /\ faults' = faults + 1

-----------------------------------------------------------------------------
(* Kafka, as the wrapper uses it.                                          *)

\* Some replica's outbox worker publishes the event, perhaps not the first time.
Publish(e) ==
    /\ Len(log) < MaxLog
    /\ log' = Append(log, e)
    /\ UNCHANGED <<offset, owner, phase, pos, at, service, topics, faults>>

\* Mutant: the new owner goes on from where it was.
AssignKeepsPosition(c) ==
    /\ Member(c)
    /\ owner' = c
    /\ UNCHANGED <<log, offset, phase, pos, at, service, topics>>

\* The coordinator gives the partition to c, which starts at the committed
\* offset (enable_auto_commit is off, auto_offset_reset is earliest).
Assign(c) ==
    /\ Member(c)
    /\ owner' = c
    /\ pos' = [pos EXCEPT ![c] = offset]
    /\ UNCHANGED <<log, offset, phase, at, service, topics>>

\* An unassigned partition gets an owner.
Join(c) ==
    /\ owner = Nobody
    /\ Assign(c)
    /\ UNCHANGED faults

\* A rebalance takes the partition from a consumer whose handler may be running.
Rebalance(c) ==
    /\ owner \notin {Nobody, c}
    /\ Assign(c)
    /\ Fault

\* A consumer that leaves the group loses the partition and its position.
Leave(c) ==
    /\ owner' = IF owner = c THEN Nobody ELSE owner
    /\ pos' = [pos EXCEPT ![c] = 0]

-----------------------------------------------------------------------------
(* consume_loop.                                                           *)

\* The next message of the iterator; the handler is called with it.
Fetch(c) ==
    /\ phase[c] = "idle"
    /\ owner = c
    /\ pos[c] < Len(log)
    /\ pos' = [pos EXCEPT ![c] = @ + 1]
    /\ at' = [at EXCEPT ![c] = pos[c] + 1]
    /\ GoTo(c, "called")
    /\ UNCHANGED <<log, offset, owner, service, topics, faults>>

Current(c) == log[at[c]]

\* inbox_already_processed: the handler returns at once, or goes on to work.
CheckInbox(c) ==
    /\ phase[c] = "called"
    /\ GoTo(c, IF Current(c) \in inbox THEN "handled" ELSE "working")
    /\ UNCHANGED <<log, offset, owner, pos, at, service, topics, faults>>

\* Mutant: the inbox's event_id column is not unique.
CommitHandlerTwice(c) ==
    /\ phase[c] = "working"
    /\ inbox' = inbox \union {Current(c)}
    /\ applied' = [applied EXCEPT ![Current(c)] = @ + 1]
    /\ GoTo(c, "handled")
    /\ UNCHANGED <<log, offset, owner, pos, at, topics, faults>>

\* The handler's transaction, with the inbox row of record_inbox in it.
CommitHandler(c) ==
    /\ phase[c] = "working"
    /\ Current(c) \notin inbox
    /\ inbox' = inbox \union {Current(c)}
    /\ applied' = [applied EXCEPT ![Current(c)] = @ + 1]
    /\ GoTo(c, "handled")
    /\ UNCHANGED <<log, offset, owner, pos, at, topics, faults>>

\* The handler raises: its own failure, or the unique column's refusal.
HandlerFails(c) ==
    /\ phase[c] \in {"called", "working"}
    /\ GoTo(c, "failed")
    /\ UNCHANGED <<log, offset, owner, pos, at, service, topics, faults>>

\* _handle_failure.  A send that raises may have reached the broker; one to the
\* retry topic that raises is followed by one to the DLQ, and if that raises
\* too the wrapper logs it and goes on.
RouteFailure(c) ==
    /\ phase[c] = "failed"
    /\ \/ /\ RetryCount[Current(c)] < MaxRetries
          /\ retryTopic' = retryTopic \union {Current(c)}
          /\ UNCHANGED <<dlq, dropped>>
       \/ /\ \/ UNCHANGED retryTopic
             \/ /\ RetryCount[Current(c)] < MaxRetries
                /\ retryTopic' = retryTopic \union {Current(c)}
          /\ \/ dlq' = dlq \union {Current(c)} /\ UNCHANGED dropped
             \/ UNCHANGED dlq /\ dropped' = dropped \union {Current(c)}
    /\ GoTo(c, "routed")
    /\ UNCHANGED <<log, offset, owner, pos, at, service, faults>>

\* Mutant: the offset is committed before the handler runs.
CommitOffsetEarly(c) ==
    /\ phase[c] \in {"called", "handled", "routed"}
    /\ offset' = IF owner = c THEN pos[c] ELSE offset
    /\ GoTo(c, IF phase[c] = "called" THEN "called" ELSE "idle")
    /\ at' = [at EXCEPT ![c] = IF phase[c] = "called" THEN @ ELSE 0]
    /\ UNCHANGED <<log, owner, pos, service, topics, faults>>

\* Mutant: there is no commit after _handle_failure.
CommitOffsetUnlessFailed(c) ==
    /\ phase[c] \in {"handled", "routed"}
    /\ offset' = IF owner = c /\ phase[c] = "handled" THEN pos[c] ELSE offset
    /\ GoTo(c, "idle")
    /\ at' = [at EXCEPT ![c] = 0]
    /\ UNCHANGED <<log, owner, pos, service, topics, faults>>

\* consumer.commit() commits the position of the partition if c still has it,
\* and nothing otherwise.
CommitOffset(c) ==
    /\ phase[c] \in {"handled", "routed"}
    /\ offset' = IF owner = c THEN pos[c] ELSE offset
    /\ GoTo(c, "idle")
    /\ at' = [at EXCEPT ![c] = 0]
    /\ UNCHANGED <<log, owner, pos, service, topics, faults>>

\* consumer.commit() raises inside the try: the message counts as failed,
\* although its handler has committed.
CommitRaises(c) ==
    /\ phase[c] = "handled"
    /\ Fault
    /\ GoTo(c, "failed")
    /\ UNCHANGED <<log, offset, owner, pos, at, service, topics>>

\* consumer.commit() raises in the except clause: the loop ends and stops the
\* consumer.  The process stays up and nothing starts the loop again.
LoopEnds(c) ==
    /\ phase[c] = "routed"
    /\ Fault
    /\ Leave(c)
    /\ GoTo(c, "stopped")
    /\ at' = [at EXCEPT ![c] = 0]
    /\ UNCHANGED <<log, offset, service, topics>>

-----------------------------------------------------------------------------

\* The process dies or is shut down, wherever its loop is.
Crash(c) ==
    /\ phase[c] # "down"
    /\ Fault
    /\ Leave(c)
    /\ GoTo(c, "down")
    /\ at' = [at EXCEPT ![c] = 0]
    /\ UNCHANGED <<log, offset, service, topics>>

\* The process is started again, and init_kafka starts its loop.
Restart(c) ==
    /\ phase[c] = "down"
    /\ GoTo(c, "idle")
    /\ UNCHANGED <<log, offset, owner, pos, at, service, topics, faults>>

\* What a running loop does next.
Handle(c) == CheckInbox(c) \/ CommitHandler(c) \/ HandlerFails(c)
Step(c) == Fetch(c) \/ Handle(c) \/ RouteFailure(c) \/ CommitOffset(c)

Next ==
    \/ \E e \in Events : Publish(e)
    \/ \E c \in Consumers :
          \/ Join(c) \/ Rebalance(c)
          \/ Step(c) \/ CommitRaises(c) \/ LoopEnds(c)
          \/ Crash(c) \/ Restart(c)

Spec == Init /\ [][Next]_vars

\* Loops run, the coordinator assigns a partition that nobody has, and the
\* orchestrator restarts processes that have died.
ConsumerFairness ==
    /\ \A c \in Consumers : WF_vars(Step(c)) /\ WF_vars(Restart(c))
    /\ WF_vars(\E c \in Consumers : Join(c))

FairSpec == Spec /\ ConsumerFairness

-----------------------------------------------------------------------------
(* Properties.                                                             *)

\* An event takes effect at most once, although it may be on the partition
\* twice, be fetched again after a crash or a failed commit, and be handled by
\* two replicas at once (inbox.py, inbox_already_processed and record_inbox).
EffectOnce == \A e \in Events : applied[e] <= 1

\* Nothing is lost silently: the effect of a delivery before the committed
\* offset is in the database, or its event is on the retry topic or the DLQ, or
\* both sends of _handle_failure were refused (events.py, consume_loop).
Accounted(e) == e \in inbox \union retryTopic \union dlq \union dropped

NothingSkipped == \A i \in 1..offset : Accounted(log[i])

\* The group's committed offset never goes back, whoever commits it after
\* however many rebalances (events.py, consume_loop).
OffsetNeverGoesBack == [][offset' >= offset]_vars

\* The partition is worked off, or else every loop has ended for ever
\* (events.py, consume_loop).
ConsumedOrStopped ==
    \A i \in 1..MaxLog :
       Len(log) >= i ~> (offset >= i \/ \A c \in Consumers : phase[c] = "stopped")

-----------------------------------------------------------------------------
(* The inductive invariant behind the safety properties.                   *)

\* A recorded event has exactly one effect.
InboxCountsEffects ==
    \A e \in Events : applied[e] = IF e \in inbox THEN 1 ELSE 0

\* Every delivery a consumer has fetched is accounted for, except the one its
\* handler may still be working on.
PositionsSound ==
    \A c \in Consumers :
       /\ \A i \in 1..pos[c] :
             Accounted(log[i]) \/ (i = at[c] /\ phase[c] \in InHandler)
       /\ phase[c] \in {"handled", "routed"} => Accounted(log[at[c]])

\* The partition's owner is never behind the committed offset.
OwnerAhead == \A c \in Consumers : owner = c => pos[c] >= offset

ConsumerInv ==
    /\ TypeOK
    /\ InboxCountsEffects
    /\ NothingSkipped
    /\ PositionsSound
    /\ OwnerAhead

=============================================================================
