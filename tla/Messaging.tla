------------------------------ MODULE Messaging ------------------------------
(***************************************************************************)
(* How an event travels: outbox row, publisher, topic, BaseConsumer, and,  *)
(* when its handler keeps failing, the dead-letter topic, its collector    *)
(* and the admin who replays or discards it.                               *)
(*                                                                         *)
(* One topic with one partition and one key, its DLQ, one consumer group   *)
(* on each: the service's own and the collector's, both BaseConsumer.      *)
(* Everything that may fail does so at most MaxFaults times: processes     *)
(* die, sends fail with or without reaching the broker, the group          *)
(* rebalances under a slow handler, handlers fail for a transient reason.  *)
(***************************************************************************)
EXTENDS Naturals, Sequences, FiniteSets

CONSTANTS
    NumEvents,      \* events the service enqueues
    Publishers,     \* replicas of the outbox publisher
    BatchSize,      \* settings.outbox_batch_size
    Workers,        \* replicas of the service's consumer
    Collectors,     \* replicas of dlq_consumer
    Admins,
    MaxRetries,     \* settings.consumer_max_retries of the service's consumer
    Broken,         \* events whose handler fails until the cause is fixed
    MaxFaults,      \* bound: failures of processes, broker and database
    MaxLostTasks,   \* bound: run() loops ended by an exception
    MaxGarbage,     \* bound: undeserializable messages on the topic
    MaxLetters      \* bound: no replay once there are so many dead letters

\* Events are numbered by created_at, the start of the transaction that wrote
\* the row; rows may be committed in another order.
Events == 1 .. NumEvents

ASSUME MessagingBounds ==
    /\ {NumEvents, MaxFaults, MaxLostTasks, MaxGarbage, MaxLetters} \subseteq Nat
    /\ {BatchSize, MaxRetries} \subseteq Nat \ {0}
    /\ Broken \subseteq Events

VARIABLES
    outbox,      \* state of the row of each event
    locked,      \* rows each publisher holds FOR UPDATE
    todo, sent,  \* of those, the rows it still has to send, and has sent
    log,         \* the records of the topic and of its DLQ
    committed,   \* next offset of each group, as the broker knows it
    owner,       \* the member the partition of each group is assigned to
    task,        \* the run() loop of each consumer process
    processed,   \* processed_events of each group
    effects,     \* how often the service applied each event
    letter,      \* dead_letters.status of each record of the DLQ
    desk,        \* the dead letter each admin's request works on
    replays,     \* dead letters whose event was sent again
    broken,      \* events whose handler still fails
    faults, lostTasks

outboxVars == <<outbox, locked, todo, sent>>
groupVars  == <<committed, owner, task, processed, effects>>
adminVars  == <<letter, desk, replays>>
msgVars    == <<outboxVars, log, groupVars, adminVars, broken, faults, lostTasks>>

Topic == "topic"
DLQ   == "topic.DLQ"

\* dlq_topic maps a DLQ name to itself.
dlq_topic(t) == DLQ

Service   == "service"
Collector == "dlq-collector"
Groups    == {Service, Collector}
Members   == Workers \cup Collectors

Group(m)      == IF m \in Workers THEN Service ELSE Collector
Subscribed(g) == IF g = Service THEN Topic ELSE DLQ
NoMember      == "nobody"

ASSUME MembersType == Workers \cap Collectors = {} /\ NoMember \notin Members

\* An envelope: `event' is the business event it carries or failed on, 0 when
\* the message could not be read; `uid' tells dead letters apart, which are
\* new envelopes, while a resent event keeps its event_id.
DeadLetterType(t) == IF t = Topic THEN "topic.dead_letter" ELSE "topic.DLQ.dead_letter"
Record == [type  : {"event", "garbage", DeadLetterType(Topic), DeadLetterType(DLQ)},
           event : 0 .. NumEvents, uid : Nat]
EventRecord(e) == [type |-> "event", event |-> e, uid |-> 0]
Garbage        == [type |-> "garbage", event |-> 0, uid |-> 0]

\* Mutant of Handled: the collector's handlers are named after the DLQ.
HandledByTopic(g) == IF g = Service THEN {"event"} ELSE {DeadLetterType(DLQ)}

\* DLQ_TOPICS: the collector's handlers are named after the original topic.
Handled(g)  == IF g = Service THEN {"event"} ELSE {DeadLetterType(Topic)}
Attempts(g) == IF g = Service THEN MaxRetries ELSE 1

On(t)    == {log[t][i] : i \in DOMAIN log[t]}
Fault    == faults < MaxFaults /\ faults' = faults + 1
NoFault  == UNCHANGED faults

MsgInit ==
    /\ outbox = [e \in Events |-> "none"]
    /\ locked = [p \in Publishers |-> {}]
    /\ todo = locked /\ sent = locked
    /\ log = [t \in {Topic, DLQ} |-> <<>>]
    /\ committed = [g \in Groups |-> 1]
    /\ owner = [g \in Groups |-> NoMember]
    /\ task = [m \in Members |-> [pc |-> "poll", pos |-> 1, at |-> 0, attempt |-> 0]]
    /\ processed = [g \in Groups |-> {}]
    /\ effects = [e \in Events |-> 0]
    /\ letter = <<>>
    /\ desk = [a \in Admins |-> [pc |-> "idle", letter |-> 0]]
    /\ replays = {}
    /\ broken = Broken
    /\ faults = 0 /\ lostTasks = 0

-----------------------------------------------------------------------------
(* The outbox and its publishers.                                          *)

\* enqueue_event: the row appears when the business transaction commits.
EnqueueEvent(e) ==
    /\ outbox[e] = "none"
    /\ outbox' = [outbox EXCEPT ![e] = "pending"]
    /\ UNCHANGED <<locked, todo, sent, log, groupVars, adminVars, broken, faults, lostTasks>>

LockedRows == UNION {locked[p] : p \in Publishers}

First(S) == CHOOSE e \in S : \A f \in S : e <= f

\* The first BatchSize rows of S by created_at.
Batch(S) ==
    {e \in S : Cardinality({f \in S : f < e}) < BatchSize}

\* Mutant of SelectBatch: plain FOR UPDATE, read by two publishers at a time.
SelectLockedToo(p) ==
    LET rows == {e \in Events : outbox[e] = "pending"} IN
    /\ locked[p] = {}
    /\ rows # {}
    /\ locked' = [locked EXCEPT ![p] = Batch(rows)]
    /\ todo'   = [todo EXCEPT ![p] = Batch(rows)]
    /\ UNCHANGED <<outbox, sent, log, groupVars, adminVars, broken, faults, lostTasks>>

\* SELECT ... ORDER BY created_at LIMIT n FOR UPDATE SKIP LOCKED
SelectBatch(p) ==
    LET rows == {e \in Events : outbox[e] = "pending"} \ LockedRows IN
    /\ locked[p] = {}
    /\ rows # {}
    /\ locked' = [locked EXCEPT ![p] = Batch(rows)]
    /\ todo'   = [todo EXCEPT ![p] = Batch(rows)]
    /\ UNCHANGED <<outbox, sent, log, groupVars, adminVars, broken, faults, lostTasks>>

\* One row of the batch: the send is acknowledged, or it raises, whether or
\* not the broker has the record, and the row stays for the next cycle.
PublishRow(p) ==
    LET e == First(todo[p]) IN
    /\ todo[p] # {}
    /\ todo' = [todo EXCEPT ![p] = @ \ {e}]
    /\ \/ /\ log'  = [log EXCEPT ![Topic] = Append(@, EventRecord(e))]
          /\ sent' = [sent EXCEPT ![p] = @ \cup {e}]
          /\ NoFault
       \/ /\ log' = [log EXCEPT ![Topic] = Append(@, EventRecord(e))]
          /\ Fault /\ UNCHANGED sent
       \/ Fault /\ UNCHANGED <<log, sent>>
    /\ UNCHANGED <<outbox, locked, groupVars, adminVars, broken, lostTasks>>

ForgetBatch(p) ==
    /\ locked' = [locked EXCEPT ![p] = {}]
    /\ todo'   = [todo EXCEPT ![p] = {}]
    /\ sent'   = [sent EXCEPT ![p] = {}]

\* Mutant of MarkPublished: the whole batch is marked, failed sends included.
MarkBatch(p) ==
    /\ locked[p] # {} /\ todo[p] = {}
    /\ outbox' = [e \in Events |-> IF e \in locked[p] THEN "published" ELSE outbox[e]]
    /\ ForgetBatch(p)
    /\ UNCHANGED <<log, groupVars, adminVars, broken, faults, lostTasks>>

\* UPDATE ... SET published_at, then COMMIT.
MarkPublished(p) ==
    /\ locked[p] # {} /\ todo[p] = {}
    /\ outbox' = [e \in Events |-> IF e \in sent[p] THEN "published" ELSE outbox[e]]
    /\ ForgetBatch(p)
    /\ UNCHANGED <<log, groupVars, adminVars, broken, faults, lostTasks>>

\* The publisher dies or its transaction fails: nothing it sent is marked.
PublisherDies(p) ==
    /\ locked[p] # {}
    /\ ForgetBatch(p)
    /\ Fault
    /\ UNCHANGED <<outbox, log, groupVars, adminVars, broken, lostTasks>>

Publisher(p) == SelectBatch(p) \/ PublishRow(p) \/ MarkPublished(p)

-----------------------------------------------------------------------------
(* BaseConsumer.                                                           *)

Goto(m, pc)  == task' = [task EXCEPT ![m].pc = pc]
Reading(m)   == log[Subscribed(Group(m))][task[m].at]
Alive(m)     == task[m].pc \notin {"down", "dead"}

\* A member gets the partition, because the owner is gone or because the group
\* rebalances under it; it starts at the committed offset.  What the former
\* owner has in hand it goes on handling.
Assign(m) ==
    LET g == Group(m) IN
    /\ Alive(m)
    /\ owner' = [owner EXCEPT ![g] = m]
    /\ task'  = [task EXCEPT ![m].pos = committed[g]]
    /\ \/ owner[g] = NoMember /\ NoFault
       \/ owner[g] # NoMember /\ ~Alive(owner[g]) /\ NoFault
       \/ owner[g] # NoMember /\ Alive(owner[g]) /\ Fault
    /\ UNCHANGED <<outboxVars, log, committed, processed, effects, adminVars, broken,
                   lostTasks>>

\* run: getone, then _handle_record up to the choice of a handler.
Poll(m) ==
    LET g == Group(m)
        records == log[Subscribed(g)]
        t == task[m]
        type == records[t.pos].type
    IN
    /\ t.pc = "poll"
    /\ owner[g] = m
    /\ t.pos <= Len(records)
    /\ task' = [task EXCEPT ![m] =
                   [pc      |-> CASE type = "garbage"     -> "dead-letter"
                                  [] type \in Handled(g)  -> "dispatch"
                                  [] OTHER                -> "commit",
                    pos     |-> t.pos + 1,
                    at      |-> t.pos,
                    attempt |-> 1]]
    /\ UNCHANGED <<outboxVars, log, committed, owner, processed, effects, adminVars,
                   broken, faults, lostTasks>>

\* _dispatch: already_processed, the first statement of the transaction.
CheckProcessed(m) ==
    /\ task[m].pc = "dispatch"
    /\ Goto(m, IF Reading(m) \in processed[Group(m)] THEN "commit" ELSE "handle")
    /\ UNCHANGED <<outboxVars, log, committed, owner, processed, effects, adminVars,
                   broken, faults, lostTasks>>

\* The handler's writes: the service applies the event, the collector stores
\* the dead letter.
Effect(m) ==
    IF Group(m) = Service
    THEN /\ effects' = [effects EXCEPT ![Reading(m).event] = @ + 1]
         /\ UNCHANGED letter
    ELSE /\ letter' = [letter EXCEPT ![Reading(m).uid] =
                           IF @ = "NONE" THEN "PARKED" ELSE @]
         /\ UNCHANGED effects

\* Mutant of HandleCommits: handler and mark in two transactions, and the
\* second one lost.
HandleUnmarked(m) ==
    LET g == Group(m) IN
    /\ task[m].pc = "handle"
    /\ Reading(m) \notin processed[g]
    /\ g = Service => Reading(m).event \notin broken
    /\ Effect(m)
    /\ \/ processed' = [processed EXCEPT ![g] = @ \cup {Reading(m)}]
       \/ UNCHANGED processed
    /\ Goto(m, "commit")
    /\ UNCHANGED <<outboxVars, log, committed, owner, desk, replays, broken, faults,
                   lostTasks>>

\* _dispatch: handler and mark_processed commit together.
HandleCommits(m) ==
    LET g == Group(m) IN
    /\ task[m].pc = "handle"
    /\ Reading(m) \notin processed[g]
    /\ g = Service => Reading(m).event \notin broken
    /\ processed' = [processed EXCEPT ![g] = @ \cup {Reading(m)}]
    /\ Effect(m)
    /\ Goto(m, "commit")
    /\ UNCHANGED <<outboxVars, log, committed, owner, desk, replays, broken, faults,
                   lostTasks>>

\* Mutant of HandleFails: the last failure is logged and the record passed over.
GiveUp(m) ==
    LET g == Group(m) IN
    /\ task[m].pc = "handle"
    /\ \/ g = Service /\ Reading(m).event \in broken /\ NoFault
       \/ Reading(m) \in processed[g] /\ NoFault
       \/ Fault
    /\ IF task[m].attempt < Attempts(g)
       THEN task' = [task EXCEPT ![m].pc = "dispatch", ![m].attempt = @ + 1]
       ELSE Goto(m, "commit")
    /\ UNCHANGED <<outboxVars, log, committed, owner, processed, effects, adminVars,
                   broken, lostTasks>>

\* _dispatch raises and rolls back: the handler is broken, another replica has
\* inserted the processed_events row meanwhile, or something transient failed.
HandleFails(m) ==
    LET g == Group(m) IN
    /\ task[m].pc = "handle"
    /\ \/ g = Service /\ Reading(m).event \in broken /\ NoFault
       \/ Reading(m) \in processed[g] /\ NoFault
       \/ Fault
    /\ IF task[m].attempt < Attempts(g)
       THEN task' = [task EXCEPT ![m].pc = "dispatch", ![m].attempt = @ + 1]
       ELSE Goto(m, "dead-letter")
    /\ UNCHANGED <<outboxVars, log, committed, owner, processed, effects, adminVars,
                   broken, lostTasks>>

\* _dead_letter: a new envelope, typed after the topic the record was read from.
PublishDeadLetter(m) ==
    LET t == Subscribed(Group(m)) IN
    /\ log' = [log EXCEPT ![dlq_topic(t)] =
                   Append(@, [type  |-> DeadLetterType(t),
                              event |-> Reading(m).event,
                              uid   |-> Len(log[DLQ]) + 1])]
    /\ letter' = Append(letter, "NONE")

DeadLetter(m) ==
    /\ task[m].pc = "dead-letter"
    /\ PublishDeadLetter(m)
    /\ Goto(m, "commit")
    /\ UNCHANGED <<outboxVars, committed, owner, processed, effects, desk, replays,
                   broken, faults, lostTasks>>

\* An exception leaves run: the task ends, and the process goes on waiting for
\* a signal.
LoseTask(m) ==
    /\ lostTasks < MaxLostTasks
    /\ lostTasks' = lostTasks + 1
    /\ Goto(m, "dead")

\* Mutant of DeadLetterFails: no seek, so the position stays past the record.
DeadLetterFailsNoSeek(m) ==
    /\ task[m].pc = "dead-letter"
    /\ PublishDeadLetter(m) \/ UNCHANGED <<log, letter>>
    /\ Fault
    /\ Goto(m, "poll")
    /\ UNCHANGED <<outboxVars, committed, owner, processed, effects, desk, replays,
                   broken, lostTasks>>

\* The send raises, whether or not the broker has the record: run rewinds to the
\* record; seek raises when the partition is no longer assigned, and ends run.
DeadLetterFails(m) ==
    /\ task[m].pc = "dead-letter"
    /\ PublishDeadLetter(m) \/ UNCHANGED <<log, letter>>
    /\ Fault
    /\ \/ /\ owner[Group(m)] = m
          /\ task' = [task EXCEPT ![m].pc = "poll", ![m].pos = task[m].at]
          /\ UNCHANGED lostTasks
       \/ /\ owner[Group(m)] # m
          /\ LoseTask(m)
    /\ UNCHANGED <<outboxVars, committed, owner, processed, effects, desk, replays,
                   broken>>

\* run: commit() stores the positions of the partitions assigned at that time.
CommitOffset(m) ==
    LET g == Group(m) IN
    /\ task[m].pc = "commit"
    /\ committed' = [committed EXCEPT ![g] = IF owner[g] = m THEN task[m].pos ELSE @]
    /\ Goto(m, "poll")
    /\ UNCHANGED <<outboxVars, log, owner, processed, effects, adminVars, broken,
                   faults, lostTasks>>

\* commit() raises, outside the try blocks of run.
CommitRaises(m) ==
    /\ task[m].pc = "commit"
    /\ LoseTask(m)
    /\ UNCHANGED <<outboxVars, log, committed, owner, processed, effects, adminVars,
                   broken, faults>>

\* The process is killed, or stopped: main stops the consumer and cancels the
\* task, whatever it has in hand.
Die(m) ==
    /\ task[m].pc # "down"
    /\ Fault
    /\ Goto(m, "down")
    /\ owner' = [owner EXCEPT ![Group(m)] = IF @ = m THEN NoMember ELSE @]
    /\ UNCHANGED <<outboxVars, log, committed, processed, effects, adminVars, broken,
                   lostTasks>>

\* docker compose: restart unless-stopped.
Restart(m) ==
    /\ task[m].pc = "down"
    /\ Goto(m, "poll")
    /\ UNCHANGED <<outboxVars, log, committed, owner, processed, effects, adminVars,
                   broken, faults, lostTasks>>

Run(m) == \/ Poll(m) \/ CheckProcessed(m) \/ HandleCommits(m) \/ HandleFails(m)
          \/ DeadLetter(m) \/ CommitOffset(m)

-----------------------------------------------------------------------------
(* People, and whatever else writes to the topic.                          *)

\* replay_dead_letter and discard_dead_letter load the row without a lock and
\* check that it is PARKED; what could not be read cannot be replayed.
OpenLetter(a, n, action) ==
    /\ desk[a].pc = "idle"
    /\ n \in DOMAIN letter
    /\ letter[n] = "PARKED"
    /\ action = "replay" => log[DLQ][n].event # 0 /\ Len(letter) < MaxLetters
    /\ desk' = [desk EXCEPT ![a] = [pc |-> action, letter |-> n]]
    /\ UNCHANGED <<outboxVars, log, groupVars, letter, replays, broken, faults, lostTasks>>

\* The original envelope goes back to its topic, directly.  When the send raises,
\* or the request is lost after it, the letter stays PARKED, whether or not the
\* broker has the record.
SendReplay(a) ==
    LET n == desk[a].letter
        Resend == /\ log' = [log EXCEPT ![Topic] = Append(@, EventRecord(log[DLQ][n].event))]
                  /\ replays' = replays \cup {n}
    IN
    /\ desk[a].pc = "replay"
    /\ \/ Resend /\ NoFault /\ desk' = [desk EXCEPT ![a].pc = "replayed"]
       \/ /\ Resend \/ UNCHANGED <<log, replays>>
          /\ Fault
          /\ desk' = [desk EXCEPT ![a] = [pc |-> "idle", letter |-> 0]]
    /\ UNCHANGED <<outboxVars, groupVars, letter, broken, lostTasks>>

CloseLetter(a) ==
    /\ desk[a].pc \in {"replayed", "discard"}
    /\ letter' = [letter EXCEPT ![desk[a].letter] =
                      IF desk[a].pc = "replayed" THEN "REPLAYED" ELSE "DISCARDED"]
    /\ desk' = [desk EXCEPT ![a] = [pc |-> "idle", letter |-> 0]]
    /\ UNCHANGED <<outboxVars, log, groupVars, replays, broken, faults, lostTasks>>

\* Someone deploys a fix.
FixCause ==
    /\ broken # {}
    /\ broken' = {}
    /\ UNCHANGED <<outboxVars, log, groupVars, adminVars, faults, lostTasks>>

ProduceGarbage ==
    /\ Cardinality({i \in DOMAIN log[Topic] : log[Topic][i] = Garbage}) < MaxGarbage
    /\ log' = [log EXCEPT ![Topic] = Append(@, Garbage)]
    /\ UNCHANGED <<outboxVars, groupVars, adminVars, broken, faults, lostTasks>>

People ==
    \/ \E a \in Admins, n \in DOMAIN letter, action \in {"replay", "discard"} :
           OpenLetter(a, n, action)
    \/ \E a \in Admins : SendReplay(a) \/ CloseLetter(a)
    \/ FixCause
    \/ ProduceGarbage

MsgNext ==
    \/ \E e \in Events : EnqueueEvent(e)
    \/ \E p \in Publishers : Publisher(p) \/ PublisherDies(p)
    \/ \E m \in Members : \/ Assign(m) \/ Run(m) \/ DeadLetterFails(m)
                          \/ CommitRaises(m) \/ Die(m) \/ Restart(m)
    \/ People

MsgSpec == MsgInit /\ [][MsgNext]_msgVars

\* Processes are restarted and keep running, the broker assigns an abandoned
\* partition.  Nobody has to enqueue, replay, discard or fix anything.
MsgFairSpec ==
    /\ MsgSpec
    /\ \A p \in Publishers : WF_msgVars(Publisher(p))
    /\ \A m \in Members : WF_msgVars(Run(m)) /\ WF_msgVars(Restart(m))
    /\ \A g \in Groups : WF_msgVars(\E m \in Members : Group(m) = g /\ Assign(m))

-----------------------------------------------------------------------------

MsgTypeOK ==
    /\ outbox \in [Events -> {"none", "pending", "published"}]
    /\ {locked, todo, sent} \subseteq [Publishers -> SUBSET Events]
    /\ log \in [{Topic, DLQ} -> Seq(Record)]
    /\ committed \in [Groups -> Nat \ {0}]
    /\ owner \in [Groups -> Members \cup {NoMember}]
    /\ task \in [Members -> [pc : {"poll", "dispatch", "handle", "dead-letter", "commit",
                                   "dead", "down"},
                             pos : Nat \ {0}, at : Nat, attempt : 0 .. MaxRetries]]
    /\ processed \in [Groups -> SUBSET Record]
    /\ effects \in [Events -> Nat]
    /\ letter \in Seq({"NONE", "PARKED", "REPLAYED", "DISCARDED"})
    /\ Len(letter) = Len(log[DLQ])
    /\ desk \in [Admins -> [pc : {"idle", "replay", "replayed", "discard"}, letter : Nat]]
    /\ replays \subseteq DOMAIN letter
    /\ broken \subseteq Events
    /\ faults \in 0 .. MaxFaults /\ lostTasks \in 0 .. MaxLostTasks

\* Several publishers run, but as long as nothing fails and nobody replays a
\* dead letter no row is published twice: their batches are disjoint, and a row
\* is not selected again before the batch it was sent in is marked.
PublishedOnce ==
    faults = 0 /\ replays = {} =>
        \A i, j \in DOMAIN log[Topic] :
            log[Topic][i] = log[Topic][j] /\ log[Topic][i] # Garbage => i = j

\* published_at is only set on a row the broker has acknowledged.
PublishedIsInLog ==
    \A e \in Events : outbox[e] = "published" => EventRecord(e) \in On(Topic)

\* The dead letters made of a record.
LettersOf(t, r) == {d \in On(DLQ) : d.type = DeadLetterType(t) /\ d.event = r.event}

\* Before a group's offset passes a record, the record was handled and marked,
\* had no handler, or was published to the DLQ: nothing is skipped, whoever
\* died and whoever else was handling it.
NothingSkipped ==
    \A g \in Groups :
        LET records == log[Subscribed(g)] IN
        \A i \in 1 .. committed[g] - 1 :
            \/ records[i] \in processed[g]
            \/ records[i].type \notin Handled(g) \cup {"garbage"}
            \/ LettersOf(Subscribed(g), records[i]) # {}

\* Every letter the service's consumer parked reaches the table an admin looks
\* at, unless storing it failed, in which case it is back on the DLQ as a letter
\* of the DLQ that nobody collects; or unless every collector has lost its task.
LettersCollected ==
    \A n \in 1 .. MaxLetters + MaxFaults :
        n \in DOMAIN letter /\ log[DLQ][n].type = DeadLetterType(Topic)
            ~> /\ n \in DOMAIN letter
               /\ \/ letter[n] # "NONE"
                  \/ LettersOf(DLQ, log[DLQ][n]) # {}
                  \/ \A c \in Collectors : task[c].pc = "dead"

\* What became of an event: applied, or parked among the dead letters.
Settled(e) ==
    effects[e] = 1 \/ \E d \in On(DLQ) : d.type = DeadLetterType(Topic) /\ d.event = e

\* Every event whose row was committed is in the end applied or parked, unless
\* every run() loop of the service's consumer has ended: then its process waits
\* for a signal, healthy to Docker, and the events wait with it.
EventsSettle ==
    \A e \in Events :
        outbox[e] # "none" ~> Settled(e) \/ \A w \in Workers : task[w].pc = "dead"

\* The same without that exception; no run checks it.
EverythingSettles == \A e \in Events : outbox[e] # "none" ~> Settled(e)

\* What all this amounts to for a service.
Promise == INSTANCE Delivery WITH
    enqueued <- {e \in Events : outbox[e] # "none"},
    parked   <- {d.event : d \in {r \in On(DLQ) : r.type = DeadLetterType(Topic)}} \ {0}

DelSpec == Promise!DelSpec
=============================================================================
