--------------------------- MODULE MessagingProofs ---------------------------
(***************************************************************************)
(* For any number of publishers, consumers and faults: nothing is marked   *)
(* published that is not in the topic, no offset passes a record that was  *)
(* not handled or dead-lettered, and an event takes effect at most once.   *)
(***************************************************************************)
EXTENDS Messaging, FiniteSetTheorems, WellFoundedInduction, TLAPS

TaskType == [pc : {"poll", "dispatch", "handle", "dead-letter", "commit", "dead", "down"},
             pos : Nat \ {0}, at : Nat, attempt : 0 .. MaxRetries]

Enqueued == {e \in Events : outbox[e] # "none"}

\* The topic holds events that were enqueued, and garbage; the DLQ holds
\* letters about them, numbered as they arrived.
LogOK ==
    /\ \A i \in DOMAIN log[Topic] :
           log[Topic][i] = Garbage \/ \E e \in Enqueued : log[Topic][i] = EventRecord(e)
    /\ \A i \in DOMAIN log[DLQ] :
           /\ log[DLQ][i].uid = i
           /\ log[DLQ][i].type \in {DeadLetterType(Topic), DeadLetterType(DLQ)}
           /\ log[DLQ][i].event # 0 => log[DLQ][i].event \in Enqueued

\* The log a member reads.
Records(m) == log[Subscribed(Group(m))]

\* It has a record in hand, and has not yet done with it.
InHand(m) == task[m].pc \in {"dispatch", "handle", "dead-letter"}

TaskOK(m) ==
    /\ task[m].pos <= Len(Records(m)) + 1
    /\ InHand(m) => task[m].at \in 1 .. Len(Records(m))
    /\ task[m].pc \in {"dispatch", "handle"} => Reading(m).type \in Handled(Group(m))

\* An admin works on a letter that is there, and replays only what can be read.
DeskOK(a) ==
    /\ desk[a].pc # "idle" => desk[a].letter \in DOMAIN log[DLQ]
    /\ desk[a].pc = "replay" => log[DLQ][desk[a].letter].event # 0

OffsetsOK == \A g \in Groups : committed[g] <= Len(log[Subscribed(g)]) + 1

\* Publishers have rows to send that were enqueued.
TodoOK == \A p \in Publishers : todo[p] \subseteq Enqueued

TypeInv ==
    /\ MsgTypeOK
    /\ LogOK
    /\ TodoOK
    /\ OffsetsOK
    /\ \A m \in Members : TaskOK(m)
    /\ \A a \in Admins : DeskOK(a)

\* Records are only ever appended.
LogGrows ==
    \A t \in {Topic, DLQ} :
        /\ Len(log[t]) <= Len(log'[t])
        /\ \A i \in 1 .. Len(log[t]) : log'[t][i] = log[t][i]

-----------------------------------------------------------------------------
(* The logs *)

LEMMA LogNames ==
    /\ Topic # DLQ /\ Service # Collector /\ Groups = {Service, Collector}
    /\ DeadLetterType(Topic) = "topic.dead_letter" /\ DeadLetterType(DLQ) = "topic.DLQ.dead_letter"
    /\ Subscribed(Service) = Topic /\ Subscribed(Collector) = DLQ
  BY DEF Topic, DLQ, Service, Collector, Groups, DeadLetterType, Subscribed

LEMMA RecordsAre ==
    /\ \A e \in Events : EventRecord(e) \in Record
    /\ Garbage \in Record
    /\ \A e, f : EventRecord(e) = EventRecord(f) => e = f
    /\ \A e : EventRecord(e) # Garbage
    /\ \A e : EventRecord(e).type = "event" /\ EventRecord(e).event = e
    /\ Garbage.type = "garbage" /\ Garbage.event = 0
  <1>1. NumEvents \in Nat
    BY MessagingBounds
  <1>2. \A e : EventRecord(e).type = "event" /\ EventRecord(e).event = e
    BY DEF EventRecord
  <1>3. Garbage.type = "garbage" /\ Garbage.event = 0
    BY DEF Garbage
  <1>4. \A e \in Events : EventRecord(e) \in Record
    BY <1>1 DEF Events, EventRecord, Record
  <1>5. Garbage \in Record
    BY <1>1 DEF Garbage, Record
  <1>6. QED
    BY <1>2, <1>3, <1>4, <1>5

\* A record at the end of one log.
LEMMA LogAppends ==
    ASSUME log \in [{Topic, DLQ} -> Seq(Record)], NEW t \in {Topic, DLQ}, NEW r \in Record,
           log' = [log EXCEPT ![t] = Append(@, r)]
    PROVE  /\ log' \in [{Topic, DLQ} -> Seq(Record)]
           /\ LogGrows
           /\ Len(log'[t]) = Len(log[t]) + 1 /\ log'[t][Len(log[t]) + 1] = r
           /\ \A u \in {Topic, DLQ} \ {t} : log'[u] = log[u]
  <1> DEFINE s == log[t]
  <1>1. s \in Seq(Record)
    OBVIOUS
  <1>2. /\ Append(s, r) \in Seq(Record) /\ Len(Append(s, r)) = Len(s) + 1 /\ Len(s) \in Nat
        /\ Append(s, r)[Len(s) + 1] = r
        /\ \A i \in 1 .. Len(s) : Append(s, r)[i] = s[i]
    BY <1>1
  <1>3. log'[t] = Append(s, r) /\ \A u \in {Topic, DLQ} \ {t} : log'[u] = log[u]
    OBVIOUS
  <1>4. log' \in [{Topic, DLQ} -> Seq(Record)]
    BY <1>2
  <1>5. \A u \in {Topic, DLQ} : Len(log[u]) \in Nat
    OBVIOUS
  <1>6. LogGrows
    BY <1>2, <1>3, <1>5 DEF LogGrows
  <1>7. QED
    BY <1>2, <1>3, <1>4, <1>6

LEMMA LogStays ==
    ASSUME log \in [{Topic, DLQ} -> Seq(Record)], UNCHANGED log
    PROVE  LogGrows
  BY DEF LogGrows

\* What a member subscribed to, and what it reads.
LEMMA MemberReads ==
    ASSUME TypeInv, NEW m \in Members
    PROVE  /\ Group(m) \in Groups /\ Subscribed(Group(m)) \in {Topic, DLQ}
           /\ Records(m) \in Seq(Record) /\ Len(Records(m)) \in Nat
           /\ task[m] \in TaskType
           /\ TaskOK(m)
           /\ task[m].at \in 1 .. Len(Records(m)) => Reading(m) \in Record
           /\ InHand(m) => Reading(m) \in Record
  <1>1. Group(m) \in Groups /\ Subscribed(Group(m)) \in {Topic, DLQ}
    BY DEF Group, Groups, Subscribed
  <1>2. log \in [{Topic, DLQ} -> Seq(Record)] /\ task \in [Members -> TaskType]
    BY DEF TypeInv, MsgTypeOK, TaskType
  <1>3. Records(m) \in Seq(Record) /\ Len(Records(m)) \in Nat
    BY <1>1, <1>2 DEF Records
  <1>4. TaskOK(m)
    BY DEF TypeInv
  <1>5. \A i \in 1 .. Len(Records(m)) : Records(m)[i] \in Record
    BY <1>3
  <1>6. Reading(m) = Records(m)[task[m].at]
    BY DEF Reading, Records
  <1>7. QED
    BY <1>1, <1>2, <1>3, <1>4, <1>5, <1>6 DEF TaskOK

-----------------------------------------------------------------------------
(* TypeInv *)

\* A task that moved on has something to read if it has it in hand.
LEMMA TasksMove ==
    ASSUME TypeInv, NEW m \in Members,
           UNCHANGED <<outbox, locked, todo, sent, log, processed, effects, letter, desk, replays,
                       broken>>,
           owner' \in [Groups -> Members \cup {NoMember}],
           faults' \in 0 .. MaxFaults, lostTasks' \in 0 .. MaxLostTasks,
           task' \in [Members -> TaskType],
           \A v \in Members \ {m} : task'[v] = task[v],
           committed' \in [Groups -> Nat \ {0}], OffsetsOK', TaskOK(m)'
    PROVE  TypeInv'
  <1>1. MsgTypeOK'
    BY DEF TypeInv, MsgTypeOK, TaskType
  <1>2. LogOK'
    BY DEF TypeInv, LogOK, Enqueued
  <1>3. \A v \in Members \ {m} : TaskOK(v)'
    BY DEF TypeInv, TaskOK, InHand, Reading, Records
  <1>4. \A a \in Admins : DeskOK(a)'
    BY DEF TypeInv, DeskOK
  <1>5. TodoOK'
    BY DEF TypeInv, TodoOK, Enqueued
  <1>6. QED
    BY <1>1, <1>2, <1>3, <1>4, <1>5 DEF TypeInv

\* When a log grows, what was at an offset is still there.
LEMMA TasksStay ==
    ASSUME TypeInv, LogGrows, log' \in [{Topic, DLQ} -> Seq(Record)], NEW m \in Members,
           task'[m] = task[m]
    PROVE  TaskOK(m)'
  <1>1. /\ Subscribed(Group(m)) \in {Topic, DLQ} /\ TaskOK(m) /\ task[m] \in TaskType
        /\ Len(Records(m)) \in Nat
    BY MemberReads
  <1>2. /\ Len(Records(m)) <= Len(Records(m)')
        /\ \A i \in 1 .. Len(Records(m)) : Records(m)'[i] = Records(m)[i]
        /\ Len(Records(m)') \in Nat
    BY <1>1 DEF LogGrows, Records
  <1>3. InHand(m)' <=> InHand(m)
    BY DEF InHand
  <1>4. InHand(m) => task[m].at \in 1 .. Len(Records(m)) /\ Reading(m)' = Reading(m)
    BY <1>1, <1>2 DEF TaskOK, Reading, Records
  <1>5. task[m].pos <= Len(Records(m)') + 1
    BY <1>1, <1>2 DEF TaskOK, TaskType
  <1>6. InHand(m) => task[m].at \in 1 .. Len(Records(m)')
    BY <1>1, <1>2, <1>4 DEF TaskType
  <1>7. task[m].pc \in {"dispatch", "handle"} => Reading(m)'.type \in Handled(Group(m))
    BY <1>1, <1>4 DEF TaskOK, InHand
  <1>8. QED
    BY <1>3, <1>5, <1>6, <1>7 DEF TaskOK

\* A task that is done with its record, while a log grew.
LEMMA GrownPosition ==
    ASSUME TypeInv, LogGrows, log' \in [{Topic, DLQ} -> Seq(Record)], NEW m \in Members,
           task'[m].pos = task[m].pos \/ (task'[m].pos = task[m].at /\ InHand(m)),
           task'[m].pc \in {"poll", "commit", "dead", "down"}
    PROVE  TaskOK(m)'
  <1>1. /\ Subscribed(Group(m)) \in {Topic, DLQ} /\ TaskOK(m) /\ task[m] \in TaskType
        /\ Len(Records(m)) \in Nat
    BY MemberReads
  <1>2. Len(Records(m)) <= Len(Records(m)') /\ Len(Records(m)') \in Nat
    BY <1>1 DEF LogGrows, Records
  <1>3. task'[m].pos <= Len(Records(m)') + 1
    BY <1>1, <1>2 DEF TaskOK, TaskType
  <1>4. QED
    BY <1>3 DEF TaskOK, InHand

LEMMA OffsetsStay ==
    ASSUME TypeInv, LogGrows, log' \in [{Topic, DLQ} -> Seq(Record)], committed' = committed
    PROVE  OffsetsOK'
  <1> SUFFICES ASSUME NEW g \in Groups
               PROVE  committed[g] <= Len(log'[Subscribed(g)]) + 1
    BY DEF OffsetsOK
  <1>1. Subscribed(g) \in {Topic, DLQ}
    BY DEF Groups, Subscribed
  <1>2. /\ committed[g] \in Nat /\ committed[g] <= Len(log[Subscribed(g)]) + 1
        /\ Len(log[Subscribed(g)]) \in Nat /\ Len(log'[Subscribed(g)]) \in Nat
    BY <1>1 DEF TypeInv, MsgTypeOK, OffsetsOK
  <1>3. QED
    BY <1>1, <1>2 DEF LogGrows

LEMMA DesksStay ==
    ASSUME TypeInv, LogGrows, log' \in [{Topic, DLQ} -> Seq(Record)],
           NEW a \in Admins, desk'[a] = desk[a]
    PROVE  DeskOK(a)'
  <1>1. log[DLQ] \in Seq(Record) /\ log'[DLQ] \in Seq(Record) /\ DeskOK(a)
        /\ Len(log[DLQ]) <= Len(log'[DLQ])
        /\ \A i \in 1 .. Len(log[DLQ]) : log'[DLQ][i] = log[DLQ][i]
    BY DEF TypeInv, MsgTypeOK, LogGrows
  <1>2. DOMAIN log[DLQ] = 1 .. Len(log[DLQ]) /\ DOMAIN log'[DLQ] = 1 .. Len(log'[DLQ])
        /\ DOMAIN log[DLQ] \subseteq DOMAIN log'[DLQ]
    BY <1>1
  <1>3. QED
    BY <1>1, <1>2 DEF DeskOK

\* So a step that appends to a log has only its own log entry, task and desk to
\* account for.
LEMMA TypeInvKept ==
    ASSUME TypeInv, MsgTypeOK', LogOK', TodoOK', LogGrows, committed' = committed,
           \A m \in Members : task'[m] = task[m] \/ TaskOK(m)',
           \A a \in Admins : desk'[a] = desk[a] \/ DeskOK(a)'
    PROVE  TypeInv'
  <1>1. log' \in [{Topic, DLQ} -> Seq(Record)]
    BY DEF MsgTypeOK
  <1>2. QED
    BY <1>1, TasksStay, OffsetsStay, DesksStay DEF TypeInv

LEMMA EnqueueType ==
    ASSUME TypeInv, NEW e \in Events, EnqueueEvent(e)
    PROVE  TypeInv'
  <1>1. /\ outbox' = [outbox EXCEPT ![e] = "pending"]
        /\ UNCHANGED <<locked, todo, sent, log, committed, owner, task, processed, effects,
                       letter, desk, replays, broken, faults, lostTasks>>
    BY DEF EnqueueEvent, groupVars, adminVars
  <1>2. MsgTypeOK'
    BY <1>1 DEF TypeInv, MsgTypeOK
  <1>3. Enqueued \subseteq Enqueued'
    BY <1>1 DEF Enqueued, TypeInv, MsgTypeOK
  <1>4. LogOK'
    BY <1>1, <1>3 DEF TypeInv, LogOK
  <1>5. LogGrows
    BY <1>1, LogStays DEF TypeInv, MsgTypeOK
  <1>6. TodoOK'
    BY <1>1, <1>3 DEF TypeInv, TodoOK
  <1>7. QED
    BY <1>1, <1>2, <1>4, <1>5, <1>6, TypeInvKept

\* Steps that touch only the outbox rows a publisher has locked or marked.
LEMMA PublisherType ==
    ASSUME TypeInv, UNCHANGED <<log, groupVars, adminVars, broken, lostTasks>>,
           outbox' \in [Events -> {"none", "pending", "published"}],
           Enqueued \subseteq Enqueued',
           {locked', todo', sent'} \subseteq [Publishers -> SUBSET Events], TodoOK',
           faults' \in 0 .. MaxFaults
    PROVE  TypeInv'
  <1>1. UNCHANGED <<log, committed, owner, task, processed, effects, letter, desk, replays, broken,
                    lostTasks>>
    BY DEF groupVars, adminVars
  <1>2. MsgTypeOK'
    BY <1>1 DEF TypeInv, MsgTypeOK
  <1>3. LogOK'
    BY <1>1 DEF TypeInv, LogOK
  <1>4. LogGrows
    BY <1>1, LogStays DEF TypeInv, MsgTypeOK
  <1>5. QED
    BY <1>1, <1>2, <1>3, <1>4, TypeInvKept

LEMMA OutboxTypes ==
    ASSUME TypeInv
    PROVE  /\ outbox \in [Events -> {"none", "pending", "published"}]
           /\ locked \in [Publishers -> SUBSET Events]
           /\ todo \in [Publishers -> SUBSET Events]
           /\ sent \in [Publishers -> SUBSET Events]
           /\ faults \in 0 .. MaxFaults /\ lostTasks \in 0 .. MaxLostTasks
           /\ log \in [{Topic, DLQ} -> Seq(Record)]
  BY DEF TypeInv, MsgTypeOK

LEMMA FaultType ==
    ASSUME TypeInv, Fault
    PROVE  faults' \in 0 .. MaxFaults /\ faults' # 0
  <1>1. faults \in Nat /\ MaxFaults \in Nat
    BY MessagingBounds DEF TypeInv, MsgTypeOK
  <1>2. QED
    BY <1>1 DEF Fault

LEMMA SelectType ==
    ASSUME TypeInv, NEW p \in Publishers, SelectBatch(p)
    PROVE  TypeInv'
  <1> DEFINE rows == {e \in Events : outbox[e] = "pending"} \ LockedRows
  <1>1. /\ locked' = [locked EXCEPT ![p] = Batch(rows)]
        /\ todo' = [todo EXCEPT ![p] = Batch(rows)]
        /\ UNCHANGED <<outbox, sent, log, groupVars, adminVars, broken, faults, lostTasks>>
    BY DEF SelectBatch
  <1>2. Batch(rows) \in SUBSET Events
    BY DEF Batch
  <1>3. {locked', todo', sent'} \subseteq [Publishers -> SUBSET Events]
    BY <1>1, <1>2, OutboxTypes
  <1>4. Enqueued' = Enqueued
    BY <1>1 DEF Enqueued
  <1>5. Batch(rows) \subseteq Enqueued
    BY DEF Batch, Enqueued
  <1>6. TodoOK'
    <2> HIDE DEF rows
    <2>1. QED
      BY <1>1, <1>4, <1>5, OutboxTypes DEF TypeInv, TodoOK
  <1>7. QED
    BY <1>1, <1>3, <1>4, <1>6, OutboxTypes, PublisherType

LEMMA ForgetType ==
    ASSUME TypeInv, NEW p \in Publishers, ForgetBatch(p)
    PROVE  /\ {locked', todo', sent'} \subseteq [Publishers -> SUBSET Events]
           /\ \A q \in Publishers : todo'[q] \subseteq todo[q]
  BY OutboxTypes DEF ForgetBatch

LEMMA MarkType ==
    ASSUME TypeInv, NEW p \in Publishers, MarkPublished(p)
    PROVE  TypeInv'
  <1>1. /\ outbox' = [e \in Events |-> IF e \in sent[p] THEN "published" ELSE outbox[e]]
        /\ ForgetBatch(p)
        /\ UNCHANGED <<log, groupVars, adminVars, broken, faults, lostTasks>>
    BY DEF MarkPublished
  <1>2. outbox' \in [Events -> {"none", "pending", "published"}] /\ Enqueued \subseteq Enqueued'
    BY <1>1, OutboxTypes DEF Enqueued
  <1>3. TodoOK'
    BY <1>1, <1>2, ForgetType DEF TypeInv, TodoOK
  <1>4. QED
    BY <1>1, <1>2, <1>3, OutboxTypes, ForgetType, PublisherType

LEMMA PublisherDiesType ==
    ASSUME TypeInv, NEW p \in Publishers, PublisherDies(p)
    PROVE  TypeInv'
  <1>1. /\ ForgetBatch(p) /\ Fault
        /\ UNCHANGED <<outbox, log, groupVars, adminVars, broken, lostTasks>>
    BY DEF PublisherDies
  <1>2. Enqueued \subseteq Enqueued'
    BY <1>1 DEF Enqueued
  <1>3. TodoOK'
    BY <1>1, <1>2, ForgetType DEF TypeInv, TodoOK
  <1>4. QED
    BY <1>1, <1>2, <1>3, FaultType, OutboxTypes, ForgetType, PublisherType

\* A set of events has a first one.
LEMMA FirstIn ==
    ASSUME NEW S \in SUBSET Events, S # {}
    PROVE  First(S) \in S /\ \A f \in S : First(S) <= f
  <1> DEFINE R == StrictSubsetOrdering(Events)
             Below(e) == {f \in Events : f < e}
             B == {Below(e) : e \in S}
  <1>1. NumEvents \in Nat /\ IsFiniteSet(Events)
    BY MessagingBounds, FS_Interval DEF Events
  <1>2. IsWellFoundedOn(R, SUBSET Events)
    BY <1>1, FS_StrictSubsetOrderingWellFounded, FS_FiniteSubsetsOfFinite
  <1>3. B \subseteq SUBSET Events /\ B # {}
    OBVIOUS
  <1>4. \E x \in B : \A y \in B : <<y, x>> \notin R
    <2> HIDE DEF R, B
    <2>1. QED
      BY <1>2, <1>3, WFMin
  <1>5. PICK e \in S : \A y \in B : <<y, Below(e)>> \notin R
    BY <1>4
  <1>6. ASSUME NEW f \in S, ~(e <= f) PROVE FALSE
    <2>1. e \in Events /\ f \in Events /\ e \in Int /\ f \in Int /\ f < e
      BY <1>1, <1>5, <1>6 DEF Events
    <2>2. \A g \in Events : g \in Int
      BY <1>1 DEF Events
    <2>3. f \in Below(e) /\ f \notin Below(f)
      BY <2>1
    <2>4. Below(f) \subseteq Below(e)
      <3>1. \A x, y, z \in Int : x < y /\ y < z => x < z
        OBVIOUS
      <3>2. \A g \in Events : g < f => g < e
        BY <2>1, <2>2, <3>1
      <3>3. QED
        BY <3>2
    <2>5. <<Below(f), Below(e)>> \in R
      BY <2>3, <2>4 DEF StrictSubsetOrdering
    <2>6. Below(f) \in B
      BY <1>6
    <2>7. QED
      BY <1>5, <2>5, <2>6
  <1>7. \E x \in S : \A f \in S : x <= f
    BY <1>6
  <1>8. QED
    BY <1>7 DEF First

\* A record at the end of the topic that is about an event that was enqueued, or
\* that nobody can read.
LEMMA TopicAppends ==
    ASSUME TypeInv, NEW r, r = Garbage \/ \E e \in Enqueued : r = EventRecord(e),
           log' = [log EXCEPT ![Topic] = Append(@, r)], outbox' = outbox
    PROVE  /\ LogGrows /\ LogOK' /\ log' \in [{Topic, DLQ} -> Seq(Record)]
           /\ log'[DLQ] = log[DLQ]
           /\ On(Topic)' = On(Topic) \cup {r} /\ r \in Record
           /\ Len(log'[Topic]) = Len(log[Topic]) + 1 /\ log'[Topic][Len(log[Topic]) + 1] = r
  <1>1. r \in Record
    BY RecordsAre DEF Enqueued
  <1>2. log \in [{Topic, DLQ} -> Seq(Record)] /\ Topic # DLQ /\ Topic \in {Topic, DLQ}
    BY OutboxTypes, LogNames
  <1>3. /\ log' \in [{Topic, DLQ} -> Seq(Record)] /\ LogGrows
        /\ Len(log'[Topic]) = Len(log[Topic]) + 1 /\ log'[Topic][Len(log[Topic]) + 1] = r
        /\ log'[DLQ] = log[DLQ]
    BY <1>1, <1>2, LogAppends
  <1>4. /\ DOMAIN log[Topic] = 1 .. Len(log[Topic]) /\ DOMAIN log'[Topic] = 1 .. Len(log'[Topic])
        /\ Len(log[Topic]) \in Nat
        /\ \A i \in 1 .. Len(log[Topic]) : log'[Topic][i] = log[Topic][i]
    BY <1>2, <1>3 DEF LogGrows
  <1>5. DOMAIN log'[Topic] = (1 .. Len(log[Topic])) \cup {Len(log[Topic]) + 1}
    BY <1>3, <1>4
  <1>6. Enqueued' = Enqueued
    BY DEF Enqueued
  <1>7. LogOK'
    BY <1>3, <1>4, <1>5, <1>6 DEF TypeInv, LogOK
  <1>8. On(Topic)' = On(Topic) \cup {r}
    BY <1>3, <1>4, <1>5 DEF On
  <1>9. QED
    BY <1>1, <1>3, <1>7, <1>8

LEMMA PublishRowType ==
    ASSUME TypeInv, NEW p \in Publishers, PublishRow(p)
    PROVE  TypeInv'
  <1> DEFINE e == First(todo[p])
  <1>1. /\ todo' = [todo EXCEPT ![p] = @ \ {e}]
        /\ \/ /\ log'  = [log EXCEPT ![Topic] = Append(@, EventRecord(e))]
              /\ sent' = [sent EXCEPT ![p] = @ \cup {e}]
              /\ NoFault
           \/ /\ log' = [log EXCEPT ![Topic] = Append(@, EventRecord(e))]
              /\ Fault /\ UNCHANGED sent
           \/ Fault /\ UNCHANGED <<log, sent>>
        /\ UNCHANGED <<outbox, locked, committed, owner, task, processed, effects,
                       letter, desk, replays, broken, lostTasks>>
    BY DEF PublishRow, groupVars, adminVars
  <1>2. todo[p] \in SUBSET Events /\ todo[p] # {} /\ todo[p] \subseteq Enqueued
    BY OutboxTypes DEF PublishRow, TypeInv, TodoOK
  <1>3. e \in todo[p] /\ e \in Enqueued /\ e \in Events
    BY <1>2, FirstIn
  <1> HIDE DEF e
  <1>4. Enqueued' = Enqueued
    BY <1>1 DEF Enqueued
  <1>5. todo' \in [Publishers -> SUBSET Events] /\ sent' \in [Publishers -> SUBSET Events]
        /\ \A q \in Publishers : todo'[q] \subseteq todo[q]
    BY <1>1, <1>3, OutboxTypes
  <1>6. faults' \in 0 .. MaxFaults
    BY <1>1, FaultType, OutboxTypes DEF NoFault
  <1>7. /\ LogGrows /\ LogOK' /\ log' \in [{Topic, DLQ} -> Seq(Record)] /\ log'[DLQ] = log[DLQ]
    <2>1. CASE log' = [log EXCEPT ![Topic] = Append(@, EventRecord(e))]
      BY <1>1, <1>3, <2>1, TopicAppends
    <2>2. CASE UNCHANGED log
      BY <1>4, <2>2, OutboxTypes, LogStays DEF TypeInv, LogOK
    <2>3. QED
      BY <1>1, <2>1, <2>2
  <1>8. TodoOK'
    BY <1>4, <1>5 DEF TypeInv, TodoOK
  <1>9. MsgTypeOK'
    BY <1>1, <1>5, <1>6, <1>7 DEF TypeInv, MsgTypeOK
  <1>10. QED
    BY <1>1, <1>7, <1>8, <1>9, TypeInvKept

\* What the steps of a consumer leave alone.
LEMMA GroupTypes ==
    ASSUME TypeInv
    PROVE  /\ committed \in [Groups -> Nat \ {0}] /\ OffsetsOK
           /\ owner \in [Groups -> Members \cup {NoMember}]
           /\ task \in [Members -> TaskType]
           /\ processed \in [Groups -> SUBSET Record]
           /\ effects \in [Events -> Nat]
           /\ letter \in Seq({"NONE", "PARKED", "REPLAYED", "DISCARDED"})
           /\ Len(letter) = Len(log[DLQ])
           /\ MaxRetries \in Nat \ {0}
  BY MessagingBounds DEF TypeInv, MsgTypeOK, TaskType

LEMMA GotoType ==
    ASSUME TypeInv, NEW m \in Members,
           NEW pc \in {"poll", "dispatch", "handle", "dead-letter", "commit", "dead", "down"},
           Goto(m, pc)
    PROVE  /\ task' \in [Members -> TaskType]
           /\ \A v \in Members \ {m} : task'[v] = task[v]
           /\ task'[m].pc = pc /\ task'[m].pos = task[m].pos /\ task'[m].at = task[m].at
           /\ task'[m].attempt = task[m].attempt
  BY GroupTypes DEF Goto, TaskType

LEMMA AssignMoves ==
    ASSUME TypeInv, NEW m \in Members, Assign(m)
    PROVE  /\ task' \in [Members -> TaskType]
           /\ \A v \in Members \ {m} : task'[v] = task[v]
           /\ task'[m].pos = committed[Group(m)] /\ task'[m].pc = task[m].pc /\ task'[m].at = task[m].at
           /\ owner' = [owner EXCEPT ![Group(m)] = m]
           /\ committed[Group(m)] \in Nat \ {0} /\ committed[Group(m)] <= Len(Records(m)) + 1
  <1> DEFINE c == committed[Group(m)]
  <1>1. owner' = [owner EXCEPT ![Group(m)] = m] /\ task' = [task EXCEPT ![m].pos = c]
    BY DEF Assign
  <1>2. c \in Nat \ {0} /\ c <= Len(Records(m)) + 1
    BY GroupTypes, MemberReads DEF OffsetsOK, Records
  <1> HIDE DEF c
  <1>3. /\ task' \in [Members -> TaskType]
        /\ \A v \in Members \ {m} : task'[v] = task[v]
        /\ task'[m].pos = c /\ task'[m].pc = task[m].pc /\ task'[m].at = task[m].at
    BY <1>1, <1>2, GroupTypes DEF TaskType
  <1>4. QED
    BY <1>1, <1>2, <1>3 DEF c

LEMMA AssignType ==
    ASSUME TypeInv, NEW m \in Members, Assign(m)
    PROVE  TypeInv'
  <1>1. /\ NoFault \/ Fault
        /\ UNCHANGED <<outbox, locked, todo, sent, log, committed, processed, effects, letter, desk,
                       replays, broken, lostTasks>>
    BY DEF Assign, outboxVars, adminVars
  <1>2. Group(m) \in Groups /\ TaskOK(m)
    BY MemberReads
  <1>3. owner' \in [Groups -> Members \cup {NoMember}] /\ OffsetsOK'
    BY <1>1, <1>2, AssignMoves, GroupTypes DEF OffsetsOK
  <1>4. faults' \in 0 .. MaxFaults /\ lostTasks' \in 0 .. MaxLostTasks
    BY <1>1, FaultType, OutboxTypes DEF NoFault
  <1>5. TaskOK(m)'
    BY <1>1, <1>2, AssignMoves DEF TaskOK, InHand, Records, Reading
  <1>6. QED
    BY <1>1, <1>3, <1>4, <1>5, AssignMoves, GroupTypes, TasksMove

LEMMA PollType ==
    ASSUME TypeInv, NEW m \in Members, Poll(m)
    PROVE  TypeInv'
  <1> DEFINE g == Group(m)
             t == task[m]
             type == Records(m)[t.pos].type
             pc == CASE type = "garbage"    -> "dead-letter"
                     [] type \in Handled(g) -> "dispatch"
                     [] OTHER               -> "commit"
             u == [pc |-> pc, pos |-> t.pos + 1, at |-> t.pos, attempt |-> 1]
  <1>1. /\ t.pc = "poll" /\ owner[g] = m /\ t.pos <= Len(Records(m))
        /\ task' = [task EXCEPT ![m] = u]
        /\ UNCHANGED <<outbox, locked, todo, sent, log, committed, owner, processed, effects, letter,
                       desk, replays, broken, faults, lostTasks>>
    BY DEF Poll, Records, outboxVars, adminVars
  <1>2. t.pos \in Nat \ {0} /\ Len(Records(m)) \in Nat
    BY MemberReads DEF TaskType
  <1>3. /\ pc \in {"dead-letter", "dispatch", "commit"}
        /\ pc = "dispatch" => type \in Handled(g)
    OBVIOUS
  <1>4. /\ u \in TaskType
        /\ u.pc = pc /\ u.pos = t.pos + 1 /\ u.at = t.pos
    <2> HIDE DEF pc, t
    <2>1. QED
      BY <1>2, <1>3, GroupTypes DEF TaskType
  <1> HIDE DEF u
  <1>5. /\ task' \in [Members -> TaskType] /\ task'[m] = u
        /\ \A v \in Members \ {m} : task'[v] = task[v]
    BY <1>1, <1>4, GroupTypes
  <1>6. Records(m)' = Records(m)
    BY <1>1 DEF Records
  <1>7. u.pc = "dispatch" => Reading(m)'.type \in Handled(g)
    <2>1. Reading(m)' = Records(m)[t.pos]
      BY <1>1, <1>4, <1>5 DEF Reading, Records
    <2>2. QED
      BY <1>3, <1>4, <2>1
  <1>8. TaskOK(m)'
    <2> HIDE DEF pc, t
    <2>1. u.pc # "handle" /\ t.pos \in 1 .. Len(Records(m)) /\ t.pos + 1 <= Len(Records(m)) + 1
      BY <1>1, <1>2, <1>3, <1>4
    <2>2. QED
      BY <1>4, <1>5, <1>6, <1>7, <2>1 DEF TaskOK
  <1> HIDE DEF pc, t
  <1>9. OffsetsOK'
    BY <1>1, GroupTypes DEF OffsetsOK
  <1>10. QED
    BY <1>1, <1>5, <1>8, <1>9, GroupTypes, OutboxTypes, TasksMove

\* A member that goes on with the record it has in hand, or is done with it.
LEMMA GoesOn ==
    ASSUME TypeInv, NEW m \in Members,
           UNCHANGED <<outbox, locked, todo, sent, log, processed, effects, letter, desk, replays,
                       broken, committed>>,
           owner' \in [Groups -> Members \cup {NoMember}],
           faults' \in 0 .. MaxFaults, lostTasks' \in 0 .. MaxLostTasks,
           task' \in [Members -> TaskType],
           \A v \in Members \ {m} : task'[v] = task[v],
           task'[m].pos = task[m].pos, task'[m].at = task[m].at,
           InHand(m)' => InHand(m),
           task'[m].pc \in {"dispatch", "handle"} => task[m].pc \in {"dispatch", "handle"}
    PROVE  TypeInv'
  <1>1. TaskOK(m)'
    BY MemberReads DEF TaskOK, Records, Reading
  <1>2. OffsetsOK'
    BY GroupTypes DEF OffsetsOK
  <1>3. QED
    BY <1>1, <1>2, GroupTypes, TasksMove

LEMMA CheckType ==
    ASSUME TypeInv, NEW m \in Members, CheckProcessed(m)
    PROVE  TypeInv'
  <1> DEFINE pc == IF Reading(m) \in processed[Group(m)] THEN "commit" ELSE "handle"
  <1>1. /\ task[m].pc = "dispatch" /\ Goto(m, pc)
        /\ UNCHANGED <<outbox, locked, todo, sent, log, committed, owner, processed, effects, letter,
                       desk, replays, broken, faults, lostTasks>>
    BY DEF CheckProcessed, outboxVars, adminVars
  <1>2. pc \in {"commit", "handle"}
    OBVIOUS
  <1> HIDE DEF pc
  <1>3. /\ task' \in [Members -> TaskType]
        /\ \A v \in Members \ {m} : task'[v] = task[v]
        /\ task'[m].pc = pc /\ task'[m].pos = task[m].pos /\ task'[m].at = task[m].at
    BY <1>1, <1>2, GotoType
  <1>4. InHand(m)
    BY <1>1 DEF InHand
  <1>5. QED
    BY <1>1, <1>3, <1>4, GroupTypes, OutboxTypes, GoesOn

LEMMA HandleFailsMoves ==
    ASSUME TypeInv, NEW m \in Members, HandleFails(m)
    PROVE  /\ task' \in [Members -> TaskType]
           /\ \A v \in Members \ {m} : task'[v] = task[v]
           /\ task'[m].pc \in {"dispatch", "dead-letter"}
           /\ task'[m].pos = task[m].pos /\ task'[m].at = task[m].at
           /\ task[m].pc = "handle" /\ InHand(m) /\ InHand(m)'
  <1>1. /\ task[m].pc = "handle"
        /\ IF task[m].attempt < Attempts(Group(m))
           THEN task' = [task EXCEPT ![m].pc = "dispatch", ![m].attempt = @ + 1]
           ELSE Goto(m, "dead-letter")
    BY DEF HandleFails
  <1>2. CASE task[m].attempt < Attempts(Group(m))
    <2>1. Attempts(Group(m)) \in Nat /\ Attempts(Group(m)) <= MaxRetries
      BY GroupTypes DEF Attempts
    <2>2. task[m].attempt + 1 \in 0 .. MaxRetries
      BY <1>2, <2>1, GroupTypes DEF TaskType
    <2>3. /\ task' \in [Members -> TaskType]
          /\ \A v \in Members \ {m} : task'[v] = task[v]
          /\ task'[m].pc = "dispatch" /\ task'[m].pos = task[m].pos /\ task'[m].at = task[m].at
      BY <1>1, <1>2, <2>2, GroupTypes DEF TaskType
    <2>4. QED
      BY <1>1, <2>3 DEF InHand
  <1>3. CASE ~(task[m].attempt < Attempts(Group(m)))
    BY <1>1, <1>3, GotoType DEF InHand
  <1>4. QED
    BY <1>2, <1>3

LEMMA HandleFailsType ==
    ASSUME TypeInv, NEW m \in Members, HandleFails(m)
    PROVE  TypeInv'
  <1>1. /\ NoFault \/ Fault
        /\ UNCHANGED <<outbox, locked, todo, sent, log, committed, owner, processed, effects, letter,
                       desk, replays, broken, lostTasks>>
    BY DEF HandleFails, outboxVars, adminVars
  <1>2. faults' \in 0 .. MaxFaults /\ lostTasks' \in 0 .. MaxLostTasks
    BY <1>1, FaultType, OutboxTypes DEF NoFault
  <1>3. QED
    BY <1>1, <1>2, HandleFailsMoves, GroupTypes, GoesOn

LEMMA CommitOffsetType ==
    ASSUME TypeInv, NEW m \in Members, CommitOffset(m)
    PROVE  TypeInv'
  <1> DEFINE g == Group(m)
  <1>1. /\ committed' = [committed EXCEPT ![g] = IF owner[g] = m THEN task[m].pos ELSE @]
        /\ Goto(m, "poll")
        /\ UNCHANGED <<outbox, locked, todo, sent, log, owner, processed, effects, letter,
                       desk, replays, broken, faults, lostTasks>>
    BY DEF CommitOffset, outboxVars, adminVars
  <1>2. /\ task' \in [Members -> TaskType]
        /\ \A v \in Members \ {m} : task'[v] = task[v]
        /\ task'[m].pc = "poll" /\ task'[m].pos = task[m].pos /\ task'[m].at = task[m].at
    BY <1>1, GotoType
  <1>3. g \in Groups /\ TaskOK(m) /\ task[m].pos \in Nat \ {0}
    BY MemberReads DEF TaskType
  <1>4. committed' \in [Groups -> Nat \ {0}] /\ OffsetsOK'
    <2>1. task[m].pos <= Len(log[Subscribed(g)]) + 1
      BY <1>3 DEF TaskOK, Records
    <2> HIDE DEF g
    <2>2. QED
      BY <1>1, <1>3, <2>1, GroupTypes DEF OffsetsOK
  <1>5. TaskOK(m)'
    BY <1>1, <1>2, <1>3 DEF TaskOK, InHand, Records, Reading
  <1>6. QED
    BY <1>1, <1>2, <1>4, <1>5, GroupTypes, OutboxTypes, TasksMove

LEMMA LoseTaskType ==
    ASSUME TypeInv, NEW m \in Members, LoseTask(m)
    PROVE  /\ task' \in [Members -> TaskType]
           /\ \A v \in Members \ {m} : task'[v] = task[v]
           /\ task'[m].pc = "dead" /\ task'[m].pos = task[m].pos /\ task'[m].at = task[m].at
           /\ lostTasks' \in 0 .. MaxLostTasks
  <1>1. MaxLostTasks \in Nat /\ lostTasks \in 0 .. MaxLostTasks
    BY MessagingBounds, OutboxTypes
  <1>2. lostTasks' \in 0 .. MaxLostTasks
    BY <1>1 DEF LoseTask
  <1>3. QED
    BY <1>2, GotoType DEF LoseTask

LEMMA CommitRaisesType ==
    ASSUME TypeInv, NEW m \in Members, CommitRaises(m)
    PROVE  TypeInv'
  <1>1. /\ LoseTask(m)
        /\ UNCHANGED <<outbox, locked, todo, sent, log, committed, owner, processed, effects, letter,
                       desk, replays, broken, faults>>
    BY DEF CommitRaises, outboxVars, adminVars
  <1>2. /\ task' \in [Members -> TaskType]
        /\ \A v \in Members \ {m} : task'[v] = task[v]
        /\ task'[m].pc = "dead" /\ task'[m].pos = task[m].pos /\ task'[m].at = task[m].at
        /\ lostTasks' \in 0 .. MaxLostTasks
    BY <1>1, LoseTaskType
  <1>3. ~InHand(m)'
    BY <1>2 DEF InHand
  <1>4. QED
    BY <1>1, <1>2, <1>3, GroupTypes, OutboxTypes, GoesOn

LEMMA DieType ==
    ASSUME TypeInv, NEW m \in Members, Die(m)
    PROVE  TypeInv'
  <1>1. /\ Fault /\ Goto(m, "down")
        /\ owner' = [owner EXCEPT ![Group(m)] = IF @ = m THEN NoMember ELSE @]
        /\ UNCHANGED <<outbox, locked, todo, sent, log, committed, processed, effects, letter,
                       desk, replays, broken, lostTasks>>
    BY DEF Die, outboxVars, adminVars
  <1>2. /\ task' \in [Members -> TaskType]
        /\ \A v \in Members \ {m} : task'[v] = task[v]
        /\ task'[m].pc = "down" /\ task'[m].pos = task[m].pos /\ task'[m].at = task[m].at
    BY <1>1, GotoType
  <1>3. ~InHand(m)'
    BY <1>2 DEF InHand
  <1>4. owner' \in [Groups -> Members \cup {NoMember}]
    BY <1>1, GroupTypes
  <1>5. QED
    BY <1>1, <1>2, <1>3, <1>4, FaultType, OutboxTypes, GoesOn

LEMMA RestartType ==
    ASSUME TypeInv, NEW m \in Members, Restart(m)
    PROVE  TypeInv'
  <1>1. /\ Goto(m, "poll")
        /\ UNCHANGED <<outbox, locked, todo, sent, log, committed, owner, processed, effects, letter,
                       desk, replays, broken, faults, lostTasks>>
    BY DEF Restart, outboxVars, adminVars
  <1>2. /\ task' \in [Members -> TaskType]
        /\ \A v \in Members \ {m} : task'[v] = task[v]
        /\ task'[m].pc = "poll" /\ task'[m].pos = task[m].pos /\ task'[m].at = task[m].at
    BY <1>1, GotoType
  <1>3. ~InHand(m)'
    BY <1>2 DEF InHand
  <1>4. QED
    BY <1>1, <1>2, <1>3, GroupTypes, OutboxTypes, GoesOn

\* What a handler of each group is given.
LEMMA HandledRecord ==
    ASSUME TypeInv, NEW m \in Members, task[m].pc \in {"dispatch", "handle"}
    PROVE  /\ Group(m) = Service => \E e \in Enqueued : Reading(m) = EventRecord(e)
           /\ Group(m) # Service => /\ Reading(m).uid \in DOMAIN letter
                                    /\ Reading(m).uid = task[m].at
  <1>1. /\ task[m].at \in 1 .. Len(Records(m)) /\ Reading(m).type \in Handled(Group(m))
        /\ Group(m) \in Groups /\ Records(m) \in Seq(Record)
    BY MemberReads DEF TaskOK, InHand
  <1>2. Reading(m) = Records(m)[task[m].at] /\ task[m].at \in DOMAIN Records(m)
    BY <1>1 DEF Reading, Records
  <1>3. ASSUME Group(m) = Service PROVE \E e \in Enqueued : Reading(m) = EventRecord(e)
    <2>1. Records(m) = log[Topic] /\ Reading(m).type = "event"
      BY <1>1, <1>3, LogNames DEF Records, Handled
    <2>2. Reading(m) = Garbage \/ \E e \in Enqueued : Reading(m) = EventRecord(e)
      BY <1>2, <2>1 DEF TypeInv, LogOK
    <2>3. QED
      BY <2>1, <2>2, RecordsAre
  <1>4. ASSUME Group(m) # Service
        PROVE  Reading(m).uid \in DOMAIN letter /\ Reading(m).uid = task[m].at
    <2>1. Records(m) = log[DLQ]
      BY <1>1, <1>4, LogNames DEF Records
    <2>2. Reading(m).uid = task[m].at
      BY <1>2, <2>1 DEF TypeInv, LogOK
    <2>3. DOMAIN letter = 1 .. Len(letter)
      BY GroupTypes
    <2>4. QED
      BY <1>1, <2>1, <2>2, <2>3, GroupTypes
  <1>5. QED
    BY <1>3, <1>4

LetterStatus == {"NONE", "PARKED", "REPLAYED", "DISCARDED"}

LEMMA LetterSet ==
    ASSUME letter \in Seq(LetterStatus), NEW n \in DOMAIN letter, NEW v \in LetterStatus,
           letter' = [letter EXCEPT ![n] = v]
    PROVE  /\ letter' \in Seq(LetterStatus) /\ Len(letter') = Len(letter)
           /\ DOMAIN letter' = DOMAIN letter
  <1>1. DOMAIN letter = 1 .. Len(letter) /\ Len(letter) \in Nat
        /\ letter \in [1 .. Len(letter) -> LetterStatus]
    OBVIOUS
  <1>2. letter' \in [1 .. Len(letter) -> LetterStatus]
    BY <1>1
  <1>3. QED
    BY <1>1, <1>2

LEMMA HandleCommitsType ==
    ASSUME TypeInv, NEW m \in Members, HandleCommits(m)
    PROVE  TypeInv'
  <1> DEFINE g == Group(m)
  <1>1. /\ task[m].pc = "handle"
        /\ processed' = [processed EXCEPT ![g] = @ \cup {Reading(m)}]
        /\ Effect(m)
        /\ Goto(m, "commit")
        /\ UNCHANGED <<outbox, locked, todo, sent, log, committed, owner, desk, replays, broken, faults,
                       lostTasks>>
    BY DEF HandleCommits, outboxVars
  <1>2. /\ task' \in [Members -> TaskType]
        /\ \A v \in Members \ {m} : task'[v] = task[v]
        /\ task'[m].pc = "commit" /\ task'[m].pos = task[m].pos /\ task'[m].at = task[m].at
    BY <1>1, GotoType
  <1>3. g \in Groups /\ Reading(m) \in Record
    BY <1>1, MemberReads DEF InHand
  <1>4. processed' \in [Groups -> SUBSET Record]
    BY <1>1, <1>3, GroupTypes
  <1>5. effects' \in [Events -> Nat] /\ letter' \in Seq({"NONE", "PARKED", "REPLAYED", "DISCARDED"})
        /\ Len(letter') = Len(letter) /\ DOMAIN letter' = DOMAIN letter
    <2>1. CASE g = Service
      <3>1. effects' = [effects EXCEPT ![Reading(m).event] = @ + 1] /\ letter' = letter
        BY <1>1, <2>1 DEF Effect
      <3>2. Reading(m).event \in Events
        BY <1>1, <2>1, HandledRecord, RecordsAre DEF Enqueued
      <3>3. effects' \in [Events -> Nat]
        BY <3>1, <3>2, GroupTypes
      <3>4. QED
        BY <3>1, <3>3, GroupTypes
    <2>2. CASE g # Service
      <3>1. letter' = [letter EXCEPT ![Reading(m).uid] = IF @ = "NONE" THEN "PARKED" ELSE @]
            /\ effects' = effects
        BY <1>1, <2>2 DEF Effect
      <3>2. Reading(m).uid \in DOMAIN letter
        BY <1>1, <2>2, HandledRecord
      <3> DEFINE v == IF letter[Reading(m).uid] = "NONE" THEN "PARKED" ELSE letter[Reading(m).uid]
      <3>3. letter \in Seq(LetterStatus)
        BY GroupTypes DEF LetterStatus
      <3>4. v \in LetterStatus
        BY <3>2, <3>3 DEF LetterStatus
      <3>5. letter' = [letter EXCEPT ![Reading(m).uid] = v]
        BY <3>1
      <3> HIDE DEF v
      <3>6. letter' \in Seq(LetterStatus) /\ Len(letter') = Len(letter)
            /\ DOMAIN letter' = DOMAIN letter
        BY <3>2, <3>3, <3>4, <3>5, LetterSet
      <3>7. QED
        BY <3>1, <3>6, GroupTypes DEF LetterStatus
    <2>3. QED
      BY <2>1, <2>2
  <1>6. MsgTypeOK'
    BY <1>1, <1>2, <1>4, <1>5 DEF TypeInv, MsgTypeOK, TaskType
  <1>7. LogOK' /\ TodoOK' /\ LogGrows
    BY <1>1, LogStays DEF TypeInv, LogOK, TodoOK, Enqueued, MsgTypeOK
  <1>8. TaskOK(m)'
    BY <1>1, <1>2, MemberReads DEF TaskOK, InHand, Records, Reading
  <1>9. QED
    BY <1>1, <1>2, <1>6, <1>7, <1>8, TypeInvKept

\* What a task has in hand is garbage, an event that was enqueued, or a letter
\* about one.
LEMMA ReadingIs ==
    ASSUME TypeInv, NEW m \in Members, InHand(m)
    PROVE  /\ Reading(m) \in Record /\ Reading(m) \in On(Subscribed(Group(m)))
           /\ Reading(m).event = 0 \/ Reading(m).event \in Enqueued
  <1>1. /\ task[m].at \in 1 .. Len(Records(m)) /\ Reading(m) \in Record
        /\ Group(m) \in Groups /\ Records(m) \in Seq(Record)
        /\ Subscribed(Group(m)) \in {Topic, DLQ}
    BY MemberReads DEF TaskOK
  <1>2. Reading(m) = Records(m)[task[m].at] /\ task[m].at \in DOMAIN Records(m)
    BY <1>1 DEF Reading, Records
  <1>3. CASE Subscribed(Group(m)) = Topic
    <2>1. Reading(m) = Garbage \/ \E e \in Enqueued : Reading(m) = EventRecord(e)
      BY <1>2, <1>3 DEF Records, TypeInv, LogOK
    <2>2. QED
      BY <1>1, <1>2, <2>1, RecordsAre DEF On, Records
  <1>4. CASE Subscribed(Group(m)) = DLQ
    BY <1>1, <1>2, <1>4 DEF Records, TypeInv, LogOK, On
  <1>5. QED
    BY <1>1, <1>3, <1>4

\* The letter a member makes of the record it has in hand.
LetterOf(m) == [type  |-> DeadLetterType(Subscribed(Group(m))),
                event |-> Reading(m).event,
                uid   |-> Len(log[DLQ]) + 1]

LEMMA LettersAppend ==
    ASSUME TypeInv, NEW m \in Members, InHand(m), PublishDeadLetter(m), outbox' = outbox
    PROVE  /\ LogGrows /\ LogOK' /\ log' \in [{Topic, DLQ} -> Seq(Record)]
           /\ log'[Topic] = log[Topic]
           /\ On(DLQ)' = On(DLQ) \cup {LetterOf(m)}
           /\ LetterOf(m).type = DeadLetterType(Subscribed(Group(m)))
           /\ LetterOf(m).event = Reading(m).event
           /\ letter' \in Seq(LetterStatus) /\ Len(letter') = Len(log'[DLQ])
           /\ DOMAIN letter \subseteq DOMAIN letter'
  <1> DEFINE r == LetterOf(m)
             n == Len(log[DLQ])
  <1>1. log' = [log EXCEPT ![DLQ] = Append(@, r)] /\ letter' = Append(letter, "NONE")
    BY DEF PublishDeadLetter, LetterOf, dlq_topic
  <1>2. log \in [{Topic, DLQ} -> Seq(Record)] /\ Topic # DLQ /\ DLQ \in {Topic, DLQ} /\ n \in Nat
    BY OutboxTypes, LogNames
  <1>3. /\ r.type = DeadLetterType(Subscribed(Group(m))) /\ r.event = Reading(m).event
        /\ r.uid = n + 1
    BY DEF LetterOf
  <1>4. DeadLetterType(Subscribed(Group(m))) \in {DeadLetterType(Topic), DeadLetterType(DLQ)}
    BY MemberReads
  <1>5. r \in Record
    BY <1>2, <1>4, ReadingIs DEF LetterOf, Record
  <1> HIDE DEF r
  <1>6. /\ log' \in [{Topic, DLQ} -> Seq(Record)] /\ LogGrows
        /\ Len(log'[DLQ]) = n + 1 /\ log'[DLQ][n + 1] = r
        /\ log'[Topic] = log[Topic]
    BY <1>1, <1>2, <1>5, LogAppends
  <1>7. /\ DOMAIN log[DLQ] = 1 .. n /\ DOMAIN log'[DLQ] = 1 .. Len(log'[DLQ])
        /\ \A i \in 1 .. n : log'[DLQ][i] = log[DLQ][i]
    BY <1>2, <1>6 DEF LogGrows
  <1>8. DOMAIN log'[DLQ] = (1 .. n) \cup {n + 1}
    BY <1>2, <1>6, <1>7
  <1>9. Enqueued' = Enqueued
    BY DEF Enqueued
  <1>10. r.event # 0 => r.event \in Enqueued
    BY <1>3, ReadingIs
  <1>11. LogOK'
    BY <1>3, <1>4, <1>6, <1>7, <1>8, <1>9, <1>10 DEF TypeInv, LogOK
  <1>12. On(DLQ)' = On(DLQ) \cup {r}
    BY <1>6, <1>7, <1>8 DEF On
  <1>13. letter \in Seq(LetterStatus) /\ Len(letter) = n
    BY GroupTypes DEF LetterStatus
  <1>14. letter' \in Seq(LetterStatus) /\ Len(letter') = n + 1
    BY <1>1, <1>13 DEF LetterStatus
  <1>15. DOMAIN letter = 1 .. n /\ DOMAIN letter' = 1 .. n + 1
    BY <1>13, <1>14
  <1>16. QED
    BY <1>2, <1>3, <1>6, <1>11, <1>12, <1>14, <1>15 DEF r

LEMMA DeadLetterKept ==
    ASSUME TypeInv, NEW m \in Members, DeadLetter(m)
    PROVE  TypeInv'
  <1>1. /\ task[m].pc = "dead-letter" /\ PublishDeadLetter(m) /\ Goto(m, "commit")
        /\ UNCHANGED <<outbox, locked, todo, sent, committed, owner, processed, effects, desk, replays,
                       broken, faults, lostTasks>>
    BY DEF DeadLetter, outboxVars
  <1>2. InHand(m)
    BY <1>1 DEF InHand
  <1>3. /\ LogGrows /\ LogOK' /\ log' \in [{Topic, DLQ} -> Seq(Record)]
        /\ letter' \in Seq(LetterStatus) /\ Len(letter') = Len(log'[DLQ])
        /\ DOMAIN letter \subseteq DOMAIN letter'
    BY <1>1, <1>2, LettersAppend
  <1>4. /\ task' \in [Members -> TaskType]
        /\ \A v \in Members \ {m} : task'[v] = task[v]
        /\ task'[m].pc = "commit" /\ task'[m].pos = task[m].pos /\ task'[m].at = task[m].at
    BY <1>1, GotoType
  <1>5. MsgTypeOK'
    BY <1>1, <1>3, <1>4 DEF TypeInv, MsgTypeOK, TaskType, LetterStatus
  <1>6. TodoOK'
    BY <1>1 DEF TypeInv, TodoOK, Enqueued
  <1>7. TaskOK(m)'
    BY <1>3, <1>4, GrownPosition
  <1>8. QED
    BY <1>1, <1>3, <1>4, <1>5, <1>6, <1>7, TypeInvKept

LEMMA DeadLetterFailsMoves ==
    ASSUME TypeInv, NEW m \in Members, DeadLetterFails(m)
    PROVE  /\ task' \in [Members -> TaskType]
           /\ \A v \in Members \ {m} : task'[v] = task[v]
           /\ InHand(m) /\ task'[m].pc \in {"poll", "dead"}
           /\ IF owner[Group(m)] = m THEN task'[m].pos = task[m].at
                                    ELSE task'[m].pos = task[m].pos
           /\ lostTasks' \in 0 .. MaxLostTasks
  <1>1. InHand(m)
    BY DEF DeadLetterFails, InHand
  <1>2. CASE owner[Group(m)] = m
    <2>1. /\ task' = [task EXCEPT ![m].pc = "poll", ![m].pos = task[m].at]
          /\ UNCHANGED lostTasks
      BY <1>2 DEF DeadLetterFails
    <2>2. task[m].at \in Nat \ {0}
      BY <1>1, MemberReads DEF TaskOK
    <2>3. /\ task' \in [Members -> TaskType]
          /\ \A v \in Members \ {m} : task'[v] = task[v]
          /\ task'[m].pc = "poll" /\ task'[m].pos = task[m].at
      BY <2>1, <2>2, GroupTypes DEF TaskType
    <2>4. QED
      BY <1>1, <1>2, <2>1, <2>3, OutboxTypes
  <1>3. CASE owner[Group(m)] # m
    BY <1>1, <1>3, LoseTaskType DEF DeadLetterFails
  <1>4. QED
    BY <1>2, <1>3

LEMMA DeadLetterFailsType ==
    ASSUME TypeInv, NEW m \in Members, DeadLetterFails(m)
    PROVE  TypeInv'
  <1>1. /\ PublishDeadLetter(m) \/ UNCHANGED <<log, letter>>
        /\ Fault
        /\ UNCHANGED <<outbox, locked, todo, sent, committed, owner, processed, effects, desk, replays,
                       broken>>
    BY DEF DeadLetterFails, outboxVars
  <1>2. /\ LogGrows /\ LogOK' /\ log' \in [{Topic, DLQ} -> Seq(Record)]
        /\ letter' \in Seq(LetterStatus) /\ Len(letter') = Len(log'[DLQ])
        /\ DOMAIN letter \subseteq DOMAIN letter'
    <2>1. CASE PublishDeadLetter(m)
      BY <1>1, <2>1, DeadLetterFailsMoves, LettersAppend
    <2>2. CASE UNCHANGED <<log, letter>>
      BY <1>1, <2>2, LogStays, GroupTypes, OutboxTypes DEF LetterStatus, TypeInv, LogOK, Enqueued
    <2>3. QED
      BY <1>1, <2>1, <2>2
  <1>3. MsgTypeOK'
    BY <1>1, <1>2, DeadLetterFailsMoves, FaultType DEF TypeInv, MsgTypeOK, TaskType, LetterStatus
  <1>4. TodoOK'
    BY <1>1 DEF TypeInv, TodoOK, Enqueued
  <1>5. TaskOK(m)'
    BY <1>2, DeadLetterFailsMoves, GrownPosition
  <1>6. QED
    BY <1>1, <1>2, <1>3, <1>4, <1>5, DeadLetterFailsMoves, TypeInvKept

\* The steps of an admin, who works on one letter.
LEMMA DeskTypes ==
    ASSUME TypeInv
    PROVE  /\ desk \in [Admins -> [pc : {"idle", "replay", "replayed", "discard"}, letter : Nat]]
           /\ DOMAIN letter = DOMAIN log[DLQ] /\ DOMAIN letter \subseteq Nat
           /\ letter \in Seq(LetterStatus)
           /\ replays \subseteq DOMAIN letter
           /\ \A a \in Admins : DeskOK(a)
  <1>1. /\ letter \in Seq(LetterStatus) /\ log[DLQ] \in Seq(Record) /\ Len(letter) = Len(log[DLQ])
        /\ replays \subseteq DOMAIN letter
        /\ desk \in [Admins -> [pc : {"idle", "replay", "replayed", "discard"}, letter : Nat]]
    BY DEF TypeInv, MsgTypeOK, LetterStatus
  <1>2. DOMAIN letter = 1 .. Len(letter) /\ DOMAIN log[DLQ] = 1 .. Len(log[DLQ]) /\ Len(letter) \in Nat
    BY <1>1
  <1>3. QED
    BY <1>1, <1>2 DEF TypeInv

LEMMA OpenLetterType ==
    ASSUME TypeInv, NEW a \in Admins, NEW n \in DOMAIN letter,
           NEW action \in {"replay", "discard"}, OpenLetter(a, n, action)
    PROVE  TypeInv'
  <1> DEFINE d == [pc |-> action, letter |-> n]
  <1>1. /\ action = "replay" => log[DLQ][n].event # 0
        /\ desk' = [desk EXCEPT ![a] = d]
        /\ UNCHANGED <<outbox, locked, todo, sent, log, committed, owner, task, processed, effects,
                       letter, replays, broken, faults, lostTasks>>
    BY DEF OpenLetter, outboxVars, groupVars
  <1>2. n \in DOMAIN log[DLQ] /\ n \in Nat
    BY DeskTypes
  <1>3. /\ desk' \in [Admins -> [pc : {"idle", "replay", "replayed", "discard"}, letter : Nat]]
        /\ desk'[a] = d /\ \A b \in Admins \ {a} : desk'[b] = desk[b]
    BY <1>1, <1>2, DeskTypes
  <1>4. DeskOK(a)'
    BY <1>1, <1>2, <1>3 DEF DeskOK
  <1>5. MsgTypeOK'
    BY <1>1, <1>3 DEF TypeInv, MsgTypeOK
  <1>6. LogOK' /\ TodoOK' /\ LogGrows
    BY <1>1, LogStays, OutboxTypes DEF TypeInv, LogOK, TodoOK, Enqueued
  <1>7. QED
    BY <1>1, <1>3, <1>4, <1>5, <1>6, TypeInvKept

\* The event a letter is replayed for was enqueued.
LEMMA ReplayedEvent ==
    ASSUME TypeInv, NEW a \in Admins, desk[a].pc = "replay"
    PROVE  log[DLQ][desk[a].letter].event \in Enqueued /\ desk[a].letter \in DOMAIN letter
  BY DeskTypes DEF TypeInv, LogOK, DeskOK

LEMMA SendReplayType ==
    ASSUME TypeInv, NEW a \in Admins, SendReplay(a)
    PROVE  TypeInv'
  <1> DEFINE n == desk[a].letter
             e == log[DLQ][n].event
  <1>1. /\ desk[a].pc = "replay"
        /\ \/ log' = [log EXCEPT ![Topic] = Append(@, EventRecord(e))] /\ replays' = replays \cup {n}
           \/ UNCHANGED <<log, replays>>
        /\ \/ desk' = [desk EXCEPT ![a].pc = "replayed"] /\ NoFault
           \/ desk' = [desk EXCEPT ![a] = [pc |-> "idle", letter |-> 0]] /\ Fault
        /\ UNCHANGED <<outbox, locked, todo, sent, committed, owner, task, processed, effects, letter,
                       broken, lostTasks>>
    BY DEF SendReplay, outboxVars, groupVars
  <1>2. e \in Enqueued /\ n \in DOMAIN letter
    BY <1>1, ReplayedEvent
  <1> HIDE DEF e
  <1>3. /\ LogGrows /\ LogOK' /\ log' \in [{Topic, DLQ} -> Seq(Record)]
        /\ log'[DLQ] = log[DLQ]
    <2>1. CASE log' = [log EXCEPT ![Topic] = Append(@, EventRecord(e))]
      BY <1>1, <1>2, <2>1, TopicAppends
    <2>2. CASE UNCHANGED log
      BY <1>1, <2>2, LogStays, OutboxTypes DEF TypeInv, LogOK, Enqueued
    <2>3. QED
      BY <1>1, <2>1, <2>2
  <1>4. /\ desk' \in [Admins -> [pc : {"idle", "replay", "replayed", "discard"}, letter : Nat]]
        /\ desk'[a].pc \in {"idle", "replayed"}
        /\ desk'[a].pc = "replayed" => desk'[a].letter = n
        /\ \A b \in Admins \ {a} : desk'[b] = desk[b]
    <2>1. desk \in [Admins -> [pc : {"idle", "replay", "replayed", "discard"}, letter : Nat]]
      BY DeskTypes
    <2>2. CASE desk' = [desk EXCEPT ![a].pc = "replayed"]
      BY <2>1, <2>2
    <2>3. CASE desk' = [desk EXCEPT ![a] = [pc |-> "idle", letter |-> 0]]
      BY <2>1, <2>3
    <2>4. QED
      BY <1>1, <2>2, <2>3
  <1>5. DeskOK(a)'
    BY <1>2, <1>3, <1>4, DeskTypes DEF DeskOK
  <1>6. replays' \subseteq DOMAIN letter' /\ faults' \in 0 .. MaxFaults
    BY <1>1, <1>2, DeskTypes, OutboxTypes, FaultType DEF NoFault
  <1>7. MsgTypeOK'
    BY <1>1, <1>3, <1>4, <1>6 DEF TypeInv, MsgTypeOK
  <1>8. TodoOK'
    BY <1>1 DEF TypeInv, TodoOK, Enqueued
  <1>9. QED
    BY <1>1, <1>3, <1>4, <1>5, <1>7, <1>8, TypeInvKept

LEMMA CloseLetterType ==
    ASSUME TypeInv, NEW a \in Admins, CloseLetter(a)
    PROVE  TypeInv'
  <1> DEFINE v == IF desk[a].pc = "replayed" THEN "REPLAYED" ELSE "DISCARDED"
  <1>1. /\ desk[a].pc \in {"replayed", "discard"}
        /\ letter' = [letter EXCEPT ![desk[a].letter] = v]
        /\ desk' = [desk EXCEPT ![a] = [pc |-> "idle", letter |-> 0]]
        /\ UNCHANGED <<outbox, locked, todo, sent, log, committed, owner, task, processed, effects,
                       replays, broken, faults, lostTasks>>
    BY DEF CloseLetter, outboxVars, groupVars
  <1>2. v \in LetterStatus
    BY DEF LetterStatus
  <1> HIDE DEF v
  <1>3. desk[a].letter \in DOMAIN letter
    BY <1>1, DeskTypes DEF DeskOK
  <1>4. letter' \in Seq(LetterStatus) /\ Len(letter') = Len(letter) /\ DOMAIN letter' = DOMAIN letter
    BY <1>1, <1>2, <1>3, DeskTypes, LetterSet
  <1>5. /\ desk' \in [Admins -> [pc : {"idle", "replay", "replayed", "discard"}, letter : Nat]]
        /\ desk'[a].pc = "idle" /\ \A b \in Admins \ {a} : desk'[b] = desk[b]
    BY <1>1, DeskTypes
  <1>6. DeskOK(a)'
    BY <1>5 DEF DeskOK
  <1>7. MsgTypeOK'
    BY <1>1, <1>4, <1>5 DEF TypeInv, MsgTypeOK, LetterStatus
  <1>8. LogOK' /\ TodoOK' /\ LogGrows
    BY <1>1, LogStays, OutboxTypes DEF TypeInv, LogOK, TodoOK, Enqueued
  <1>9. QED
    BY <1>1, <1>5, <1>6, <1>7, <1>8, TypeInvKept

LEMMA FixCauseType ==
    ASSUME TypeInv, FixCause
    PROVE  TypeInv'
  <1>1. /\ broken' = {}
        /\ UNCHANGED <<outbox, locked, todo, sent, log, committed, owner, task, processed, effects,
                       letter, desk, replays, faults, lostTasks>>
    BY DEF FixCause, outboxVars, groupVars, adminVars
  <1>2. MsgTypeOK'
    BY <1>1 DEF TypeInv, MsgTypeOK
  <1>3. LogOK' /\ TodoOK' /\ LogGrows
    BY <1>1, LogStays, OutboxTypes DEF TypeInv, LogOK, TodoOK, Enqueued
  <1>4. QED
    BY <1>1, <1>2, <1>3, TypeInvKept

LEMMA GarbageType ==
    ASSUME TypeInv, ProduceGarbage
    PROVE  TypeInv'
  <1>1. /\ log' = [log EXCEPT ![Topic] = Append(@, Garbage)]
        /\ UNCHANGED <<outbox, locked, todo, sent, committed, owner, task, processed, effects,
                       letter, desk, replays, broken, faults, lostTasks>>
    BY DEF ProduceGarbage, outboxVars, groupVars, adminVars
  <1>2. LogGrows /\ LogOK' /\ log' \in [{Topic, DLQ} -> Seq(Record)] /\ log'[DLQ] = log[DLQ]
    BY <1>1, TopicAppends
  <1>3. MsgTypeOK'
    BY <1>1, <1>2 DEF TypeInv, MsgTypeOK
  <1>4. TodoOK'
    BY <1>1 DEF TypeInv, TodoOK, Enqueued
  <1>5. QED
    BY <1>1, <1>2, <1>3, <1>4, TypeInvKept

LEMMA TypeInvInit == MsgInit => TypeInv
  <1> SUFFICES ASSUME MsgInit PROVE TypeInv
    OBVIOUS
  <1>1. /\ {MaxFaults, MaxLostTasks, NumEvents} \subseteq Nat /\ MaxRetries \in Nat \ {0}
        /\ Broken \subseteq Events
    BY MessagingBounds
  <1>2. MsgTypeOK
    BY <1>1 DEF MsgInit, MsgTypeOK
  <1>3. LogOK /\ TodoOK /\ OffsetsOK
    BY LogNames DEF MsgInit, LogOK, TodoOK, OffsetsOK
  <1>4. \A m \in Members : TaskOK(m)
    <2> TAKE m \in Members
    <2>1. Subscribed(Group(m)) \in {Topic, DLQ} /\ Len(Records(m)) = 0
      BY DEF MsgInit, Group, Groups, Subscribed, Records
    <2>2. task[m].pc = "poll" /\ task[m].pos = 1
      BY DEF MsgInit
    <2>3. QED
      BY <2>1, <2>2 DEF TaskOK, InHand
  <1>5. \A a \in Admins : DeskOK(a)
    BY DEF MsgInit, DeskOK
  <1>6. QED
    BY <1>2, <1>3, <1>4, <1>5 DEF TypeInv

LEMMA TypeInvStep == TypeInv /\ [MsgNext]_msgVars => TypeInv'
  <1> SUFFICES ASSUME TypeInv, [MsgNext]_msgVars PROVE TypeInv'
    OBVIOUS
  <1>1. ASSUME NEW p \in Publishers, Publisher(p) \/ PublisherDies(p) PROVE TypeInv'
    BY <1>1, SelectType, PublishRowType, MarkType, PublisherDiesType DEF Publisher
  <1>2. ASSUME NEW m \in Members,
               Assign(m) \/ Run(m) \/ DeadLetterFails(m) \/ CommitRaises(m) \/ Die(m) \/ Restart(m)
        PROVE  TypeInv'
    BY <1>2, AssignType, PollType, CheckType, HandleCommitsType, HandleFailsType, DeadLetterKept,
       CommitOffsetType, DeadLetterFailsType, CommitRaisesType, DieType, RestartType DEF Run
  <1>3. ASSUME People PROVE TypeInv'
    BY <1>3, OpenLetterType, SendReplayType, CloseLetterType, FixCauseType, GarbageType DEF People
  <1>4. CASE UNCHANGED msgVars
    <2>1. UNCHANGED <<outbox, locked, todo, sent, log, committed, owner, task, processed, effects,
                      letter, desk, replays, broken, faults, lostTasks>>
      BY <1>4 DEF msgVars, outboxVars, groupVars, adminVars
    <2>2. MsgTypeOK' /\ LogOK' /\ TodoOK' /\ LogGrows
      BY <2>1, LogStays, OutboxTypes DEF TypeInv, MsgTypeOK, LogOK, TodoOK, Enqueued
    <2>3. QED
      BY <2>1, <2>2, TypeInvKept
  <1>5. QED
    BY <1>1, <1>2, <1>3, <1>4, EnqueueType DEF MsgNext

\* Every variable keeps the range its code gives it, and every task and every
\* request works on a record that is in the log.
THEOREM MsgTypeCorrect == MsgSpec => []MsgTypeOK
  <1>1. MsgSpec => []TypeInv
    BY TypeInvInit, TypeInvStep, PTL DEF MsgSpec
  <1>2. TypeInv => MsgTypeOK
    BY DEF TypeInv
  <1>3. QED
    BY <1>1, <1>2, PTL

-----------------------------------------------------------------------------
(* The outbox *)

\* What a publisher has locked is still to be sent, sent, or failed; nobody
\* else has it; what it marks is in the log.
BatchesOK ==
    /\ \A p \in Publishers :
           /\ todo[p] \cup sent[p] \subseteq locked[p] /\ todo[p] \cap sent[p] = {}
           /\ \A e \in locked[p] : outbox[e] = "pending"
           /\ \A e \in sent[p] : EventRecord(e) \in On(Topic)
    /\ \A p, q \in Publishers : p # q => locked[p] \cap locked[q] = {}

\* Until something fails, what is in the log is marked or about to be.
SentOnce ==
    faults = 0 /\ replays = {} =>
        \A e \in Events :
            EventRecord(e) \in On(Topic) =>
                outbox[e] = "published" \/ \E p \in Publishers : e \in sent[p]

\* No event is in the topic twice.
Once == \A i, j \in DOMAIN log[Topic] :
            log[Topic][i] = log[Topic][j] /\ log[Topic][i] # Garbage => i = j

OutboxOK == BatchesOK /\ PublishedIsInLog /\ SentOnce /\ PublishedOnce

OutboxInv == TypeInv /\ OutboxOK

LEMMA OnceAppends ==
    ASSUME TypeInv, Once, NEW r, r = Garbage \/ \E e \in Enqueued : r = EventRecord(e),
           r = Garbage \/ r \notin On(Topic),
           log' = [log EXCEPT ![Topic] = Append(@, r)], outbox' = outbox
    PROVE  Once'
  <1> DEFINE n == Len(log[Topic])
  <1>1. /\ log \in [{Topic, DLQ} -> Seq(Record)] /\ log' \in [{Topic, DLQ} -> Seq(Record)] /\ LogGrows
        /\ Len(log'[Topic]) = n + 1 /\ log'[Topic][n + 1] = r
    BY OutboxTypes, TopicAppends
  <1>2. /\ n \in Nat /\ DOMAIN log[Topic] = 1 .. n /\ DOMAIN log'[Topic] = 1 .. n + 1
        /\ \A i \in 1 .. n : log'[Topic][i] = log[Topic][i]
    BY <1>1 DEF LogGrows
  <1>3. \A i \in 1 .. n + 1 : i \in 1 .. n \/ i = n + 1
    BY <1>2
  <1>4. \A i \in 1 .. n : log[Topic][i] = r => r = Garbage
    BY <1>2 DEF On
  <1>5. QED
    BY <1>1, <1>2, <1>3, <1>4 DEF Once

\* Steps of others, that leave the topic alone.
LEMMA OutboxStays ==
    ASSUME OutboxInv, UNCHANGED <<outbox, locked, todo, sent>>, log'[Topic] = log[Topic],
           faults' = 0 => faults = 0, replays' = {} => replays = {}
    PROVE  OutboxOK'
  <1>1. On(Topic)' = On(Topic)
    BY DEF On
  <1>2. BatchesOK' /\ PublishedIsInLog'
    BY <1>1 DEF OutboxInv, OutboxOK, BatchesOK, PublishedIsInLog
  <1>3. SentOnce' /\ PublishedOnce'
    BY <1>1 DEF OutboxInv, OutboxOK, SentOnce, PublishedOnce
  <1>4. QED
    BY <1>2, <1>3 DEF OutboxOK

\* Steps of others, that add to the topic.
LEMMA OutboxGrows ==
    ASSUME OutboxInv, UNCHANGED <<outbox, locked, todo, sent>>,
           NEW r, r = Garbage \/ \E e \in Enqueued : r = EventRecord(e),
           log' = [log EXCEPT ![Topic] = Append(@, r)],
           faults' = 0 /\ replays' = {} => faults = 0 /\ replays = {} /\ r = Garbage
    PROVE  OutboxOK'
  <1>1. TypeInv
    BY DEF OutboxInv
  <1>2. On(Topic)' = On(Topic) \cup {r}
    BY <1>1, TopicAppends
  <1>3. BatchesOK' /\ PublishedIsInLog'
    BY <1>2 DEF OutboxInv, OutboxOK, BatchesOK, PublishedIsInLog
  <1>4. ASSUME faults' = 0, replays' = {}
        PROVE  /\ \A e \in Events :
                      EventRecord(e) \in On(Topic)' =>
                          outbox'[e] = "published" \/ \E p \in Publishers : e \in sent'[p]
               /\ Once'
    <2>1. r = Garbage /\ Once
      BY <1>4 DEF OutboxInv, OutboxOK, PublishedOnce, Once
    <2>2. Once'
      BY <1>1, <2>1, OnceAppends
    <2>3. QED
      BY <1>2, <1>4, <2>1, <2>2, RecordsAre DEF OutboxInv, OutboxOK, SentOnce
  <1>5. SentOnce' /\ PublishedOnce'
    BY <1>4 DEF SentOnce, PublishedOnce, Once
  <1>6. QED
    BY <1>3, <1>5 DEF OutboxOK

LEMMA EnqueueOutbox ==
    ASSUME OutboxInv, NEW e \in Events, EnqueueEvent(e)
    PROVE  OutboxOK'
  <1>1. /\ outbox[e] = "none"
        /\ outbox' = [outbox EXCEPT ![e] = "pending"]
        /\ UNCHANGED <<locked, todo, sent, log, faults, replays>>
    BY DEF EnqueueEvent, adminVars
  <1>2. On(Topic)' = On(Topic)
    BY <1>1 DEF On
  <1>3. outbox \in [Events -> {"none", "pending", "published"}] /\ locked \in [Publishers -> SUBSET Events]
    BY OutboxTypes DEF OutboxInv
  <1>4. outbox'[e] = "pending" /\ \A f \in Events \ {e} : outbox'[f] = outbox[f]
    BY <1>1, <1>3
  <1>5. BatchesOK'
    BY <1>1, <1>2, <1>3, <1>4 DEF OutboxInv, OutboxOK, BatchesOK
  <1>6. PublishedIsInLog'
    BY <1>2, <1>4 DEF OutboxInv, OutboxOK, PublishedIsInLog
  <1>7. SentOnce' /\ PublishedOnce'
    BY <1>1, <1>2, <1>4 DEF OutboxInv, OutboxOK, SentOnce, PublishedOnce
  <1>8. QED
    BY <1>5, <1>6, <1>7 DEF OutboxOK

LEMMA SelectOutbox ==
    ASSUME OutboxInv, NEW p \in Publishers, SelectBatch(p)
    PROVE  OutboxOK'
  <1> DEFINE rows == {e \in Events : outbox[e] = "pending"} \ LockedRows
             B == Batch(rows)
  <1>1. /\ locked[p] = {}
        /\ locked' = [locked EXCEPT ![p] = B]
        /\ todo' = [todo EXCEPT ![p] = B]
        /\ UNCHANGED <<outbox, sent, log, faults, replays>>
    BY DEF SelectBatch, adminVars
  <1>2. \A e \in B : e \in Events /\ outbox[e] = "pending" /\ \A q \in Publishers : e \notin locked[q]
    BY DEF Batch, LockedRows
  <1> HIDE DEF B
  <1>3. On(Topic)' = On(Topic)
    BY <1>1 DEF On
  <1>4. /\ locked'[p] = B /\ todo'[p] = B
        /\ \A q \in Publishers \ {p} : locked'[q] = locked[q] /\ todo'[q] = todo[q]
    BY <1>1, OutboxTypes DEF OutboxInv
  <1>5. sent[p] = {}
    BY <1>1 DEF OutboxInv, OutboxOK, BatchesOK
  <1>6. BatchesOK'
    <2>1. \A q \in Publishers :
              /\ todo'[q] \cup sent'[q] \subseteq locked'[q] /\ todo'[q] \cap sent'[q] = {}
              /\ \A e \in locked'[q] : outbox'[e] = "pending"
              /\ \A e \in sent'[q] : EventRecord(e) \in On(Topic)'
      BY <1>1, <1>2, <1>3, <1>4, <1>5 DEF OutboxInv, OutboxOK, BatchesOK
    <2>2. \A q, r \in Publishers : q # r => locked'[q] \cap locked'[r] = {}
      BY <1>2, <1>4 DEF OutboxInv, OutboxOK, BatchesOK
    <2>3. QED
      BY <2>1, <2>2 DEF BatchesOK
  <1>7. PublishedIsInLog' /\ SentOnce' /\ PublishedOnce'
    BY <1>1, <1>3 DEF OutboxInv, OutboxOK, PublishedIsInLog, SentOnce, PublishedOnce
  <1>8. QED
    BY <1>6, <1>7 DEF OutboxOK

\* A row whose send fails stays locked, and is forgotten with its batch; a row
\* that is sent was in nobody else's batch, so it was not in the topic.
LEMMA PublishOutbox ==
    ASSUME OutboxInv, NEW p \in Publishers, PublishRow(p)
    PROVE  OutboxOK'
  <1> DEFINE e == First(todo[p])
  <1>1. /\ todo' = [todo EXCEPT ![p] = @ \ {e}]
        /\ \/ /\ log'  = [log EXCEPT ![Topic] = Append(@, EventRecord(e))]
              /\ sent' = [sent EXCEPT ![p] = @ \cup {e}]
              /\ NoFault
           \/ /\ log' = [log EXCEPT ![Topic] = Append(@, EventRecord(e))]
              /\ Fault /\ UNCHANGED sent
           \/ Fault /\ UNCHANGED <<log, sent>>
        /\ UNCHANGED <<outbox, locked, replays>>
    BY DEF PublishRow, adminVars
  <1>2. TypeInv /\ BatchesOK /\ PublishedIsInLog /\ SentOnce /\ PublishedOnce
    BY DEF OutboxInv, OutboxOK
  <1>3. e \in todo[p] /\ e \in Enqueued /\ e \in Events
    <2>1. todo[p] \in SUBSET Events /\ todo[p] # {} /\ todo[p] \subseteq Enqueued
      BY <1>2, OutboxTypes DEF PublishRow, TypeInv, TodoOK
    <2>2. QED
      BY <2>1, FirstIn
  <1> HIDE DEF e
  <1>4. /\ todo'[p] = todo[p] \ {e} /\ \A q \in Publishers \ {p} : todo'[q] = todo[q]
        /\ todo \in [Publishers -> SUBSET Events] /\ sent \in [Publishers -> SUBSET Events]
    BY <1>1, <1>2, OutboxTypes
  <1>5. e \in locked[p] /\ outbox[e] = "pending" /\ \A q \in Publishers : e \notin sent[q]
    BY <1>2, <1>3 DEF BatchesOK
  <1>6. On(Topic)' \in {On(Topic), On(Topic) \cup {EventRecord(e)}}
    <2>1. CASE log' = [log EXCEPT ![Topic] = Append(@, EventRecord(e))]
      BY <1>1, <1>2, <1>3, <2>1, TopicAppends
    <2>2. CASE UNCHANGED log
      BY <2>2 DEF On
    <2>3. QED
      BY <1>1, <2>1, <2>2
  <1>7. ASSUME UNCHANGED sent, Fault PROVE OutboxOK'
    <2>1. BatchesOK'
      BY <1>1, <1>2, <1>4, <1>6, <1>7 DEF BatchesOK
    <2>2. PublishedIsInLog'
      BY <1>1, <1>2, <1>6 DEF PublishedIsInLog
    <2>3. faults' # 0
      BY <1>2, <1>7, FaultType
    <2>4. QED
      BY <2>1, <2>2, <2>3 DEF OutboxOK, SentOnce, PublishedOnce
  <1>8. ASSUME log'  = [log EXCEPT ![Topic] = Append(@, EventRecord(e))],
               sent' = [sent EXCEPT ![p] = @ \cup {e}], NoFault
        PROVE  OutboxOK'
    <2>1. On(Topic)' = On(Topic) \cup {EventRecord(e)}
      BY <1>1, <1>2, <1>3, <1>8, TopicAppends
    <2>2. sent'[p] = sent[p] \cup {e} /\ \A q \in Publishers \ {p} : sent'[q] = sent[q]
      BY <1>4, <1>8
    <2>3. BatchesOK'
      <3>1. \A q \in Publishers :
                /\ todo'[q] \cup sent'[q] \subseteq locked'[q] /\ todo'[q] \cap sent'[q] = {}
                /\ \A f \in sent'[q] : EventRecord(f) \in On(Topic)'
        BY <1>1, <1>2, <1>4, <1>5, <2>1, <2>2 DEF BatchesOK
      <3>2. QED
        BY <1>1, <1>2, <3>1 DEF BatchesOK
    <2>4. PublishedIsInLog'
      BY <1>1, <1>2, <1>6 DEF PublishedIsInLog
    <2>5. SentOnce'
      BY <1>1, <1>2, <1>8, <2>1, <2>2, RecordsAre DEF SentOnce, NoFault
    <2>6. ASSUME faults' = 0, replays' = {} PROVE Once'
      <3>1. Once /\ faults = 0 /\ replays = {}
        BY <1>1, <1>2, <1>8, <2>6 DEF PublishedOnce, Once, NoFault
      <3>2. EventRecord(e) \notin On(Topic)
        BY <1>2, <1>3, <1>5, <3>1 DEF SentOnce
      <3>3. QED
        BY <1>1, <1>2, <1>3, <1>8, <3>1, <3>2, OnceAppends
    <2>7. PublishedOnce'
      BY <2>6 DEF PublishedOnce, Once
    <2>8. QED
      BY <2>3, <2>4, <2>5, <2>7 DEF OutboxOK
  <1>9. QED
    BY <1>1, <1>7, <1>8

\* What is left of the batches when p forgets its own.
LEMMA ForgetOutbox ==
    ASSUME OutboxInv, NEW p \in Publishers, ForgetBatch(p)
    PROVE  /\ locked'[p] = {} /\ todo'[p] = {} /\ sent'[p] = {}
           /\ \A q \in Publishers \ {p} :
                  locked'[q] = locked[q] /\ todo'[q] = todo[q] /\ sent'[q] = sent[q]
  BY OutboxTypes DEF ForgetBatch, OutboxInv

LEMMA MarkOutbox ==
    ASSUME OutboxInv, NEW p \in Publishers, MarkPublished(p)
    PROVE  OutboxOK'
  <1>1. /\ outbox' = [e \in Events |-> IF e \in sent[p] THEN "published" ELSE outbox[e]]
        /\ ForgetBatch(p)
        /\ UNCHANGED <<log, faults, replays>>
    BY DEF MarkPublished, adminVars
  <1>2. /\ locked'[p] = {} /\ todo'[p] = {} /\ sent'[p] = {}
        /\ \A q \in Publishers \ {p} :
               locked'[q] = locked[q] /\ todo'[q] = todo[q] /\ sent'[q] = sent[q]
    BY <1>1, ForgetOutbox
  <1>3. TypeInv /\ BatchesOK /\ PublishedIsInLog /\ SentOnce /\ PublishedOnce
    BY DEF OutboxInv, OutboxOK
  <1>4. On(Topic)' = On(Topic)
    BY <1>1 DEF On
  <1>5. /\ locked \in [Publishers -> SUBSET Events]
        /\ \A e \in Events : outbox'[e] = IF e \in sent[p] THEN "published" ELSE outbox[e]
    BY <1>1, <1>3, OutboxTypes
  <1>6. \A q \in Publishers \ {p} : \A e \in locked[q] : e \notin sent[p] /\ e \in Events
    BY <1>3, <1>5 DEF BatchesOK
  <1>7. BatchesOK'
    <2>1. \A q \in Publishers :
              /\ todo'[q] \cup sent'[q] \subseteq locked'[q] /\ todo'[q] \cap sent'[q] = {}
              /\ \A e \in locked'[q] : outbox'[e] = "pending"
              /\ \A e \in sent'[q] : EventRecord(e) \in On(Topic)'
      BY <1>2, <1>3, <1>4, <1>5, <1>6 DEF BatchesOK
    <2>2. \A q, r \in Publishers : q # r => locked'[q] \cap locked'[r] = {}
      BY <1>2, <1>3 DEF BatchesOK
    <2>3. QED
      BY <2>1, <2>2 DEF BatchesOK
  <1>8. PublishedIsInLog'
    BY <1>3, <1>4, <1>5 DEF PublishedIsInLog, BatchesOK
  <1>9. SentOnce' /\ PublishedOnce'
    BY <1>1, <1>2, <1>3, <1>4, <1>5 DEF SentOnce, PublishedOnce
  <1>10. QED
    BY <1>7, <1>8, <1>9 DEF OutboxOK

LEMMA PublisherDiesOutbox ==
    ASSUME OutboxInv, NEW p \in Publishers, PublisherDies(p)
    PROVE  OutboxOK'
  <1>1. ForgetBatch(p) /\ Fault /\ UNCHANGED <<outbox, log>>
    BY DEF PublisherDies
  <1>2. /\ locked'[p] = {} /\ todo'[p] = {} /\ sent'[p] = {}
        /\ \A q \in Publishers \ {p} :
               locked'[q] = locked[q] /\ todo'[q] = todo[q] /\ sent'[q] = sent[q]
    BY <1>1, ForgetOutbox
  <1>3. TypeInv /\ BatchesOK /\ PublishedIsInLog
    BY DEF OutboxInv, OutboxOK
  <1>4. On(Topic)' = On(Topic)
    BY <1>1 DEF On
  <1>5. BatchesOK'
    BY <1>1, <1>2, <1>3, <1>4 DEF BatchesOK
  <1>6. PublishedIsInLog'
    BY <1>1, <1>3, <1>4 DEF PublishedIsInLog
  <1>7. faults' # 0
    BY <1>1, <1>3, FaultType
  <1>8. QED
    BY <1>5, <1>6, <1>7 DEF OutboxOK, SentOnce, PublishedOnce

\* Consumers do not touch the outbox nor the topic.
LEMMA MemberLeaves ==
    ASSUME TypeInv, NEW m \in Members,
           Assign(m) \/ Run(m) \/ DeadLetterFails(m) \/ CommitRaises(m) \/ Die(m) \/ Restart(m)
    PROVE  /\ UNCHANGED <<outbox, locked, todo, sent, replays>>
           /\ log'[Topic] = log[Topic]
           /\ Fault \/ faults' = faults
  <1>1. ASSUME PublishDeadLetter(m) PROVE log'[Topic] = log[Topic]
    BY <1>1, OutboxTypes, LogNames DEF PublishDeadLetter, dlq_topic
  <1>2. CASE Assign(m)
    BY <1>2 DEF Assign, outboxVars, adminVars, NoFault
  <1>3. CASE Run(m)
    BY <1>1, <1>3 DEF Run, Poll, CheckProcessed, HandleCommits, HandleFails, DeadLetter, CommitOffset,
       outboxVars, adminVars, NoFault
  <1>4. CASE DeadLetterFails(m)
    BY <1>1, <1>4 DEF DeadLetterFails, outboxVars
  <1>5. CASE CommitRaises(m) \/ Die(m) \/ Restart(m)
    BY <1>5 DEF CommitRaises, Die, Restart, outboxVars, adminVars
  <1>6. QED
    BY <1>2, <1>3, <1>4, <1>5

LEMMA PeopleOutbox ==
    ASSUME OutboxInv, People
    PROVE  OutboxOK'
  <1>1. TypeInv
    BY DEF OutboxInv
  <1>2. ASSUME NEW a \in Admins, SendReplay(a) PROVE OutboxOK'
    <2> DEFINE n == desk[a].letter
               e == log[DLQ][n].event
    <2>1. desk[a].pc = "replay" /\ UNCHANGED <<outbox, locked, todo, sent>>
      BY <1>2 DEF SendReplay, outboxVars
    <2>2. e \in Enqueued
      BY <1>1, <2>1, ReplayedEvent
    <2> HIDE DEF e
    <2>3. CASE log' = [log EXCEPT ![Topic] = Append(@, EventRecord(e))] /\ replays' = replays \cup {n}
      <3>1. replays' # {}
        BY <2>3
      <3>2. QED
        BY <2>1, <2>2, <2>3, <3>1, OutboxGrows
    <2>4. CASE Fault /\ UNCHANGED <<log, replays>>
      <3>1. faults' # 0
        BY <1>1, <2>4, FaultType
      <3>2. QED
        BY <2>1, <2>4, <3>1, OutboxStays
    <2>5. QED
      BY <1>2, <2>3, <2>4 DEF SendReplay, e
  <1>3. ASSUME ProduceGarbage PROVE OutboxOK'
    BY <1>3, OutboxGrows DEF ProduceGarbage, outboxVars, adminVars
  <1>4. CASE \/ \E a \in Admins, n \in DOMAIN letter, action \in {"replay", "discard"} :
                   OpenLetter(a, n, action)
             \/ \E a \in Admins : CloseLetter(a)
             \/ FixCause
    BY <1>4, OutboxStays DEF OpenLetter, CloseLetter, FixCause, outboxVars, adminVars
  <1>5. QED
    BY <1>2, <1>3, <1>4 DEF People

LEMMA OutboxInvInit == MsgInit => OutboxInv
  <1> SUFFICES ASSUME MsgInit PROVE OutboxOK
    BY TypeInvInit DEF OutboxInv
  <1>1. log[Topic] = <<>> /\ \A p \in Publishers : locked[p] = {} /\ todo[p] = {} /\ sent[p] = {}
    BY DEF MsgInit
  <1>2. On(Topic) = {} /\ DOMAIN log[Topic] = {}
    BY <1>1 DEF On
  <1>3. BatchesOK /\ SentOnce /\ PublishedOnce
    BY <1>1, <1>2 DEF BatchesOK, SentOnce, PublishedOnce
  <1>4. PublishedIsInLog
    BY DEF MsgInit, PublishedIsInLog
  <1>5. QED
    BY <1>3, <1>4 DEF OutboxOK

LEMMA OutboxInvStep == OutboxInv /\ [MsgNext]_msgVars => OutboxInv'
  <1> SUFFICES ASSUME OutboxInv, [MsgNext]_msgVars PROVE OutboxOK'
    BY TypeInvStep DEF OutboxInv
  <1>1. TypeInv
    BY DEF OutboxInv
  <1>2. ASSUME NEW p \in Publishers, Publisher(p) \/ PublisherDies(p) PROVE OutboxOK'
    BY <1>2, SelectOutbox, PublishOutbox, MarkOutbox, PublisherDiesOutbox DEF Publisher
  <1>3. ASSUME NEW m \in Members,
               Assign(m) \/ Run(m) \/ DeadLetterFails(m) \/ CommitRaises(m) \/ Die(m) \/ Restart(m)
        PROVE  OutboxOK'
    <2>1. /\ UNCHANGED <<outbox, locked, todo, sent, replays>> /\ log'[Topic] = log[Topic]
          /\ Fault \/ faults' = faults
      BY <1>1, <1>3, MemberLeaves
    <2>2. faults' = 0 => faults = 0
      BY <1>1, <2>1, FaultType
    <2>3. QED
      BY <2>1, <2>2, OutboxStays
  <1>4. CASE UNCHANGED msgVars
    BY <1>4, OutboxStays DEF msgVars, outboxVars, adminVars
  <1>5. QED
    BY <1>2, <1>3, <1>4, EnqueueOutbox, PeopleOutbox DEF MsgNext

LEMMA OutboxInvCorrect == MsgSpec => []OutboxInv
  BY OutboxInvInit, OutboxInvStep, PTL DEF MsgSpec

\* published_at is only ever set on a row whose event the broker has, whatever
\* dies and however many publishers there are.
THEOREM PublishedIsInLogCorrect == MsgSpec => []PublishedIsInLog
  <1>1. OutboxInv => PublishedIsInLog
    BY DEF OutboxInv, OutboxOK
  <1>2. QED
    BY <1>1, OutboxInvCorrect, PTL

\* However many publishers poll the table with batches of any size, FOR UPDATE
\* SKIP LOCKED alone makes them send a row once, until something fails.
THEOREM PublishedOnceCorrect == MsgSpec => []PublishedOnce
  <1>1. OutboxInv => PublishedOnce
    BY DEF OutboxInv, OutboxOK
  <1>2. QED
    BY <1>1, OutboxInvCorrect, PTL

-----------------------------------------------------------------------------
(* Offsets *)

Passed(g, i) ==
    LET records == log[Subscribed(g)] IN
    \/ records[i] \in processed[g]
    \/ records[i].type \notin Handled(g) \cup {"garbage"}
    \/ LettersOf(Subscribed(g), records[i]) # {}

\* All before the record in hand was passed; all before the owner's position,
\* but for the record in hand.
PositionOK(m) ==
    /\ InHand(m) => \A i \in 1 .. task[m].at - 1 : Passed(Group(m), i)
    /\ owner[Group(m)] = m =>
           \A i \in 1 .. task[m].pos - 1 :
               Passed(Group(m), i) \/ (InHand(m) /\ i = task[m].at)

SkipInv == TypeInv /\ NothingSkipped /\ \A m \in Members : PositionOK(m)

\* Every step only adds: to the logs, and to processed_events.
Growth ==
    /\ LogGrows
    /\ log' \in [{Topic, DLQ} -> Seq(Record)]
    /\ \A g \in Groups : processed[g] \subseteq processed'[g]

LEMMA StepGrows ==
    ASSUME TypeInv, [MsgNext]_msgVars
    PROVE  Growth
  <1>1. log' \in [{Topic, DLQ} -> Seq(Record)]
    BY TypeInvStep DEF TypeInv, MsgTypeOK
  <1>2. ASSUME UNCHANGED <<log, processed>> PROVE Growth
    BY <1>1, <1>2, LogStays, OutboxTypes DEF Growth
  <1>3. ASSUME LogGrows, UNCHANGED processed PROVE Growth
    BY <1>1, <1>3 DEF Growth
  <1>4. ASSUME NEW e \in Events, EnqueueEvent(e) PROVE Growth
    BY <1>2, <1>4 DEF EnqueueEvent, groupVars
  <1>5. ASSUME NEW p \in Publishers, Publisher(p) \/ PublisherDies(p) PROVE Growth
    <2>1. CASE SelectBatch(p) \/ MarkPublished(p) \/ PublisherDies(p)
      BY <1>2, <2>1 DEF SelectBatch, MarkPublished, PublisherDies, groupVars
    <2>2. CASE PublishRow(p)
      <3> DEFINE e == First(todo[p])
      <3>1. e \in Enqueued
        <4>1. todo[p] \in SUBSET Events /\ todo[p] # {} /\ todo[p] \subseteq Enqueued
          BY <2>2, OutboxTypes DEF PublishRow, TypeInv, TodoOK
        <4>2. QED
          BY <4>1, FirstIn
      <3>2. /\ \/ log' = [log EXCEPT ![Topic] = Append(@, EventRecord(e))]
               \/ UNCHANGED log
            /\ UNCHANGED <<outbox, processed>>
        BY <2>2 DEF PublishRow, groupVars
      <3> HIDE DEF e
      <3>3. LogGrows
        BY <3>1, <3>2, TopicAppends, LogStays, OutboxTypes
      <3>4. QED
        BY <1>3, <3>2, <3>3
    <2>3. QED
      BY <1>5, <2>1, <2>2 DEF Publisher
  <1>6. ASSUME NEW m \in Members,
               Assign(m) \/ Run(m) \/ DeadLetterFails(m) \/ CommitRaises(m) \/ Die(m) \/ Restart(m)
        PROVE  Growth
    <2>1. CASE \/ Assign(m) \/ Poll(m) \/ CheckProcessed(m) \/ HandleFails(m) \/ CommitOffset(m)
               \/ CommitRaises(m) \/ Die(m) \/ Restart(m)
      BY <1>2, <2>1 DEF Assign, Poll, CheckProcessed, HandleFails, CommitOffset, CommitRaises, Die, Restart
    <2>2. CASE DeadLetter(m) \/ DeadLetterFails(m)
      <3>1. InHand(m) /\ UNCHANGED <<outbox, processed>>
        BY <2>2 DEF DeadLetter, DeadLetterFails, outboxVars, InHand
      <3>2. PublishDeadLetter(m) \/ UNCHANGED log
        BY <2>2 DEF DeadLetter, DeadLetterFails
      <3>3. LogGrows
        BY <3>1, <3>2, LettersAppend, LogStays, OutboxTypes
      <3>4. QED
        BY <1>3, <3>1, <3>3
    <2>3. CASE HandleCommits(m)
      <3>1. UNCHANGED log /\ processed' = [processed EXCEPT ![Group(m)] = @ \cup {Reading(m)}]
        BY <2>3 DEF HandleCommits
      <3>2. \A g \in Groups : processed[g] \subseteq processed'[g]
        BY <3>1, GroupTypes
      <3>3. QED
        BY <1>1, <3>1, <3>2, LogStays, OutboxTypes DEF Growth
    <2>4. QED
      BY <1>6, <2>1, <2>2, <2>3 DEF Run
  <1>7. ASSUME People PROVE Growth
    <2>1. ASSUME NEW a \in Admins, SendReplay(a) PROVE Growth
      <3> DEFINE e == log[DLQ][desk[a].letter].event
      <3>1. e \in Enqueued
        BY <2>1, ReplayedEvent DEF SendReplay
      <3>2. /\ \/ log' = [log EXCEPT ![Topic] = Append(@, EventRecord(e))]
               \/ UNCHANGED log
            /\ UNCHANGED <<outbox, processed>>
        BY <2>1 DEF SendReplay, groupVars, outboxVars
      <3> HIDE DEF e
      <3>3. LogGrows
        BY <3>1, <3>2, TopicAppends, LogStays, OutboxTypes
      <3>4. QED
        BY <1>3, <3>2, <3>3
    <2>2. ASSUME ProduceGarbage PROVE Growth
      <3>1. log' = [log EXCEPT ![Topic] = Append(@, Garbage)] /\ UNCHANGED <<outbox, processed>>
        BY <2>2 DEF ProduceGarbage, groupVars, outboxVars
      <3>2. QED
        BY <1>3, <3>1, TopicAppends
    <2>3. CASE \/ \E a \in Admins, n \in DOMAIN letter, action \in {"replay", "discard"} :
                     OpenLetter(a, n, action)
               \/ \E a \in Admins : CloseLetter(a)
               \/ FixCause
      BY <1>2, <2>3 DEF OpenLetter, CloseLetter, FixCause, groupVars
    <2>4. QED
      BY <1>7, <2>1, <2>2, <2>3 DEF People
  <1>8. CASE UNCHANGED msgVars
    BY <1>2, <1>8 DEF msgVars, groupVars
  <1>9. QED
    BY <1>4, <1>5, <1>6, <1>7, <1>8 DEF MsgNext

\* What was passed stays passed.
LEMMA PassedStays ==
    ASSUME TypeInv, Growth, NEW g \in Groups, NEW i \in 1 .. Len(log[Subscribed(g)]), Passed(g, i)
    PROVE  Passed(g, i)'
  <1> DEFINE t == Subscribed(g)
             r == log[t][i]
  <1>1. t \in {Topic, DLQ} /\ log \in [{Topic, DLQ} -> Seq(Record)]
    BY OutboxTypes DEF Groups, Subscribed
  <1>2. log'[t][i] = r
    BY <1>1 DEF Growth, LogGrows
  <1>3. On(DLQ) \subseteq On(DLQ)'
    <2>1. /\ log[DLQ] \in Seq(Record) /\ log'[DLQ] \in Seq(Record) /\ Len(log[DLQ]) <= Len(log'[DLQ])
          /\ \A j \in 1 .. Len(log[DLQ]) : log'[DLQ][j] = log[DLQ][j]
      BY <1>1 DEF Growth, LogGrows
    <2>2. /\ DOMAIN log[DLQ] = 1 .. Len(log[DLQ]) /\ DOMAIN log'[DLQ] = 1 .. Len(log'[DLQ])
          /\ DOMAIN log[DLQ] \subseteq DOMAIN log'[DLQ]
      BY <2>1
    <2>3. QED
      BY <2>1, <2>2 DEF On
  <1>4. \/ r \in processed[g]
        \/ r.type \notin Handled(g) \cup {"garbage"}
        \/ \E d \in On(DLQ) : d.type = DeadLetterType(t) /\ d.event = r.event
    BY DEF Passed, LettersOf
  <1>5. \/ log'[t][i] \in processed'[g]
        \/ log'[t][i].type \notin Handled(g) \cup {"garbage"}
        \/ \E d \in On(DLQ)' : d.type = DeadLetterType(t) /\ d.event = log'[t][i].event
    <2> HIDE DEF r, t
    <2>1. QED
      BY <1>2, <1>3, <1>4 DEF Growth
  <1>6. QED
    BY <1>5 DEF Passed, LettersOf

\* What a member had passed, it has passed after any step.
LEMMA PassedByMember ==
    ASSUME SkipInv, Growth, NEW m \in Members
    PROVE  /\ InHand(m) => \A i \in 1 .. task[m].at - 1 : Passed(Group(m), i)'
           /\ owner[Group(m)] = m =>
                  \A i \in 1 .. task[m].pos - 1 : Passed(Group(m), i)' \/ (InHand(m) /\ i = task[m].at)
  <1> DEFINE g == Group(m)
  <1>1. /\ TypeInv /\ PositionOK(m) /\ TaskOK(m) /\ g \in Groups /\ task[m] \in TaskType
        /\ Len(log[Subscribed(g)]) \in Nat
    BY MemberReads DEF SkipInv, Records
  <1>2. /\ task[m].pos \in Nat /\ task[m].at \in Nat
        /\ task[m].pos <= Len(log[Subscribed(g)]) + 1
        /\ InHand(m) => task[m].at <= Len(log[Subscribed(g)])
    BY <1>1 DEF TaskOK, TaskType, Records
  <1>3. \A i \in 1 .. task[m].pos - 1 : i \in 1 .. Len(log[Subscribed(g)])
    BY <1>1, <1>2
  <1>4. InHand(m) => \A i \in 1 .. task[m].at - 1 : i \in 1 .. Len(log[Subscribed(g)])
    BY <1>1, <1>2
  <1> HIDE DEF g
  <1>5. InHand(m) => \A i \in 1 .. task[m].at - 1 : Passed(g, i)'
    BY <1>1, <1>4, PassedStays DEF PositionOK, g
  <1>6. owner[g] = m => \A i \in 1 .. task[m].pos - 1 : Passed(g, i)' \/ (InHand(m) /\ i = task[m].at)
    BY <1>1, <1>3, PassedStays DEF PositionOK, g
  <1>7. QED
    BY <1>5, <1>6 DEF g

\* A position that did not move.
LEMMA PositionStays ==
    ASSUME SkipInv, Growth, NEW m \in Members,
           task'[m].pos = task[m].pos, task'[m].at = task[m].at, InHand(m)' <=> InHand(m),
           owner'[Group(m)] = m => owner[Group(m)] = m
    PROVE  PositionOK(m)'
  BY PassedByMember DEF PositionOK

\* The record in hand is done with.
LEMMA DoneWith ==
    ASSUME SkipInv, Growth, NEW m \in Members,
           task'[m].pos = task[m].pos, ~InHand(m)',
           owner'[Group(m)] = m => owner[Group(m)] = m,
           NEW a, a = task[m].at,
           InHand(m) /\ owner'[Group(m)] = m => Passed(Group(m), a)'
    PROVE  PositionOK(m)'
  BY PassedByMember DEF PositionOK

LEMMA OffsetsPassed ==
    ASSUME SkipInv, Growth, NEW g \in Groups
    PROVE  \A i \in 1 .. committed[g] - 1 : i \in 1 .. Len(log[Subscribed(g)]) /\ Passed(g, i)'
  <1>1. TypeInv /\ NothingSkipped
    BY DEF SkipInv
  <1>2. Subscribed(g) \in {Topic, DLQ}
    BY DEF Groups, Subscribed
  <1>3. committed[g] \in Nat /\ Len(log[Subscribed(g)]) \in Nat /\ committed[g] <= Len(log[Subscribed(g)]) + 1
    BY <1>1, <1>2, GroupTypes, OutboxTypes DEF OffsetsOK
  <1>4. \A i \in 1 .. committed[g] - 1 : i \in 1 .. Len(log[Subscribed(g)]) /\ Passed(g, i)
    BY <1>1, <1>3 DEF NothingSkipped, Passed
  <1>5. QED
    BY <1>1, <1>4, PassedStays

\* A step that moves no committed offset and only m's position.
LEMMA SkipKept ==
    ASSUME SkipInv, TypeInv', Growth, UNCHANGED committed,
           \A m \in Members :
               PositionOK(m)' \/ (task'[m] = task[m] /\ (owner'[Group(m)] = m => owner[Group(m)] = m))
    PROVE  SkipInv'
  <1>1. NothingSkipped'
    BY OffsetsPassed DEF NothingSkipped, Passed
  <1>2. \A m \in Members : PositionOK(m)'
    BY PositionStays DEF InHand
  <1>3. QED
    BY <1>1, <1>2 DEF SkipInv

\* Steps of everyone but the consumers.
LEMMA SkipOthers ==
    ASSUME SkipInv, TypeInv', Growth, UNCHANGED <<committed, owner, task>>
    PROVE  SkipInv'
  BY SkipKept

\* A member's step: the others keep what they have in hand, and none of them
\* gains the partition.
LEMMA SkipMember ==
    ASSUME SkipInv, TypeInv', Growth, NEW m \in Members, UNCHANGED committed,
           \A v \in Members \ {m} : task'[v] = task[v],
           \A v \in Members \ {m} : owner'[Group(v)] = v => owner[Group(v)] = v,
           PositionOK(m)'
    PROVE  SkipInv'
  BY SkipKept

LEMMA AssignSkip ==
    ASSUME SkipInv, TypeInv', Growth, NEW m \in Members, Assign(m)
    PROVE  SkipInv'
  <1> DEFINE g == Group(m)
  <1>1. TypeInv /\ g \in Groups /\ owner \in [Groups -> Members \cup {NoMember}] /\ UNCHANGED committed
    BY MemberReads, GroupTypes DEF SkipInv, Assign
  <1>2. /\ \A v \in Members \ {m} : task'[v] = task[v]
        /\ task'[m].pos = committed[g] /\ task'[m].pc = task[m].pc /\ task'[m].at = task[m].at
        /\ owner' = [owner EXCEPT ![g] = m]
    BY <1>1, AssignMoves
  <1>3. \A i \in 1 .. committed[g] - 1 : Passed(g, i)'
    BY <1>1, OffsetsPassed
  <1>4. InHand(m)' <=> InHand(m)
    BY <1>2 DEF InHand
  <1>5. PositionOK(m)'
    BY <1>2, <1>3, <1>4, PassedByMember DEF PositionOK
  <1>6. \A v \in Members \ {m} : owner'[Group(v)] = v => owner[Group(v)] = v
    <2>1. \A v \in Members : Group(v) \in Groups
      BY DEF Group, Groups
    <2>2. QED
      BY <1>1, <1>2, <2>1
  <1>7. QED
    BY <1>1, <1>2, <1>5, <1>6, SkipMember

LEMMA PollSkip ==
    ASSUME SkipInv, TypeInv', Growth, NEW m \in Members, Poll(m)
    PROVE  SkipInv'
  <1> DEFINE g == Group(m)
             t == task[m]
             type == Records(m)[t.pos].type
             pc == CASE type = "garbage"    -> "dead-letter"
                     [] type \in Handled(g) -> "dispatch"
                     [] OTHER               -> "commit"
             u == [pc |-> pc, pos |-> t.pos + 1, at |-> t.pos, attempt |-> 1]
  <1>1. /\ t.pc = "poll" /\ owner[g] = m /\ t.pos <= Len(Records(m))
        /\ task' = [task EXCEPT ![m] = u]
        /\ UNCHANGED <<log, committed, owner>>
    BY DEF Poll, Records
  <1>2. TypeInv /\ t.pos \in Nat \ {0} /\ Len(Records(m)) \in Nat
    BY MemberReads DEF SkipInv, TaskType
  <1>3. u.pc = pc /\ u.pos = t.pos + 1 /\ u.at = t.pos
    OBVIOUS
  <1>4. /\ pc \in {"dead-letter", "dispatch", "commit"}
        /\ pc = "commit" => type \notin Handled(g) \cup {"garbage"}
    OBVIOUS
  <1> HIDE DEF pc, u
  <1>5. task'[m] = u /\ \A v \in Members \ {m} : task'[v] = task[v]
    BY <1>1, <1>2, GroupTypes
  <1>6. ~InHand(m) /\ (InHand(m)' <=> pc # "commit")
    <2>1. task'[m].pc = pc /\ task[m].pc = "poll"
      BY <1>1, <1>3, <1>5
    <2>2. task'[m].pc \in {"dispatch", "handle", "dead-letter"} <=> pc # "commit"
      BY <1>4, <2>1
    <2>3. QED
      BY <2>1, <2>2 DEF InHand
  <1>7. \A i \in 1 .. t.pos - 1 : Passed(g, i)'
    BY <1>1, <1>6, PassedByMember
  <1>8. pc = "commit" => Passed(g, t.pos)
    BY <1>4 DEF Passed, Records
  <1>9. ASSUME NEW i \in 1 .. t.pos, i = t.pos => pc = "commit" PROVE Passed(g, i)'
    <2>1. CASE i # t.pos
      <3>1. i \in 1 .. t.pos - 1
        BY <1>2, <2>1
      <3>2. QED
        BY <1>7, <3>1
    <2>2. CASE i = t.pos
      <3>1. i \in 1 .. Len(log[Subscribed(g)]) /\ g \in Groups
        BY <1>1, <1>2, MemberReads DEF Records
      <3>2. QED
        BY <1>2, <1>8, <1>9, <2>2, <3>1, PassedStays
    <2>3. QED
      BY <2>1, <2>2
  <1>10. PositionOK(m)'
    <2> DEFINE n == t.pos
    <2>1. task'[m].pos - 1 = n /\ task'[m].at = n
      BY <1>2, <1>3, <1>5
    <2>2. \A i \in 1 .. n - 1 : Passed(g, i)'
      BY <1>7
    <2>3. \A i \in 1 .. n : Passed(g, i)' \/ (InHand(m)' /\ i = n)
      BY <1>6, <1>9
    <2> HIDE DEF n
    <2>4. QED
      BY <2>1, <2>2, <2>3 DEF PositionOK
  <1>11. QED
    BY <1>1, <1>5, <1>10, SkipMember

LEMMA CheckSkip ==
    ASSUME SkipInv, TypeInv', Growth, NEW m \in Members, CheckProcessed(m)
    PROVE  SkipInv'
  <1> DEFINE g == Group(m)
             pc == IF Reading(m) \in processed[g] THEN "commit" ELSE "handle"
  <1> PICK a : a = task[m].at
    OBVIOUS
  <1>1. task[m].pc = "dispatch" /\ Goto(m, pc) /\ UNCHANGED <<committed, owner>>
    BY DEF CheckProcessed
  <1>2. pc \in {"commit", "handle"} /\ (pc = "commit" => Reading(m) \in processed[g])
    OBVIOUS
  <1> HIDE DEF pc
  <1>3. TypeInv /\ InHand(m)
    BY <1>1 DEF SkipInv, InHand
  <1>4. /\ \A v \in Members \ {m} : task'[v] = task[v]
        /\ task'[m].pc = pc /\ task'[m].pos = task[m].pos /\ task'[m].at = a
    BY <1>1, <1>2, <1>3, GotoType
  <1>5. PositionOK(m)'
    <2>1. CASE pc = "handle"
      <3>1. InHand(m)'
        BY <1>4, <2>1 DEF InHand
      <3>2. QED
        BY <1>1, <1>3, <1>4, <3>1, PositionStays
    <2>2. CASE pc = "commit"
      <3>1. ~InHand(m)'
        BY <1>4, <2>2 DEF InHand
      <3>2. Passed(g, a)
        BY <1>2, <2>2 DEF Passed, Reading
      <3>3. g \in Groups /\ a \in 1 .. Len(log[Subscribed(g)])
        BY <1>3, MemberReads DEF TaskOK, Records
      <3>4. Passed(g, a)'
        BY <1>3, <3>2, <3>3, PassedStays
      <3>5. QED
        BY <1>1, <1>4, <3>1, <3>4, DoneWith
    <2>3. QED
      BY <1>2, <2>1, <2>2
  <1>6. QED
    BY <1>1, <1>4, <1>5, SkipMember

LEMMA HandleCommitsSkip ==
    ASSUME SkipInv, TypeInv', Growth, NEW m \in Members, HandleCommits(m)
    PROVE  SkipInv'
  <1> DEFINE g == Group(m)
  <1> PICK a : a = task[m].at
    OBVIOUS
  <1>1. /\ task[m].pc = "handle" /\ Goto(m, "commit") /\ UNCHANGED <<log, committed, owner>>
        /\ processed' = [processed EXCEPT ![g] = @ \cup {Reading(m)}]
    BY DEF HandleCommits
  <1>2. TypeInv /\ InHand(m) /\ g \in Groups /\ processed \in [Groups -> SUBSET Record]
    BY <1>1, MemberReads, GroupTypes DEF SkipInv, InHand
  <1>3. /\ \A v \in Members \ {m} : task'[v] = task[v]
        /\ task'[m].pc = "commit" /\ task'[m].pos = task[m].pos
    BY <1>1, <1>2, GotoType
  <1>4. ~InHand(m)'
    BY <1>3 DEF InHand
  <1>5. Reading(m) \in processed'[g] /\ Reading(m) = log'[Subscribed(g)][a]
    BY <1>1, <1>2 DEF Reading
  <1>6. Passed(g, a)'
    BY <1>5 DEF Passed
  <1>7. PositionOK(m)'
    BY <1>1, <1>3, <1>4, <1>6, DoneWith
  <1>8. QED
    BY <1>1, <1>3, <1>7, SkipMember

LEMMA HandleFailsSkip ==
    ASSUME SkipInv, TypeInv', Growth, NEW m \in Members, HandleFails(m)
    PROVE  SkipInv'
  <1>1. TypeInv /\ UNCHANGED <<committed, owner>>
    BY DEF SkipInv, HandleFails
  <1>2. QED
    BY <1>1, HandleFailsMoves, PositionStays, SkipMember

\* Once its letter is in the DLQ, a record is passed.
LEMMA LetterPasses ==
    ASSUME TypeInv, Growth, NEW m \in Members, InHand(m), PublishDeadLetter(m), outbox' = outbox,
           NEW a, a = task[m].at
    PROVE  Passed(Group(m), a)'
  <1> DEFINE t == Subscribed(Group(m))
  <1>1. On(DLQ)' = On(DLQ) \cup {LetterOf(m)} /\ LetterOf(m).type = DeadLetterType(t)
        /\ LetterOf(m).event = Reading(m).event
    BY LettersAppend
  <1>2. log'[t][a] = Reading(m)
    BY MemberReads DEF TaskOK, Records, Reading, Growth, LogGrows
  <1>3. \E d \in On(DLQ)' : d.type = DeadLetterType(t) /\ d.event = log'[t][a].event
    BY <1>1, <1>2
  <1>4. QED
    BY <1>3 DEF Passed, LettersOf

LEMMA DeadLetterSkip ==
    ASSUME SkipInv, TypeInv', Growth, NEW m \in Members, DeadLetter(m)
    PROVE  SkipInv'
  <1> PICK a : a = task[m].at
    OBVIOUS
  <1>1. /\ task[m].pc = "dead-letter" /\ PublishDeadLetter(m) /\ Goto(m, "commit")
        /\ UNCHANGED <<outbox, committed, owner>>
    BY DEF DeadLetter, outboxVars
  <1>2. TypeInv /\ InHand(m)
    BY <1>1 DEF SkipInv, InHand
  <1>3. /\ \A v \in Members \ {m} : task'[v] = task[v]
        /\ task'[m].pc = "commit" /\ task'[m].pos = task[m].pos
    BY <1>1, <1>2, GotoType
  <1>4. ~InHand(m)'
    BY <1>3 DEF InHand
  <1>5. Passed(Group(m), a)'
    BY <1>1, <1>2, LetterPasses
  <1>6. PositionOK(m)'
    BY <1>1, <1>3, <1>4, <1>5, DoneWith
  <1>7. QED
    BY <1>1, <1>3, <1>6, SkipMember

LEMMA DeadLetterFailsSkip ==
    ASSUME SkipInv, TypeInv', Growth, NEW m \in Members, DeadLetterFails(m)
    PROVE  SkipInv'
  <1> DEFINE g == Group(m)
  <1>1. TypeInv /\ UNCHANGED <<committed, owner>>
    BY DEF SkipInv, DeadLetterFails
  <1>2. /\ \A v \in Members \ {m} : task'[v] = task[v]
        /\ InHand(m) /\ task'[m].pc \in {"poll", "dead"}
        /\ owner[g] = m => task'[m].pos = task[m].at
    BY <1>1, DeadLetterFailsMoves
  <1>3. ~InHand(m)'
    BY <1>2 DEF InHand
  <1>4. PositionOK(m)'
    BY <1>1, <1>2, <1>3, PassedByMember DEF PositionOK
  <1>5. QED
    BY <1>1, <1>2, <1>4, SkipMember

\* The offset that is committed is the position of the owner, which is done with
\* all before it.
LEMMA CommitOffsetSkip ==
    ASSUME SkipInv, TypeInv', Growth, NEW m \in Members, CommitOffset(m)
    PROVE  SkipInv'
  <1> DEFINE g == Group(m)
             n == task[m].pos
  <1>1. /\ task[m].pc = "commit" /\ Goto(m, "poll") /\ UNCHANGED owner
        /\ committed' = [committed EXCEPT ![g] = IF owner[g] = m THEN n ELSE @]
    BY DEF CommitOffset
  <1>2. TypeInv /\ ~InHand(m) /\ g \in Groups /\ committed \in [Groups -> Nat \ {0}]
    BY <1>1, MemberReads, GroupTypes DEF SkipInv, InHand
  <1>3. /\ \A v \in Members \ {m} : task'[v] = task[v]
        /\ task'[m].pc = "poll" /\ task'[m].pos = task[m].pos /\ task'[m].at = task[m].at
    BY <1>1, <1>2, GotoType
  <1>4. ~InHand(m)'
    BY <1>3 DEF InHand
  <1>5. owner[g] = m => \A i \in 1 .. n - 1 : Passed(g, i)'
    BY <1>2, PassedByMember
  <1>6. \A v \in Members : PositionOK(v)'
    <2>1. PositionOK(m)'
      BY <1>1, <1>2, <1>3, <1>4, PositionStays
    <2>2. \A v \in Members \ {m} : PositionOK(v)'
      BY <1>1, <1>3, PositionStays DEF InHand
    <2>3. QED
      BY <2>1, <2>2
  <1>7. \A h \in Groups : \A i \in 1 .. committed'[h] - 1 : Passed(h, i)'
    <2> SUFFICES ASSUME NEW h \in Groups, NEW i \in 1 .. committed'[h] - 1 PROVE Passed(h, i)'
      OBVIOUS
    <2>1. CASE committed'[h] = committed[h]
      BY <2>1, OffsetsPassed
    <2>2. CASE h = g /\ owner[g] = m
      <3>1. committed'[h] = n
        BY <1>1, <1>2, <2>2
      <3>2. QED
        BY <1>5, <2>2, <3>1
    <2>3. QED
      BY <1>1, <1>2, <2>1, <2>2
  <1>8. NothingSkipped'
    BY <1>7 DEF NothingSkipped, Passed
  <1>9. QED
    BY <1>6, <1>8 DEF SkipInv

\* The loop ends, or the process does, or starts again.
LEMMA StopSkip ==
    ASSUME SkipInv, TypeInv', Growth, NEW m \in Members, CommitRaises(m) \/ Die(m) \/ Restart(m)
    PROVE  SkipInv'
  <1> PICK a : a = task[m].at
    OBVIOUS
  <1>1. TypeInv /\ UNCHANGED committed
        /\ \E pc \in {"dead", "down", "poll"} : Goto(m, pc)
    BY DEF SkipInv, CommitRaises, LoseTask, Die, Restart
  <1>2. /\ \A v \in Members \ {m} : task'[v] = task[v]
        /\ task'[m].pc \in {"dead", "down", "poll"} /\ task'[m].pos = task[m].pos
    BY <1>1, GotoType
  <1>3. ~InHand(m)'
    BY <1>2 DEF InHand
  <1>4. \A v \in Members : owner'[Group(v)] = v => owner[Group(v)] = v
    <2>1. owner \in [Groups -> Members \cup {NoMember}] /\ \A v \in Members : Group(v) \in Groups
      BY <1>1, GroupTypes, MemberReads
    <2>2. CASE Die(m)
      <3>1. owner' = [owner EXCEPT ![Group(m)] = IF @ = m THEN NoMember ELSE @]
        BY <2>2 DEF Die
      <3>2. QED
        BY <2>1, <3>1, MembersType
    <2>3. CASE CommitRaises(m) \/ Restart(m)
      BY <2>3 DEF CommitRaises, Restart
    <2>4. QED
      BY <2>2, <2>3
  <1>5. ~(InHand(m) /\ owner'[Group(m)] = m)
    <2>1. owner \in [Groups -> Members \cup {NoMember}] /\ Group(m) \in Groups
      BY <1>1, GroupTypes, MemberReads
    <2>2. CASE Die(m)
      <3>1. owner' = [owner EXCEPT ![Group(m)] = IF @ = m THEN NoMember ELSE @]
        BY <2>2 DEF Die
      <3>2. QED
        BY <2>1, <3>1, MembersType
    <2>3. CASE CommitRaises(m) \/ Restart(m)
      BY <2>3 DEF CommitRaises, Restart, InHand
    <2>4. QED
      BY <2>2, <2>3
  <1>6. PositionOK(m)'
    BY <1>2, <1>3, <1>4, <1>5, DoneWith
  <1>7. QED
    BY <1>1, <1>2, <1>4, <1>6, SkipMember

LEMMA SkipInvInit == MsgInit => SkipInv
  <1> SUFFICES ASSUME MsgInit PROVE NothingSkipped /\ \A m \in Members : PositionOK(m)
    BY TypeInvInit DEF SkipInv
  <1>1. NothingSkipped
    BY DEF MsgInit, NothingSkipped
  <1>2. \A m \in Members : PositionOK(m)
    BY DEF MsgInit, PositionOK, InHand
  <1>3. QED
    BY <1>1, <1>2

LEMMA SkipInvStep == SkipInv /\ [MsgNext]_msgVars => SkipInv'
  <1> SUFFICES ASSUME SkipInv, [MsgNext]_msgVars PROVE SkipInv'
    OBVIOUS
  <1>1. TypeInv /\ TypeInv' /\ Growth
    BY TypeInvStep, StepGrows DEF SkipInv
  <1>2. CASE \E e \in Events : EnqueueEvent(e)
    BY <1>1, <1>2, SkipOthers DEF EnqueueEvent, groupVars
  <1>3. CASE \E p \in Publishers : Publisher(p) \/ PublisherDies(p)
    BY <1>1, <1>3, SkipOthers
       DEF Publisher, SelectBatch, PublishRow, MarkPublished, PublisherDies, groupVars
  <1>4. ASSUME NEW m \in Members,
               Assign(m) \/ Run(m) \/ DeadLetterFails(m) \/ CommitRaises(m) \/ Die(m) \/ Restart(m)
        PROVE  SkipInv'
    BY <1>1, <1>4, AssignSkip, PollSkip, CheckSkip, HandleCommitsSkip, HandleFailsSkip, DeadLetterSkip,
       CommitOffsetSkip, DeadLetterFailsSkip, StopSkip DEF Run
  <1>5. CASE People
    BY <1>1, <1>5, SkipOthers
       DEF People, OpenLetter, SendReplay, CloseLetter, FixCause, ProduceGarbage, groupVars
  <1>6. CASE UNCHANGED msgVars
    BY <1>1, <1>6, SkipOthers DEF msgVars, groupVars
  <1>7. QED
    BY <1>2, <1>3, <1>4, <1>5, <1>6 DEF MsgNext

\* A group's offset passes a record only when it was handled and marked, had no
\* handler, or went to the DLQ: whoever dies, rebalances or fails, and although a
\* member that lost the partition goes on with what it has in hand.
THEOREM NothingSkippedCorrect == MsgSpec => []NothingSkipped
  <1>1. MsgSpec => []SkipInv
    BY SkipInvInit, SkipInvStep, PTL DEF MsgSpec
  <1>2. SkipInv => NothingSkipped
    BY DEF SkipInv
  <1>3. QED
    BY <1>1, <1>2, PTL

-----------------------------------------------------------------------------
(* Effects *)

EffectsOK ==
    \A e \in Events :
        effects[e] = IF EventRecord(e) \in processed[Service] THEN 1 ELSE 0

EffectInv == TypeInv /\ EffectsOK

\* Only a handler that commits writes effects and processed_events.
LEMMA EffectsStay ==
    ASSUME EffectsOK, UNCHANGED <<effects, processed>>
    PROVE  EffectsOK'
  BY DEF EffectsOK

LEMMA HandleCommitsEffect ==
    ASSUME EffectInv, NEW m \in Members, HandleCommits(m)
    PROVE  EffectsOK'
  <1> DEFINE g == Group(m)
  <1>1. /\ task[m].pc = "handle" /\ Reading(m) \notin processed[g]
        /\ processed' = [processed EXCEPT ![g] = @ \cup {Reading(m)}]
        /\ Effect(m)
    BY DEF HandleCommits
  <1>2. /\ TypeInv /\ EffectsOK /\ g \in Groups
        /\ processed \in [Groups -> SUBSET Record] /\ effects \in [Events -> Nat]
    BY MemberReads, GroupTypes DEF EffectInv
  <1>3. CASE g = Service
    <2>1. PICK e \in Enqueued : Reading(m) = EventRecord(e)
      BY <1>1, <1>2, <1>3, HandledRecord
    <2>2. effects' = [effects EXCEPT ![e] = @ + 1] /\ e \in Events
      BY <1>1, <1>3, <2>1, RecordsAre DEF Effect, Enqueued
    <2>3. processed'[Service] = processed[Service] \cup {EventRecord(e)}
      BY <1>1, <1>2, <1>3, <2>1
    <2>4. EventRecord(e) \notin processed[Service] /\ effects[e] = 0
      BY <1>1, <1>2, <1>3, <2>1, <2>2 DEF EffectsOK
    <2>5. effects'[e] = 1 /\ \A f \in Events \ {e} : effects'[f] = effects[f]
      BY <1>2, <2>2, <2>4
    <2>6. \A f \in Events \ {e} : EventRecord(f) # EventRecord(e)
      BY RecordsAre
    <2>7. QED
      BY <1>2, <2>3, <2>5, <2>6 DEF EffectsOK
  <1>4. CASE g # Service
    <2>1. effects' = effects /\ processed'[Service] = processed[Service]
      BY <1>1, <1>2, <1>4, LogNames DEF Effect
    <2>2. QED
      BY <1>2, <2>1 DEF EffectsOK
  <1>5. QED
    BY <1>3, <1>4

\* All but a commit of a handler leave these alone.
LEMMA NoEffect ==
    ASSUME [MsgNext]_msgVars, \A m \in Members : ~HandleCommits(m)
    PROVE  UNCHANGED <<effects, processed>>
  <1>1. CASE \E e \in Events : EnqueueEvent(e)
    BY <1>1 DEF EnqueueEvent, groupVars
  <1>2. CASE \E p \in Publishers : Publisher(p) \/ PublisherDies(p)
    BY <1>2 DEF Publisher, SelectBatch, PublishRow, MarkPublished, PublisherDies, groupVars
  <1>3. ASSUME NEW m \in Members,
               Assign(m) \/ Run(m) \/ DeadLetterFails(m) \/ CommitRaises(m) \/ Die(m) \/ Restart(m)
        PROVE  UNCHANGED <<effects, processed>>
    BY <1>3 DEF Assign, Run, Poll, CheckProcessed, HandleFails, DeadLetter, CommitOffset, DeadLetterFails,
                CommitRaises, Die, Restart
  <1>4. CASE People
    BY <1>4 DEF People, OpenLetter, SendReplay, CloseLetter, FixCause, ProduceGarbage, groupVars
  <1>5. CASE UNCHANGED msgVars
    BY <1>5 DEF msgVars, groupVars
  <1>6. QED
    BY <1>1, <1>2, <1>3, <1>4, <1>5 DEF MsgNext

LEMMA EffectInvInit == MsgInit => EffectInv
  <1> SUFFICES ASSUME MsgInit PROVE EffectsOK
    BY TypeInvInit DEF EffectInv
  <1>1. \A e \in Events : effects[e] = 0
    BY DEF MsgInit
  <1>2. processed[Service] = {}
    BY LogNames DEF MsgInit
  <1>3. QED
    BY <1>1, <1>2 DEF EffectsOK

LEMMA EffectInvStep == EffectInv /\ [MsgNext]_msgVars => EffectInv'
  <1> SUFFICES ASSUME EffectInv, [MsgNext]_msgVars PROVE EffectsOK'
    BY TypeInvStep DEF EffectInv
  <1>1. CASE \E m \in Members : HandleCommits(m)
    BY <1>1, HandleCommitsEffect
  <1>2. CASE \A m \in Members : ~HandleCommits(m)
    BY <1>2, NoEffect, EffectsStay DEF EffectInv
  <1>3. QED
    BY <1>1, <1>2

LEMMA EffectInvCorrect == MsgSpec => []EffectInv
  BY EffectInvInit, EffectInvStep, PTL DEF MsgSpec

-----------------------------------------------------------------------------
(* The promise: MsgSpec implements Delivery *)

\* The events of the letters the service's consumer wrote.
Parked == {d.event : d \in {r \in On(DLQ) : r.type = DeadLetterType(Topic)}} \ {0}

LEMMA ParkedStays ==
    ASSUME On(DLQ)' = On(DLQ)
    PROVE  Parked' = Parked
  BY DEF Parked

LEMMA ParkedGrows ==
    ASSUME NEW r, On(DLQ)' = On(DLQ) \cup {r}
    PROVE  Parked' = IF r.type = DeadLetterType(Topic) /\ r.event # 0 THEN Parked \cup {r.event}
                                                                    ELSE Parked
  BY DEF Parked

\* What of this Delivery sees.
LEMMA Unseen ==
    ASSUME UNCHANGED <<outbox, effects>>, Parked' = Parked
    PROVE  UNCHANGED Promise!DelVars
  BY DEF Promise!DelVars, Parked

LEMMA EnqueueIs ==
    ASSUME TypeInv, NEW e \in Events, EnqueueEvent(e)
    PROVE  Promise!DelNext
  <1>1. /\ outbox[e] = "none" /\ outbox' = [outbox EXCEPT ![e] = "pending"]
        /\ UNCHANGED <<log, effects>>
    BY DEF EnqueueEvent, groupVars
  <1>2. outbox \in [Events -> {"none", "pending", "published"}]
    BY OutboxTypes
  <1>3. e \notin Enqueued /\ Enqueued' = Enqueued \cup {e}
    BY <1>1, <1>2 DEF Enqueued
  <1>4. Parked' = Parked
    BY <1>1, ParkedStays DEF On
  <1>5. Promise!Enqueue(e)
    BY <1>1, <1>3, <1>4 DEF Promise!Enqueue, Enqueued, Parked
  <1>6. QED
    BY <1>5 DEF Promise!DelNext

LEMMA MarkHides ==
    ASSUME TypeInv, NEW p \in Publishers, BatchesOK, MarkPublished(p)
    PROVE  Enqueued' = Enqueued
  <1>1. outbox' = [e \in Events |-> IF e \in sent[p] THEN "published" ELSE outbox[e]]
    BY DEF MarkPublished
  <1>2. \A e \in sent[p] : outbox[e] = "pending"
    BY DEF BatchesOK
  <1>3. QED
    BY <1>1, <1>2, OutboxTypes DEF Enqueued

LEMMA PublisherIs ==
    ASSUME OutboxInv, NEW p \in Publishers, Publisher(p) \/ PublisherDies(p)
    PROVE  UNCHANGED Promise!DelVars
  <1>1. TypeInv /\ BatchesOK /\ UNCHANGED effects
    BY DEF OutboxInv, OutboxOK, Publisher, SelectBatch, PublishRow, MarkPublished, PublisherDies, groupVars
  <1>2. Enqueued' = Enqueued
    <2>1. CASE MarkPublished(p)
      BY <1>1, <2>1, MarkHides
    <2>2. CASE SelectBatch(p) \/ PublishRow(p) \/ PublisherDies(p)
      BY <2>2 DEF SelectBatch, PublishRow, PublisherDies, Enqueued
    <2>3. QED
      BY <2>1, <2>2 DEF Publisher
  <1>3. log'[DLQ] = log[DLQ]
    BY <1>1, OutboxTypes, LogNames
       DEF Publisher, SelectBatch, PublishRow, MarkPublished, PublisherDies
  <1>4. Parked' = Parked
    BY <1>3, ParkedStays DEF On
  <1>5. QED
    BY <1>1, <1>2, <1>4 DEF Promise!DelVars, Enqueued, Parked

LEMMA HandleCommitsIs ==
    ASSUME EffectInv, NEW m \in Members, HandleCommits(m)
    PROVE  [Promise!DelNext]_(Promise!DelVars)
  <1>1. /\ task[m].pc = "handle" /\ Reading(m) \notin processed[Group(m)] /\ Effect(m)
        /\ UNCHANGED <<outbox, log>>
    BY DEF HandleCommits, outboxVars
  <1>2. TypeInv /\ EffectsOK /\ effects \in [Events -> Nat]
    BY GroupTypes DEF EffectInv
  <1>3. Parked' = Parked
    BY <1>1, ParkedStays DEF On
  <1>4. CASE Group(m) = Service
    <2>1. PICK e \in Enqueued : Reading(m) = EventRecord(e)
      BY <1>1, <1>2, <1>4, HandledRecord
    <2>2. effects' = [effects EXCEPT ![e] = @ + 1] /\ e \in Events
      BY <1>1, <1>4, <2>1, RecordsAre DEF Effect, Enqueued
    <2>3. effects[e] = 0
      BY <1>1, <1>2, <1>4, <2>1, <2>2 DEF EffectsOK
    <2>4. effects' = [effects EXCEPT ![e] = 1]
      BY <1>2, <2>2, <2>3
    <2>5. Promise!Apply(e)
      BY <1>1, <1>3, <2>1, <2>3, <2>4 DEF Promise!Apply, Enqueued, Parked
    <2>6. QED
      BY <2>2, <2>5 DEF Promise!DelNext
  <1>5. CASE Group(m) # Service
    <2>1. UNCHANGED effects
      BY <1>1, <1>5 DEF Effect
    <2>2. QED
      BY <1>1, <1>3, <2>1, Unseen
  <1>6. QED
    BY <1>4, <1>5

\* A letter parks the event it is about, if the service's consumer wrote it and
\* could read the event; a second letter about it changes nothing.
LEMMA LetterIs ==
    ASSUME TypeInv, NEW m \in Members, InHand(m), PublishDeadLetter(m), UNCHANGED <<outbox, effects>>
    PROVE  [Promise!DelNext]_(Promise!DelVars)
  <1> DEFINE r == LetterOf(m)
  <1>1. On(DLQ)' = On(DLQ) \cup {r} /\ r.event = Reading(m).event
    BY LettersAppend
  <1>2. r.event = 0 \/ r.event \in Enqueued
    BY <1>1, ReadingIs
  <1> HIDE DEF r
  <1>3. CASE r.type = DeadLetterType(Topic) /\ r.event # 0 /\ r.event \notin Parked
    <2>1. Parked' = Parked \cup {r.event}
      BY <1>1, <1>3, ParkedGrows
    <2>2. PICK e \in Enqueued : e = r.event
      BY <1>2, <1>3
    <2>3. Promise!Park(e)
      BY <1>3, <2>1, <2>2 DEF Promise!Park, Enqueued, Parked
    <2>4. QED
      BY <2>2, <2>3 DEF Promise!DelNext, Enqueued
  <1>4. CASE ~(r.type = DeadLetterType(Topic) /\ r.event # 0 /\ r.event \notin Parked)
    <2>1. Parked' = Parked
      BY <1>1, <1>4, ParkedGrows
    <2>2. QED
      BY <2>1, Unseen
  <1>5. QED
    BY <1>3, <1>4

LEMMA MemberIs ==
    ASSUME EffectInv, NEW m \in Members,
           Assign(m) \/ Run(m) \/ DeadLetterFails(m) \/ CommitRaises(m) \/ Die(m) \/ Restart(m)
    PROVE  [Promise!DelNext]_(Promise!DelVars)
  <1>1. CASE HandleCommits(m)
    BY <1>1, HandleCommitsIs
  <1>2. ASSUME UNCHANGED <<outbox, effects, log>> PROVE UNCHANGED Promise!DelVars
    BY <1>2, ParkedStays, Unseen DEF On
  <1>3. CASE DeadLetter(m) \/ DeadLetterFails(m)
    <2>1. TypeInv /\ InHand(m) /\ UNCHANGED <<outbox, effects>>
      BY <1>3 DEF EffectInv, InHand, DeadLetter, DeadLetterFails, outboxVars
    <2>2. PublishDeadLetter(m) \/ UNCHANGED log
      BY <1>3 DEF DeadLetter, DeadLetterFails
    <2>3. QED
      BY <1>2, <2>1, <2>2, LetterIs
  <1>4. CASE \/ Assign(m) \/ Poll(m) \/ CheckProcessed(m) \/ HandleFails(m) \/ CommitOffset(m)
             \/ CommitRaises(m) \/ Die(m) \/ Restart(m)
    BY <1>2, <1>4 DEF Assign, Poll, CheckProcessed, HandleFails, CommitOffset, CommitRaises, Die, Restart,
                      outboxVars
  <1>5. QED
    BY <1>1, <1>3, <1>4 DEF Run

LEMMA PeopleAre ==
    ASSUME People, TypeInv
    PROVE  UNCHANGED Promise!DelVars
  <1>1. UNCHANGED <<outbox, effects>>
    BY DEF People, OpenLetter, SendReplay, CloseLetter, FixCause, ProduceGarbage, outboxVars, groupVars
  <1>2. log'[DLQ] = log[DLQ]
    BY OutboxTypes, LogNames DEF People, OpenLetter, SendReplay, CloseLetter, FixCause, ProduceGarbage
  <1>3. QED
    BY <1>1, <1>2, ParkedStays, Unseen DEF On

LEMMA InitIs == MsgInit => Promise!DelInit
  <1> SUFFICES ASSUME MsgInit PROVE Promise!DelInit
    OBVIOUS
  <1>1. log[DLQ] = <<>> /\ outbox = [e \in Events |-> "none"] /\ effects = [e \in Events |-> 0]
    BY LogNames DEF MsgInit
  <1>2. On(DLQ) = {}
    BY <1>1 DEF On
  <1>3. QED
    BY <1>1, <1>2 DEF Promise!DelInit

LEMMA StepIs == OutboxInv /\ EffectInv /\ [MsgNext]_msgVars => [Promise!DelNext]_(Promise!DelVars)
  <1> SUFFICES ASSUME OutboxInv, EffectInv, [MsgNext]_msgVars
               PROVE  [Promise!DelNext]_(Promise!DelVars)
    OBVIOUS
  <1>1. CASE \E e \in Events : EnqueueEvent(e)
    BY <1>1, EnqueueIs DEF EffectInv
  <1>2. CASE \E p \in Publishers : Publisher(p) \/ PublisherDies(p)
    BY <1>2, PublisherIs
  <1>3. CASE People
    BY <1>3, PeopleAre DEF EffectInv
  <1>4. CASE UNCHANGED msgVars
    BY <1>4, ParkedStays, Unseen DEF msgVars, outboxVars, groupVars, On
  <1>5. QED
    BY <1>1, <1>2, <1>3, <1>4, MemberIs DEF MsgNext

\* Outbox, broker, consumers and dead-letter admin together keep the promise of
\* Delivery: an event whose row was committed is applied at most once, only after
\* it was enqueued, however often it is sent, dead-lettered or replayed.
THEOREM MessagingImplementsDelivery == MsgSpec => DelSpec
  BY InitIs, StepIs, OutboxInvCorrect, EffectInvCorrect, PTL DEF MsgSpec, DelSpec, Promise!DelSpec
=============================================================================
