------------------------------ MODULE TaskQueue ------------------------------
(***************************************************************************)
(* The ingestion queue: task rows of the database, one Redis stream with   *)
(* one consumer group, and the task executors that read it.                *)
(*                                                                         *)
(*  - api/db/services/task_service.py inserts a task row and publishes a   *)
(*    message for it (queue_tasks); get_task counts the attempts;          *)
(*  - rag/utils/redis_conn.py: queue_product is XADD with retries,         *)
(*    queue_consumer XREADGROUP, get_unacked_iterator re-reads what this   *)
(*    consumer name never acknowledged, RedisMsg.ack is XACK;              *)
(*  - rag/svr/task_executor.py: collect, handle_task, and the restarts of  *)
(*    docker/entrypoint.sh under the same consumer name.                   *)
(*                                                                         *)
(* Message ids are positions in the stream: Redis ids grow, and the group  *)
(* remembers the last one it delivered.  Nothing in the code publishes to  *)
(* the second, priority-1 stream that collect polls first, so there is one *)
(* stream here.                                                            *)
(***************************************************************************)
EXTENDS Naturals, Integers, Sequences, FiniteSets

CONSTANTS
  Tasks,        \* ids of task rows, each published by one queue_tasks call
  Executors,    \* consumer names, one process each
  Slots,        \* MAX_CONCURRENT_TASKS
  MaxMessages,  \* bound: length of the stream
  MaxCrashes,   \* bound: executor processes that die
  MaxFaults     \* bound: database and Redis calls that fail

ASSUME QueueAssumption ==
  /\ Slots \in Nat \ {0}
  /\ MaxMessages \in Nat
  /\ MaxCrashes \in Nat
  /\ MaxFaults \in Nat

MsgId == 1 .. MaxMessages

\* task.progress: 0.0, between 0 and 1, 1.0, and -1 for an error.
Queued == 0
Started == 1
Done == 2
Failed == -1
Progress == {Queued, Started, Done, Failed}

VARIABLES
  row,       \* the row of the task table: "absent", "present" or "deleted"
  sent,      \* tasks whose queue_product call is over
  progress,  \* task.progress
  retry,     \* task.retry_count
  flag,      \* tasks whose "<id>-cancel" key is set in Redis
  stream,    \* the stream: the task of every message
  lastId,    \* last-delivered-id of the group
  pel,       \* pending entries of every consumer
  acked,     \* history: messages acknowledged
  up,        \* executors that are running
  replay,    \* what UNACKED_ITERATOR has still to yield
  job,       \* job[e][m]: the stage of executor e's handler of message m
  seen,      \* retry_count read by get_task, until it is written back
  starts,    \* history: times do_handle_task was entered for a task
  crashes, faults

rowVars == <<row, sent, progress, retry, flag, starts>>
redisVars == <<stream, lastId, pel, acked>>
procVars == <<up, replay, job, seen>>
vars == <<rowVars, redisVars, procVars, crashes, faults>>

Idle == "idle"
Stages == {Idle, "got", "selected", "running", "finishing", "closing"}

Init ==
  /\ row = [t \in Tasks |-> "absent"]
  /\ sent = {}
  /\ progress = [t \in Tasks |-> Queued]
  /\ retry = [t \in Tasks |-> 0]
  /\ flag = {}
  /\ stream = <<>>
  /\ lastId = 0
  /\ pel = [e \in Executors |-> {}]
  /\ acked = {}
  /\ up = Executors
  /\ replay = [e \in Executors |-> {}]
  /\ job = [e \in Executors |-> [m \in MsgId |-> Idle]]
  /\ seen = [e \in Executors |-> 0]
  /\ starts = [t \in Tasks |-> 0]
  /\ crashes = 0
  /\ faults = 0

InHand(e) == {m \in MsgId : job[e][m] # Idle}
Collecting(e) == {m \in MsgId : job[e][m] \in {"got", "selected"}}

\* A call to the database or to Redis fails; MaxFaults bounds how often.
Fault == faults < MaxFaults /\ faults' = faults + 1

----------------------------------------------------------------------------
(* The API server.                                                         *)

\* bulk_insert_into_db(Task, ...).
InsertTask(t) ==
  /\ row[t] = "absent"
  /\ row' = [row EXCEPT ![t] = "present"]
  /\ UNCHANGED <<sent, progress, retry, flag, starts, redisVars, procVars, crashes, faults>>

Send(t, messages) ==
  /\ row[t] # "absent"
  /\ t \notin sent
  /\ Len(stream) + Len(messages) <= MaxMessages
  /\ sent' = sent \cup {t}
  /\ stream' = stream \o messages
  /\ UNCHANGED <<row, progress, retry, flag, starts, lastId, pel, acked, procVars, crashes>>

\* queue_product: XADD.
Publish(t) == Send(t, <<t>>) /\ UNCHANGED faults

\* queue_product loses the reply of an XADD that was applied and tries again.
PublishTwice(t) == Send(t, <<t, t>>) /\ Fault

\* cancel_all_task_of.
Cancel(t) ==
  /\ row[t] = "present"
  /\ t \notin flag
  /\ flag' = flag \cup {t}
  /\ UNCHANGED <<row, sent, progress, retry, starts, redisVars, procVars, crashes, faults>>

\* The document is removed or parsed again: TaskService.filter_delete.
DeleteTask(t) ==
  /\ row[t] = "present"
  /\ row' = [row EXCEPT ![t] = "deleted"]
  /\ UNCHANGED <<sent, progress, retry, flag, starts, redisVars, procVars, crashes, faults>>

----------------------------------------------------------------------------
(* Redis.                                                                  *)

Ack(e, m) ==
  /\ pel' = [pel EXCEPT ![e] = @ \ {m}]
  /\ acked' = acked \cup {m}
  /\ UNCHANGED <<stream, lastId>>

\* Mutants: an off-by-one in the id, and XREADGROUP NOACK.
ReadNewSkipping(e) ==
  /\ lastId < Len(stream)
  /\ lastId' = lastId + 2
  /\ pel' = [pel EXCEPT ![e] = @ \cup {lastId + 1}]
  /\ UNCHANGED <<stream, acked>>

ReadNewNoAck(e) ==
  /\ lastId < Len(stream)
  /\ lastId' = lastId + 1
  /\ UNCHANGED <<stream, acked, pel>>

\* XREADGROUP with id ">": the group hands its next message to e.
ReadNew(e) ==
  /\ lastId < Len(stream)
  /\ lastId' = lastId + 1
  /\ pel' = [pel EXCEPT ![e] = @ \cup {lastId + 1}]
  /\ UNCHANGED <<stream, acked>>

SetJob(e, m, s) == job' = [job EXCEPT ![e][m] = s]

----------------------------------------------------------------------------
(* collect: it never awaits, so an executor collects one message at a time.*)

FreeSlot(e) ==
  /\ e \in up
  /\ Collecting(e) = {}
  /\ Cardinality(InHand(e)) < Slots

\* next(UNACKED_ITERATOR): XREADGROUP from the cursor, in id order.
CollectUnacked(e) ==
  /\ FreeSlot(e)
  /\ \E m \in replay[e] :
       /\ \A n \in replay[e] : m <= n
       /\ replay' = [replay EXCEPT ![e] = @ \ {m}]
       /\ SetJob(e, m, "got")
  /\ UNCHANGED <<rowVars, redisVars, up, seen, crashes, faults>>

\* The iterator is exhausted: queue_consumer.
CollectNew(e) ==
  /\ FreeSlot(e)
  /\ replay[e] = {}
  /\ ReadNew(e)
  /\ SetJob(e, lastId + 1, "got")
  /\ UNCHANGED <<rowVars, up, replay, seen, crashes, faults>>

\* XREADGROUP was applied but its reply was lost; the retry inside
\* queue_consumer asks for ">" again and gets another message.
CollectLost(e) ==
  /\ FreeSlot(e)
  /\ replay[e] = {}
  /\ ReadNew(e)
  /\ Fault
  /\ UNCHANGED <<rowVars, procVars, crashes>>

\* The SELECT of get_task.
SelectTask(e, m) ==
  /\ job[e][m] = "got"
  /\ row[stream[m]] # "deleted"
  /\ seen' = [seen EXCEPT ![e] = retry[stream[m]]]
  /\ SetJob(e, m, "selected")
  /\ UNCHANGED <<rowVars, redisVars, up, replay, crashes, faults>>

\* The row is gone: "collect task ... is unknown", acknowledged.
DropUnknown(e, m) ==
  /\ job[e][m] = "got"
  /\ row[stream[m]] = "deleted"
  /\ SetJob(e, m, Idle)
  /\ Ack(e, m)
  /\ UNCHANGED <<rowVars, up, replay, seen, crashes, faults>>

\* Mutants: prog = -1 forgotten at the third attempt; retry_count not written.
CountAttemptAlive(e, t, p) ==
  IF row[t] = "deleted"
    THEN UNCHANGED <<progress, retry>>
    ELSE /\ progress' = [progress EXCEPT ![t] = Started]
         /\ retry' = [retry EXCEPT ![t] = seen[e] + 1]

CountAttemptLost(e, t, p) ==
  /\ progress' = [progress EXCEPT ![t] = p]
  /\ UNCHANGED retry

\* The UPDATE of get_task, on a row that may be gone by now.
CountAttempt(e, t, p) ==
  IF row[t] = "deleted"
    THEN UNCHANGED <<progress, retry>>
    ELSE /\ progress' = [progress EXCEPT ![t] = p]
         /\ retry' = [retry EXCEPT ![t] = seen[e] + 1]

\* "Task is abandoned after 3 times attempts": get_task returns None.
Abandon(e, m) ==
  /\ job[e][m] = "selected"
  /\ seen[e] >= 3
  /\ CountAttempt(e, stream[m], Failed)
  /\ SetJob(e, m, Idle)
  /\ Ack(e, m)
  /\ UNCHANGED <<row, sent, flag, starts, up, replay, seen, crashes, faults>>

\* get_task returned the task but "<id>-cancel" is set.
DropCanceled(e, m) ==
  /\ job[e][m] = "selected"
  /\ seen[e] < 3
  /\ stream[m] \in flag
  /\ CountAttempt(e, stream[m], Started)
  /\ SetJob(e, m, Idle)
  /\ Ack(e, m)
  /\ UNCHANGED <<row, sent, flag, starts, up, replay, seen, crashes, faults>>

\* Mutant: acknowledging on receipt instead of at the end.
StartAcked(e, m) ==
  /\ job[e][m] = "selected"
  /\ seen[e] < 3
  /\ stream[m] \notin flag
  /\ CountAttempt(e, stream[m], Started)
  /\ starts' = [starts EXCEPT ![stream[m]] = @ + 1]
  /\ SetJob(e, m, "running")
  /\ Ack(e, m)
  /\ UNCHANGED <<row, sent, flag, up, replay, seen, crashes, faults>>

\* The task goes to do_handle_task.
Start(e, m) ==
  /\ job[e][m] = "selected"
  /\ seen[e] < 3
  /\ stream[m] \notin flag
  /\ CountAttempt(e, stream[m], Started)
  /\ starts' = [starts EXCEPT ![stream[m]] = @ + 1]
  /\ SetJob(e, m, "running")
  /\ UNCHANGED <<row, sent, flag, redisVars, up, replay, seen, crashes, faults>>

\* get_task raises: collect does not catch it, the coroutine dies and the
\* message stays pending until the process is started again.
CollectRaises(e, m) ==
  /\ job[e][m] \in {"got", "selected"}
  /\ Fault
  /\ SetJob(e, m, Idle)
  /\ UNCHANGED <<rowVars, redisVars, up, replay, seen, crashes>>

----------------------------------------------------------------------------
(* handle_task.                                                            *)

\* TaskService.update_progress: -1 is final and values only grow.
UpdateProgress(t, p) ==
  IF row[t] # "deleted" /\ progress[t] # Failed /\ (p = Failed \/ p > progress[t])
    THEN progress' = [progress EXCEPT ![t] = p]
    ELSE UNCHANGED progress

\* The work is done and has_canceled, read last, says no ...
LastCheck(e, m) ==
  /\ job[e][m] = "running"
  /\ stream[m] \notin flag
  /\ SetJob(e, m, "finishing")
  /\ UNCHANGED <<rowVars, redisVars, up, replay, seen, crashes, faults>>

\* ... prog=1.0 is written.
Finish(e, m) ==
  /\ job[e][m] = "finishing"
  /\ UpdateProgress(stream[m], Done)
  /\ SetJob(e, m, "closing")
  /\ UNCHANGED <<row, sent, retry, flag, starts, redisVars, up, replay, seen, crashes, faults>>

\* do_handle_task raised, or set_progress saw the cancel flag: -1.
Fail(e, m) ==
  /\ job[e][m] = "running"
  /\ UpdateProgress(stream[m], Failed)
  /\ SetJob(e, m, "closing")
  /\ UNCHANGED <<row, sent, retry, flag, starts, redisVars, up, replay, seen, crashes, faults>>

\* set_progress logs a database error and goes on.
ProgressLost(e, m) ==
  /\ job[e][m] \in {"running", "finishing"}
  /\ Fault
  /\ SetJob(e, m, "closing")
  /\ UNCHANGED <<rowVars, redisVars, up, replay, seen, crashes>>

\* record_pipeline_operation is over: redis_msg.ack().
Close(e, m) ==
  /\ job[e][m] = "closing"
  /\ SetJob(e, m, Idle)
  /\ Ack(e, m)
  /\ UNCHANGED <<rowVars, up, replay, seen, crashes, faults>>

\* record_pipeline_operation raises in the finally clause: no ack.
CloseRaises(e, m) ==
  /\ job[e][m] = "closing"
  /\ Fault
  /\ SetJob(e, m, Idle)
  /\ UNCHANGED <<rowVars, redisVars, up, replay, seen, crashes>>

----------------------------------------------------------------------------
(* The process.                                                            *)

Crash(e) ==
  /\ e \in up
  /\ crashes < MaxCrashes
  /\ crashes' = crashes + 1
  /\ up' = up \ {e}
  /\ job' = [job EXCEPT ![e] = [m \in MsgId |-> Idle]]
  /\ replay' = [replay EXCEPT ![e] = {}]
  /\ seen' = [seen EXCEPT ![e] = 0]
  /\ UNCHANGED <<rowVars, redisVars, faults>>

\* Mutant: a restarted executor that only reads new messages.
RestartForgetful(e) ==
  /\ e \notin up
  /\ up' = up \cup {e}
  /\ UNCHANGED <<rowVars, redisVars, replay, job, seen, crashes, faults>>

\* entrypoint.sh starts the executor again under its old consumer name; the
\* first collect creates UNACKED_ITERATOR.
Restart(e) ==
  /\ e \notin up
  /\ up' = up \cup {e}
  /\ replay' = [replay EXCEPT ![e] = pel[e]]
  /\ UNCHANGED <<rowVars, redisVars, job, seen, crashes, faults>>

Handler(e, m) ==
  \/ SelectTask(e, m) \/ DropUnknown(e, m) \/ Abandon(e, m)
  \/ DropCanceled(e, m) \/ Start(e, m)
  \/ LastCheck(e, m) \/ Finish(e, m) \/ Fail(e, m) \/ Close(e, m)

FaultyHandler(e, m) ==
  CollectRaises(e, m) \/ ProgressLost(e, m) \/ CloseRaises(e, m)

Next ==
  \/ \E t \in Tasks :
       InsertTask(t) \/ Publish(t) \/ PublishTwice(t) \/ Cancel(t) \/ DeleteTask(t)
  \/ \E e \in Executors :
       \/ CollectUnacked(e) \/ CollectNew(e) \/ CollectLost(e)
       \/ Crash(e) \/ Restart(e)
       \/ \E m \in MsgId : Handler(e, m) \/ FaultyHandler(e, m)

Spec == Init /\ [][Next]_vars

\* A started queue_tasks call goes on to publish; main() polls for ever, the
\* handlers have timeouts, and entrypoint.sh restarts a dead executor.
Fairness ==
  /\ \A t \in Tasks : WF_vars(Publish(t))
  /\ \A e \in Executors :
       /\ WF_vars(CollectUnacked(e))
       /\ WF_vars(CollectNew(e))
       /\ WF_vars(Restart(e))
       /\ \A m \in MsgId : WF_vars(Handler(e, m))

FairSpec == Spec /\ Fairness

----------------------------------------------------------------------------
(* Properties.                                                             *)

TypeOK ==
  /\ row \in [Tasks -> {"absent", "present", "deleted"}]
  /\ sent \in SUBSET Tasks
  /\ progress \in [Tasks -> Progress]
  /\ retry \in [Tasks -> Nat]
  /\ flag \in SUBSET Tasks
  /\ starts \in [Tasks -> Nat]
  /\ stream \in Seq(Tasks)
  /\ Len(stream) <= MaxMessages
  /\ lastId \in 0 .. Len(stream)
  /\ pel \in [Executors -> SUBSET MsgId]
  /\ acked \in SUBSET MsgId
  /\ up \in SUBSET Executors
  /\ replay \in [Executors -> SUBSET MsgId]
  /\ job \in [Executors -> [MsgId -> Stages]]
  /\ seen \in [Executors -> Nat]

Published == 1 .. Len(stream)

\* A delivered message is pending at one consumer or acknowledged, never
\* both and never at two consumers: nothing published is lost.
DeliveredOnce ==
  /\ acked \cup UNION {pel[e] : e \in Executors} = 1 .. lastId
  /\ \A e \in Executors : acked \cap pel[e] = {}
  /\ \A e, f \in Executors : e # f => pel[e] \cap pel[f] = {}

\* A handler works only on a message that is pending at its own consumer and
\* that the iterator will not yield a second time.
HandlerOwnsMessage ==
  \A e \in Executors :
    /\ InHand(e) \cup replay[e] \subseteq pel[e]
    /\ InHand(e) \cap replay[e] = {}
    /\ e \notin up => InHand(e) = {}

PublishedOnce(t) ==
  \A m, n \in Published : stream[m] = t /\ stream[n] = t => m = n

\* Crash and restart as often as they may, a task whose message was published
\* once enters do_handle_task at most three times ("abandoned after 3 times
\* attempts").
AttemptsBounded == \A t \in Tasks : PublishedOnce(t) => starts[t] <= 3

\* A published task that shows neither 1 nor -1 and was not canceled still
\* has a message that somebody will be handed: no row stays "processing"
\* with nobody left to process it.  (A failed write of set_progress is logged
\* and forgotten, and strands its task: the promise is for the runs in which
\* no database or Redis call has failed.)
NoStrandedTask ==
  faults = 0 => \A t \in sent \ flag :
    row[t] = "present" /\ progress[t] \in {Queued, Started} =>
      \E m \in Published \ acked : stream[m] = t

\* After a failed call: pending at a running executor that no longer knows it
\* and will only read it again when it is restarted.
Forgotten(m) ==
  faults > 0 /\ \E e \in up : m \in pel[e] \ (InHand(e) \cup replay[e])

\* Every message is acknowledged in the end, however often its executors die;
\* only a failed call can leave it pending with an executor that forgot it.
EventuallyAcked ==
  \A m \in MsgId : m \in Published ~> m \in acked \/ Forgotten(m)

----------------------------------------------------------------------------
Queue == INSTANCE WorkQueue WITH
  Job <- MsgId,
  todo <- {m \in Published \ acked : \A e \in Executors : job[e][m] = Idle},
  leased <- UNION {InHand(e) : e \in Executors},
  done <- acked

\* The stream, its consumer group and the executors implement the abstract
\* work queue.
ImplementsWorkQueue == Queue!Spec
=============================================================================
