# RAGFlow: a TLA+ development

RAGFlow turns uploaded documents into chunks of a document store (Elasticsearch,
Infinity, OceanBase) and answers questions from them, by agents that users draw in the
browser and the server runs. Two activities carry the system's own logic. The ingestion of
documents is shared by API servers, task executors, MySQL, Redis and the document store,
and no transaction or lock spans them. An agent is a graph that an editor changes by dozens of
gestures, saves as a DSL, and that the server walks batch by batch, across several
messages of a conversation. This directory models both in TLA+, checks them with TLC
and proves part of it with TLAPS.

Paths below are relative to `src/`.

## The system

### Components, their state and operations

| Component | State | Operations | What makes it correct |
| --- | --- | --- | --- |
| Redis distributed lock (`rag/utils/redis_conn.py`, `RedisDistributedLock`) | one key with a TTL, the caller's value in it | `acquire`, `spin_acquire`, `release`, the Lua script that deletes a key only while it holds a given value | one holder at a time; nobody removes another's lease; a dead holder's lease ends |
| Ingestion queue (`rag/utils/redis_conn.py`, `RedisDB`) | a stream, one consumer group, a pending list per consumer | `queue_product`, `queue_consumer`, `get_unacked_iterator`, `RedisMsg.ack` | nothing published is lost; a message has one owner |
| Executor loop (`rag/svr/task_executor.py`: `collect`, `handle_task`, `task_manager`; `docker/entrypoint.sh`) | the iterator over unacknowledged messages, the handlers under way, progress and retry count of the task rows | collect, refuse, start, end, acknowledge; die and be restarted under the same name | every message is acknowledged in the end; a task that kills its executor is tried three times and then marked failed |
| Document parsing (`api/apps/document_app.py`, `api/apps/sdk/doc.py`, `api/db/services/{document,task,file}_service.py`, `do_handle_task`) | the document row (run, progress, chunk_num), the dataset row (chunk_num), the task rows, the cancel flags in Redis, the chunks in the document store | run, cancel, run again with or without deletion, parse, stop, delete; split into tasks and reuse earlier results; parse, embed, insert, count, finish; sum the tasks up into the document | DONE means searchable; canceled stays canceled; removed leaves nothing behind; counters and store agree; everything ends |
| Dataset tasks (`api/apps/kb_app.py`, `rag/graphrag/general/index.py`) | one task id per kind in the dataset row, the graph in the document store, a merge lock | start, trace, unbind GraphRAG, RAPTOR, mind map; merge per-document graphs | one task of a kind per dataset; no merge lost |
| Executor heartbeats (`report_status` in `rag/svr/task_executor.py`) | the set TASKEXE, a sorted set of reports per executor | report, trim, remove executors that stopped reporting | live executors stay listed, dead ones go |
| Data source synchronisation (`rag/svr/sync_data_source.py`, `api/db/services/connector_service.py`) | sync logs: SCHEDULE, RUNNING, DONE, FAIL, and a time range each | list, start, done, schedule the next | every range is synchronised, none for ever RUNNING |
| Code sandbox pool (`agent/sandbox/executor_manager/core/container.py`) | a queue of container names per language | allocate, release, recreate | no container lost or shared |
| Agent editor (`web/src/pages/agent`: `store.ts`, `hooks.tsx`, `hooks/`, `utils.ts`) | nodes, groups, connections, the forms of Switch operators, the placeholder of a dragged connection | draw, add, drag, choose, cut, delete (seven functions and the Delete key), copy, edit conditions; build the DSL | no cycle, no edge across groups, no flow without entry, no successor that does not exist |
| Agent run (`agent/canvas.py`, `agent/component/`, `api/apps/canvas_app.py`) | the stored path, the path and the batch of a run, the outputs of components, the items of Iterations and Loops | start, run a batch, lead on, pause for the user, finish, cancel, reset | a component runs after its inputs; every item is mapped; loops and runs end; an answer continues what asked for it |
| Editor session (`use-save-graph.ts`, `use-save-on-blur.ts`, `use-agent-history-manager.ts`) | time of the last save, undo history | save, autosave, save before a run, undo | the last state shown is the one stored |
| Agent chat client (`use-send-message.ts`, `chat/use-send-agent-message.ts`) | events of the stream, messages shown | send, receive, stop | every question has its answer |
| Pipelines (`rag/flow/pipeline.py`) | a chain of components, progress | run one after the other | — |
| MCP sessions (`common/mcp_tool_call_conn.py`) | a request queue per session, the closing flag | call a tool, close | every call is answered |
| Memory messages (`api/db/joint_services/memory_message_service.py`, `generate_auto_increment_id`) | a counter in Redis, messages by size | next id, forget oldest | ids unique, size below its limit |
| Rate limiting (token bucket script in `redis_conn.py`) | tokens and time in a hash | take a token | never more than the capacity |
| Retrieval, parsers, LLM connectors, conversations, accounts, admin, front end | — | pure functions on data, remote calls, CRUD on single rows | not state machines; see "Not modelled" |

### How they interact

    user ── API server ── MySQL (document, dataset, task rows) ── executors
                 │                                                   │
                 ├── Redis: stream, "<task>-cancel" flags, locks ────┤
                 └── document store (chunks) ────────────────────────┘

* An API call changes the document row, deletes or plans task rows, and publishes one
  message per task. Each of these is a statement of its own.
* An executor takes a message, reads its row, works for minutes, and looks at the
  cancel flag between its steps. It writes progress with an UPDATE whose WHERE clause
  makes it monotone, inserts chunks, increments both counters, and acknowledges last.
* A thread of each API server (under the lock) and every executor at the end of a task
  (without it) sum up the task rows and write the result into the document row.
* Cancel and delete do not wait for the handlers: they set flags the handlers read.

    user ── editor (nodes, edges, forms) ── DSL ── agent row ── Canvas.run ── events to the chat
                                                      └── path of the last run ──┘

* The editor's gestures are handlers of one page, each atomic; a save writes the DSL built
  from nodes and edges (`downstream`, `exception_goto`, `parent_id`) into the agent row.
* A run makes its components from that row, walks on from the path stored in it, and
  writes all of it back when it ends. The cancel flag in Redis is read between batches and
  inside components.

### What is hard

Handlers interleave with API calls at every statement. Executors die with messages
pending and come back under their name. Redis replies are lost after the command was
applied, and retried. Database errors are swallowed in some places and kill the
coroutine in others. Summaries are read at one moment and written at another. A second
run starts while handlers of the first still work. In the editor the hard part is length:
every invariant of the graph is kept by many small handlers, none of which checks it. In a
run the components of a batch finish in any order, branches of different length meet, and
a path written by one run decides what the next message means. `PROJECT.json` lists these as
hazards, each at its line with the properties that would catch it going wrong.

## Modules

    MutexLock  <-implements- RedisLock  <- RedisLockProofs     MCRedisLock
    WorkQueue  <-implements- TaskQueue  <- TaskQueueProofs     MCTaskQueue
    WorkQueue  <-instance--- DocIngest  <- DocIngestProofs     MCDocIngest
                                             <- DocIngestRerunProofs <- DocIngestFirstRunProofs
                             AgentGraph <- AgentGraphProofs    MCAgentGraph
                             CanvasRun  <- CanvasShapes        MCCanvasRun
                                             <- CanvasRunProofs <- CanvasWalkProofs

### RedisLock, MutexLock

`key` is the Redis key, `setBy` a history variable naming the client that wrote it,
`pc` where each client is in `acquire`/`spin_acquire`/`release`. `Clear` is the
`delete_if_equal` every attempt starts with, `Grab` and `GrabLost` the SET NX PX whose
reply arrives or is lost, `GiveUp` the end of the blocking timeout, `Expire` the TTL.
What callers do inside the lock is no step. `Release` is also allowed without holding
the lock, as the `finally` clause of `ragflow_server.update_progress` does. The values
are a parameter because callers choose them: a uuid, the consumer name, and for GraphRAG
one fixed string. What the lock promises is stated for distinct values
(`UniqueTokens`). `Overrun` is the set of clients whose sections may outlive the lease;
exclusion and the refinement speak of the others (`Punctual`), whatever those do.

### TaskQueue, WorkQueue

Rows, stream, group, pending lists, executors and their handlers. Message ids are
positions in the stream. `CollectNew` is `queue_consumer`, `CollectUnacked` the
iterator (`replay`), created by the first collect after `Restart` from what is pending
under the consumer name. `get_task` is two statements (`SelectTask` and the `UPDATE` in
`Abandon`, `DropCanceled`, `Start`), since the row may be deleted or canceled between
them. `collect` never awaits, so one executor collects one message at a time, while
`Slots` handlers run. The faults of the code are actions: `PublishTwice` and
`CollectLost` are replies lost after the command was applied, `CollectRaises` an
exception outside the `try` of `collect`, `ProgressLost` the error `set_progress`
swallows, `CloseRaises` an exception between the end of the work and the
acknowledgement. `Forgotten` names the messages such a fault leaves pending at an executor that
lives on without knowing them; only its restart brings them back.

`WorkQueue` is the promise: a submitted job is available, leased to one worker, or
done. `TaskQueue` implements it (`ImplementsWorkQueue`): a message whose handler died or
raised is available again, even though it sits in a pending list.

### DocIngest

One document cut into `Parts`; a part without text is in `EmptyParts`. A task is a pair
of a run and a part. An API call reads its precondition and leaves in `api` the list of
the statements it will execute; `ApiStatement` executes them one by one while everything
else goes on. This shares the statements between calls whose order differs: `delete` takes
the chunks off the dataset's count, sets flags, deletes rows, deletes chunks and drops the
document; `rm` deletes the rows before all that. `queue_tasks` is seven statements:
`PlanTasks` (read the rows, decide what to reuse), `DeleteRows`, `PruneChunks`,
`SetChunkNum`, `InsertTasks`, `BeginParse`, and `PublishTask` per task. One API call runs at a
time.

An executor's handler is a `stage` per task; the stages are the statements of
`do_handle_task` between which the cancel flag is read (`Check`), so that a flag may be set
between any two. `increment_chunk_num` is two of them, the document's row and the dataset's.
`_sync_progress` is three, whoever calls it: `ReadTasks`, `ReadDocument`,
`WriteDocument`. Its callers are the handler of a task at its end and the thread of the
API server, which is one more process (`Server`) with a stage of its own;
`ServerChooses` is `get_unfinished_docs`. `snap` is what a call has read and not yet
written. Progress has four values: 0, in between, 1 and -1. The queue is `WorkQueue`, so
that what is checked here rests on `TaskQueue` only through its refinement.

A chunk id is a hash of content and document id, so inserting a part again overwrites;
hence `store` is the set of parts with a chunk. `EmptyParts` take the branch of
`do_handle_task` that sets progress 1 and returns without chunks.

### AgentGraph

`nodes`, `parent` and `edges` are the store's nodes with `parentId` and its edges; `form` holds,
of a Switch, where its conditions lead, since that is kept a second time next to the edges;
`created` and `open` are the ref and the list of the drag that ends on the pane. One action
per gesture: `Connect` (behind `isValidConnection`), `AddNext`, `AddBelow`, `DragToPane`,
`Pick`, `Dismiss`, `CutEdge`, `DeleteNode` (three store functions, by operator), `RemoveTool`,
`ClearHandle`, `PressDelete` (React Flow's own collection of children, then
`handleBeforeDelete`), `AddCase`, `RemoveCase`, `Duplicate`. `Label` is the operator in a node
id and `Fresh` the ids `humanId()` may produce, those nothing mentions. Connections may start
at an input, since the page uses React Flow's loose mode. `DslEdges`, `Components` and
`Successors` are the DSL a save would send.

### CanvasRun

`path[idx..to]` is the batch. `StartBatch` looks at the cancel flag, `Defer` and `CreateTask` are
the loop of `_run_batch` over the batch, `RunTask` runs or fails one of its tasks, in any order,
`Gathered` is the end of `gather()`, `Post` the post-processing of one component (`Onward` and
`Lead` say where it leads), and `FailedRun`, `Pause`, `Finish` and `NextBatch` the end of the batch.
`Run` is a message: it starts from `stored`, the path in the agent's row (`Resume`). `Cancel`,
`Crash` and `Reset` come from outside at any step. A DSL is a record of functions (`WellFormed`);
`MCCanvasRun` has eight, each for one way a path is extended, and three more for the findings (the
last in `MCCanvasRunJoin.cfg`, which is none of the runs below).

`CanvasShapes` names the shapes of DSLs that some proofs assume: nothing in the code demands them,
and the findings show agents without. Most are about a set `P` of pairs of components, which
`Together` asks to hold every pair that a batch may hold, in this order, as far as the edges tell:
two of one list, and what the first and the second of a pair lead to. In such a `P` nothing may stand behind what it refers to
(`Ordered`), no fill-up beside anything else (`Asking`), and no group, nor what is in one, beside
anything (`GroupsAlone`). An agent without forks has no pairs at all. `RunShapes` in `MCCanvasRun` is no
assumption of a proof: it makes TLC compute the least such `P` of each agent, as a fixpoint, and
check that the eight agents have all these shapes, so that the theorems speak of them too, and that
each of the other three lacks the one that its finding is about. A Switch may take any of its
cases, a Loop's condition may hold or not. Outputs are item numbers, so that the results of an
Iteration can be compared with its items.

## What is checked

The lock run checks for deadlock: some client can always go on. The others use `CHECK_DEADLOCK
FALSE`: users may stop calling and the bounded counters run out. Symmetry is used only in runs
without liveness properties, on parts with text, on tasks and executors.

| Run | Instance | Shows |
| --- | --- | --- |
| `lock` | five clients, three with `acquire`, two spinning, one of each overrunning its lease; distinct values | types; mutual exclusion of the punctual; the value under the key names its writer; nobody removes another's lease; every lease ends; `MutexLock` is implemented |
| `queue` | 2 tasks, 2 executors with 2 slots, 1 crash, 1 failed call | types; no task that still shows progress is without a message; every message is acknowledged, or forgotten after a failed call |
| `queue_faults` | 2 tasks, 2 executors, 2 failed calls, 3 crashes | a delivered message has exactly one owner or is acknowledged; a handler owns its message; at most three starts; `WorkQueue` is implemented |
| `ingest` | a part with text and an empty one, one run, 3 crashes | every task ends at 1 or -1, abandoned at its fourth delivery if need be |
| `ingest_stop` | 2 parts; run, cancel, delete; 1 crash, 1 error | between calls, DONE of the first run means every part is in the store; a canceled task leaves no chunk; CANCEL is final; handlers of a removed document have been told and leave nothing |
| `ingest_rerun` | 1 part, 2 runs; run with `delete` false, parse, stop, rm; 3 calls, 1 crash | types; the dataset never counts fewer chunks than its document; at rest, DONE without a failed part means every part is in the store |
| `editor` | Begin, a Switch, two agents, a tool, an Iteration and its start, a placeholder; 4 nodes, 3 connections at a time | types; no cycle; no edge across groups; every successor in the DSL exists; entries stay; the placeholder goes with its list |
| `canvas` | 8 agents, 3 messages, 1 failed component | types; joins wait, never run beside what they refer to, and have read all of it; items mapped in order; loops bounded; ExitLoop ends them; an answer continues; every run ends |
| `ingest_rm` | 1 part, run then rm | violated, see Findings |
| `ingest_reuse` | 2 parts, run, cancel, run again | violated, see Findings |
| `canvas_items` | an Iteration whose body forks | violated, see Findings |
| `canvas_pause` | a fill-up beside another branch | violated, see Findings |

Why the bounds are enough. Three crashes are what it takes to reach the fourth delivery
of a message, where the task is abandoned. Two executors with two slots have every
pair of handlers that can disturb each other: of one message stream, in one process, and
across processes; liveness is checked with one crash and one failed call there, safety with three
and two in `queue_faults`. Two parts distinguish "all tasks" from "some task" in the summary, and let a
canceled task delete what another inserted; the empty part adds the branch without chunks.
The run over two runs has one part: with two, the interleavings of four handlers, the
server and the calls are beyond a few minutes of TLC. Two runs are one and its successor;
the code never looks further back, since `queue_tasks` deletes all earlier rows. Three
calls are a run, what stops it, and what follows. Five clients of the lock are one of
each kind more than needed for one to hold, one to wait and one to have died.

Of the editor's gestures none looks further than from a node to what hangs on it: four
nodes and three connections hold a group with its start and a child, an agent with a
sub-agent and that one's tool, a placeholder with its source in a group, and a cycle of
three; nodes come and go, so that sequences of gestures have no bound. There is at most one
Iteration, as its start has one id per page load (a hazard). The two agents are interchangeable. What
is checked there is proved for any number. Three messages are a first one, one that continues or
begins anew, and one after that; the agents are small because a path only depends on the
component at hand and its neighbours. One failing component shows the exception branch, the
default value and the failed run.

Fairness. `TaskQueue`: a `queue_tasks` call that inserted its row goes on to publish;
`main` polls in an endless loop; handlers end, because `do_handle_task` and the
model calls have timeouts; `entrypoint.sh` restarts an executor in a loop. `RedisLock`:
Redis expires keys by itself, and every section ends in a `finally`. `CanvasRun`: a component's
invocation ends, at the latest with COMPONENT_EXEC_TIMEOUT (`agent/component/base.py`), and
the run is one coroutine that goes on. `DocIngest`: an
accepted call is carried out, handlers end, the summary thread loops for ever. All
of it is weak fairness; user calls, crashes, errors and faults have none.

What some properties leave out, because the code does not do it. `NoStrandedTask` speaks of
behaviours without a failed database or Redis call (`faults = 0`). `CanceledLeavesNothing` and
`RemovedLeavesNothing` speak of behaviours without a crash: an executor that dies between inserting
the chunks of a document that is being canceled or removed and the `finally` clause leaves them, and
`collect` refuses the task afterwards without deleting anything. These two and `DoneIsIndexed` speak
of the first run (`runs <= 1`): the handlers of a run that was replaced have lost their rows without
getting a flag, so that they go on inserting, deleting and summing up for the next. `RerunIsIndexed`
covers later runs, at rest and without a failed or abandoned part: a handler of the previous run
that read its tasks as finished may write DONE over the FAIL of the new run. `RemovedIsCanceled` is
about the last run for the same reason. `EventuallyAcked` excepts the messages an executor forgot
after a failed call. `KbCoversDocument` allows for the handlers that are between the two statements
of `increment_chunk_num`, and for one chunk per executor that died, maybe there. A run of a finished
document without the `delete` key breaks it: `clear_chunk_num_when_rerun` takes the chunks off the
dataset and `queue_tasks` gives those it reuses back to the document only; run `ingest_rerun` and
the theorem are about the other calls. `JoinReads`, `ItemsMapped`, `LoopBounded` and `ExitEnds`
speak of the first message of a conversation (`FirstRun`), since in later ones the path of the
earlier counts as already run; `JoinReads` also allows for references to components that failed.
`SuccessorsExist` excepts tools, whose input accepts any connection. "Every document ends" is no
property: a summary read before any task started may put RUNNING back after DONE (`_sync_progress`),
though every task ends (`TasksEnd`). All of these are hazards in `PROJECT.json`.

## Findings

1. **`rm` tells nobody.** `FileService.delete_docs` (behind `POST /document/rm`) deletes
   the task rows before `remove_document` runs. `cancel_all_task_of` then finds no row and
   sets no flag, although the comment there says that all running tasks are canceled first.
   A handler goes on for a document that is gone (run `ingest_rm`).
   `DELETE /datasets/<id>/documents` has the order right (run `ingest_stop`).
2. **Reuse of chunks that are gone.** `reuse_prev_task_chunks` trusts `chunk_ids` of a
   finished task row. A canceled sibling task, or `stop_parsing`, deletes all chunks of the document
   and leaves those ids. The next run without `delete` takes them over and never parses
   the part again (run `ingest_reuse`).
3. **One item, several times.** Every leaf of an Iteration's body leads back to the item, and
   only the last of the path is looked at before it is appended. With branches of different
   length the item advances once per leaf: results are collected from unfinished branches,
   and what follows the Iteration finds results that are not one per item (run
   `canvas_items`). With a body that is a chain all is well, also behind one fork and before another
   (run `canvas`, theorem `ItemsAreMapped`).
4. **An answer that starts anew.** A run that stops at a fill-up stores the pending part of the
   path with the fill-ups first, and the next message goes on only if the last of the path is a
   fill-up. With a pending component of another branch the workflow starts at Begin
   again (run `canvas_pause`). With nothing beside the fill-up the answer continues (run
   `canvas`, theorem `AnswersContinue`).
5. **A join beside its input.** A component waits for what is not yet in the path before it, its own
   batch included. With a fork to `c` and `b`, in this order, `c` leading to `d` and both `d` and
   `b` to `j`, the second batch is `d`, `j`: `j` does not wait for `d`, reads its input before `d`
   has run, and is not appended again behind `d`, because it is the last of the path already. It
   runs once, without `d`'s result (`tlc -config MCCanvasRunJoin.cfg MCCanvasRun` finds `JoinReads`
   violated). With the branches drawn the other way round it waits (run `canvas`, theorem
   `JoinsRead`). The attempt to prove `JoinReads` from `JoinWaits` led here.

## What is proved

`RedisLockProofs` (for every set of clients, and `Token`):

* `LockTypeCorrect`, `LockKeyNamesWriter`: inductive together, whatever the values,
  shared ones included. `KeyNamesWriter` is what makes deleting by value the same as deleting
  by owner.
* `LockMutualExclusion`: under `UniqueTokens`, from `TypeOK`, `KeyNamesWriter` and `HolderOwnsKey` (the key
  belongs to the punctual client that believes to hold the lock), which is the inductive invariant;
  exclusion alone is not inductive, since `Grab` must know that a free key means no holder.
* `LockNoForeignRelease`: the action property under `UniqueTokens`, overrunning clients included.
* `LockImplementsMutexLock`: every step of `RedisLock` is a step of `MutexLock` or leaves
  the punctual holders alone, under `UniqueTokens`.

`TaskQueueProofs` (for every set of tasks and executors, every number of slots, every
bound on messages, crashes and faults):

* `QueueTypeCorrect`, `QueueDeliversOnce`, `QueueHandlerOwns`: together they are
  inductive. A message in hand must be known to be pending at that executor before
  `Close` can be shown to move it to `acked`, and the iterator must be known to hold
  only pending messages.
* `QueueBoundsAttempts`: the inductive invariant bounds `starts` by `retry` while a task
  has one message, says that a `selected` handler's `seen` is the row's `retry`, and
  that the message is with one executor only (from the two before).
* `QueueImplements`: every step is one step of `WorkQueue` or invisible to it, faults and crashes
  included. Two lemmas carry it: what taking a message into hand and what letting it go do
  to the abstract queue. A crash returns all messages of its executor at once, which needs
  `DeliveredOnce`: no other executor has any of them.
* `QueueStrandsNoTask`: without a failed call every task was published at most once, and a handler
  that is about to acknowledge, or has, left a task that ended or was canceled (`StrandInv`). That
  nothing starts an ended task again needs that the task's one message is with one executor.

`DocIngestProofs` and the two modules that extend it (for every finite set of parts, with or without
text, every set of calls unless said otherwise, and every bound on runs, calls, crashes and errors):

* `DocTypeOK`: the invariant must say what may be left of
  a call (`ApiOK`: one of 28 sequences of statements), that a call about to insert a run has room
  for it, and that a summary about to be written has a state to write. A call's statements are told
  apart by a number (`Tag`), which keeps the comparison of sequences out of all other proofs.
* `DocCancelIsFinal`: a canceled document changes only by a statement of a call: executing one shows in `api`,
  and every handler and summary step is shown to leave a canceled document alone.
* `DocBookkeeping`: `DocInv`, on which everything below rests. A task is unpublished, waiting, leased or
  completed; a handler works on leased tasks only; the rows are those of the last run or none,
  and none while they are deleted; of a run that is not inserted nothing exists; a task
  at work shows progress; a task's chunk ids are of its part.
* `DocRerunIsIndexed`: as long as nobody canceled, done tasks, handlers past the insertion, and the parts
  a call takes over have their chunks in the store, but for the moment when a parse call has deleted
  chunks and not yet rows (`RerunInv`). `stop_parsing` deletes chunks too, after its flags.
* `DocKbCoversDocument` (unless `run` without the `delete` key is called): what the dataset counts, with
  what is being or was never counted, is at least `chunk_num` and at least anything that can
  still be written there: the rows counted so far, from which `queue_tasks` plans, and the
  parts it has planned. While a call has uncounted the document and not yet reset it, only
  the sum is kept from becoming negative.
* `DocDoneIsIndexed`: `FirstInv` is about DONE wherever it is: in the row, or in a summary that any process
  has read and may write any time later. In the first run a flag means that the document is
  canceled, removed or about to be, so that a cancellation cannot take chunks from under DONE.
* `DocCanceledLeavesNothing`: a task that ended as -1 has chunks in the store only while its own `finally`
  clause is still to come, and one that was not yet inserted has none.
* `DocRemovedIsCanceled`, `DocRemovedLeavesNothing` (unless `/document/rm` is called): a task that can still be worked
  on has a row or a flag, a flag once the document is about to go; and as long as chunks are
  there after `remove_document` deleted them, some handler with a flag has its `finally` clause to come.

The two assumptions on `Requests` are about the program's callers, and needed: with `rm` the run
`ingest_rm` violates `RemovedIsCanceled` (finding 1), and the count is broken as described above. The conditions
`runs <= 1` and `crashes = 0` are part of the properties, for the reasons given there.

`AgentGraphProofs` (for every set of ids, with any operators in them, every list of conditions,
every bound):

* `Typed`, `NeverCyclic`, `GroupsStayClosed`, `DslIsClosed` follow from `IInv`, which is
  inductive: acyclicity, closed groups, that what serves an agent (a sub-agent, a tool) has one
  owner and no other input, that every edge but those two kinds ends on the canvas, and that groups are
  Iterations and the placeholder a placeholder. Acyclicity is not inductive alone: an operator
  chosen for a placeholder gets an edge without a check, which is harmless because its id is
  fresh. Closed groups need that children leave with their group, and `DslIsClosed` needs the
  owner, since an agent's deletion drops what is below it without looking at its edges.
* `EntriesStay`, `PlaceholderGoes`: action properties, one case per gesture.

`CanvasRunProofs` (for every set of well-formed DSLs, number of messages and of faults):

* `Typed`, `ReferencesPrecede`: `IInv` adds to the types where `pos` and `todo` are in the batch, and
  that a path begins with Begin or a fill-up. The core is that `Defer` removes the position that
  was looked at, never one before it, so that what already has a task keeps everything it refers to.
* `StaysApart`, `AnswersContinue`, `JoinsRead` hold for agents with forks and rest on one invariant,
  `InOrder(P)`, for any `P` with `Together`: two components of the batch are a pair of `P`, so are
  two that have been put behind it, and these come out of components of the batch that have been
  post-processed. The lists of two components go behind the path one after the other, and
  `_extend_path` leaves out the first of the second only if it is the last of the path: this
  is where the order of `P` comes from, and why a component may follow itself in it.
* `StaysApart`, if agents are `Ordered` (it is false in finding 5): no batch holds a component behind
  one it refers to.
* `AnswersContinue`, if agents are `Asking` (it is false in finding 4): what a run that stops for the user
  leaves in the batch, and so in the path stored for an answer, is fill-ups only (`FillUpStored`),
  through failures, cancellations, crashes and resets.
* `JoinsRead`, if agents are `Ordered`, groups are entered at their item only and references stay in
  scope (`Wired`). `JoinWaits` says that what a component refers to is in the path, not that it has run:
  the invariant (`ReadInv`) adds that what lies in earlier batches is settled, which means that it
  has an output, has failed, or is the item of an Iteration that ended or never started; that the
  body of an Iteration appears only behind a started item; and that the tasks are those of the
  batch.
* `ChainsRead`, under `Wired` and without forks: no pairs, so that `Ordered` holds.

`CanvasWalkProofs` (likewise; if an agent that iterates or loops is `Chained`: forks may stand before
and behind its groups, but put neither a group nor what is in one into a batch with anything else
(`GroupsAlone`), its groups are not nested and are entered at their items only, edges form no cycle
and cross no group, and an Iteration collects what its body ends with; with a fork in a body
`ItemsMapped` is false, finding 3):

* `ExitsEnd`, `LoopsEnd`, `ItemsAreMapped`, for the first message of a conversation, from one
  invariant (`WalkInv`) and `Solo`, which follows from `InOrder`: a group or what is in one is alone
  in its batch, and so is what it puts behind the path, unless that is outside of the groups
  again. From a group on the path is a walk along edges and back from the end of a body to its item,
  while outside of the groups branches interleave (`Aside` says that such a step changes nothing of the walk).
  Every component has a level, the rank of its group or its own among the edges, which never falls
  along the walk and grows where it leaves a group or an ExitLoop: nothing leads back to a group
  that was left (`ExitsEnd`). Between branches of a fork levels may fall, so that this says nothing
  of two components outside; that nothing which follows an Iteration is in the path before its item needs an
  invariant of its own (`ItemFirst`). What the code keeps in the outputs of a group, the index, the list of
  results and the count of rounds, is tied to where the walk is: nothing of a Loop ran more often
  than its index says, and what is still ahead in the round once less (`LoopsEnd`), and an Iteration
  has collected one result for each item before the present one (`ItemsAreMapped`).

The proofs use the assumptions on constants of each module (`QueueAssumption`, `LockAssumption`,
`IngestAssumption`, `GraphAssumption`, `CanvasAssumption`), which TLC evaluates in the runs.

Only model-checked:

* the liveness properties (`LeaseEndsEventually`, `EventuallyAcked`, `TasksEnd`, `RunEnds`): fairness and
  ENABLED are beyond the proof system.

`RemovedIsCanceled`, `ReusedChunksExist`, and for agents of any shape `ItemsMapped`, `AwaitContinues`,
`BatchesApart` and `JoinReads`, are false (findings 1 to 5).
`LoopBounded` and `ExitEnds` are proved for the shapes above only: with a fork in a Loop the path is no walk.

## Not modelled

* Of the queue: the memory and dataflow message types, the second stream (nothing
  publishes to it), `requeue_msg` and `get_pending_msg` (nothing calls them), the trimming of
  old cancel flags.
* Of ingestion: pipelines, RAPTOR, tables of contents and the questions an LLM adds to chunks, the
  splitting into pages itself, thumbnails, several documents of one dataset,
  two API calls at once. A part gives one chunk. A document whose pages yield no
  task at all is excluded by `IngestAssumption`.
* Of the editor: notes, positions and sizes, pipelines, Loop groups, the forms of operators other than
  Switch, a second Iteration in a session. The operators with one input and one output are one.
* Of a run: streamed contents, webhooks, memory and retrieval, history, an Iteration over
  something that is no list, two runs of one agent at once, the debugging of single components.
  Default values and results are abstract.
* The editor's session and the chat client write whole DSLs and lists of messages, and the
  last write wins; nothing in the code says what should survive. What can go
  wrong there is listed under the hazards.
* Retrieval and ranking, document parsers and LLM connectors are functions on data or
  wrappers of remote services; their failures appear as `Error` and `Fail`. Accounts, tenants,
  conversations, admin and most of the front end (the larger part of the repository's
  TypeScript: pages, forms and translations) are CRUD on single rows or user interface, with no
  state machine to speak of; this is why the mapped share of the lines is small.
* GraphRAG tasks, synchronisation logs, sandbox pools, MCP sessions and memory messages are
  left for later, heartbeats and rate limits are arithmetic on clocks.

## Plan

Done, in this order: `RedisLock` implementing `MutexLock`; `TaskQueue` implementing `WorkQueue`;
`DocIngest` over `WorkQueue`; `AgentGraph`; `CanvasRun`; the proofs above. Left, in this order:

1. `CanvasRun` on the DSLs of `AgentGraph`: every path the editor can draw.
2. Proofs: Loops whose body forks.
3. GraphRAG: the one-task-per-dataset check and the merge under a `RedisLock` whose clients share
   the value "batch_merge".
4. `SyncLogs`: the scheduling of synchronisations, with a process that dies.
5. The sandbox pool and MCP sessions.
