------------------------------ MODULE DocIngest ------------------------------
(***************************************************************************)
(* The life of a document in RAGFlow: the API that starts, cancels, stops, *)
(* repeats and removes its parsing; the tasks each run is cut into; the    *)
(* executors that turn a task into chunks of the document store; the       *)
(* counters of the document and of its dataset; and the progress that is   *)
(* summed up from the tasks into the document row.                         *)
(*                                                                         *)
(*  api/apps/document_app.py (run, rm), api/apps/sdk/doc.py (parse,        *)
(*  stop_parsing), api/db/services/document_service.py, task_service.py,   *)
(*  rag/svr/task_executor.py (do_handle_task, insert_chunks, handle_task). *)
(*                                                                         *)
(* The queue between the API and the executors is the abstract WorkQueue   *)
(* that TaskQueue implements.  Nobody locks the rows, the cancel flags and *)
(* the document store together: every INSERT, UPDATE, DELETE and every     *)
(* write to Redis or to the document store is a step of its own.           *)
(*                                                                         *)
(* One document, cut into Parts (page ranges) the same way in every run;   *)
(* each part gives one chunk.  A chunk id is a hash of the content and the *)
(* document id, so a part has the same chunk id in every run.              *)
(***************************************************************************)
EXTENDS Integers, Sequences, FiniteSets

CONSTANTS
  Parts,        \* page ranges of the document
  EmptyParts,   \* parts in which the parser finds no text
  MaxRuns,      \* bound: runs queued for the document
  Requests,     \* the API calls users make
  MaxRequests,  \* bound: how many
  MaxCrashes,   \* bound: handlers whose executor dies
  MaxErrors     \* bound: parser, model or document-store errors

\* POST /document/run with "delete" absent, true or false; the same with
\* run = CANCEL; POST and DELETE /datasets/<id>/chunks; POST /document/rm and
\* DELETE /datasets/<id>/documents.
RunCalls == {"run", "run-delete", "run-keep"}
Calls == RunCalls \cup {"cancel", "parse", "stop", "rm", "delete"}

ASSUME IngestAssumption ==
  /\ IsFiniteSet(Parts) /\ Parts # {}
  /\ EmptyParts \subseteq Parts
  /\ Requests \subseteq Calls
  /\ MaxRuns \in Nat /\ MaxRequests \in Nat /\ MaxCrashes \in Nat /\ MaxErrors \in Nat

Job == (1 .. MaxRuns) \X Parts  \* a task: the run that queued it, and its part
Part(j) == j[2]

\* Progress of a task and of the document: 0, in between, 1 and -1.
Zero == 0
Some == 1
Full == 2
Bad == -1
Unfinished == {Zero, Some}

VARIABLES
  run,        \* document.run; "gone" when the row is deleted
  docProg,    \* document.progress
  docChunks,  \* document.chunk_num
  kbChunks,   \* knowledgebase.chunk_num
  rows,       \* task rows in the database
  prog,       \* task.progress
  ids,        \* task.chunk_ids
  tries,      \* task.retry_count
  flag,       \* tasks with a "<id>-cancel" key in Redis
  store,      \* parts whose chunk is in the document store
  todo, leased, done,  \* the queue
  stage,      \* where the handler of a task is
  snap,       \* what a _sync_progress call computed and has not written yet
  api,        \* statements the current API call has still to execute
  reused,     \* parts whose chunks queue_tasks takes over from the last run
  pruned,     \* chunks of the last run queue_tasks is to delete
  unsent,     \* tasks queue_tasks has still to publish
  runs, requests, crashes, errors

docVars == <<run, docProg, docChunks, kbChunks>>
taskVars == <<rows, prog, ids, tries>>
queueVars == <<todo, leased, done>>
procVars == <<stage, snap>>
planVars == <<reused, pruned, unsent, runs>>
apiVars == <<api, requests, planVars>>
vars == <<docVars, taskVars, flag, store, queueVars, procVars, apiVars, crashes, errors>>

Queue == INSTANCE WorkQueue

Idle == "idle"
NoSnap == [run |-> "none", prog |-> Zero]
Server == <<0, "server">>  \* the update_progress thread of the API server

Init ==
  /\ run = "UNSTART" /\ docProg = Zero /\ docChunks = 0 /\ kbChunks = 0
  /\ rows = {} /\ flag = {} /\ store = {}
  /\ prog = [j \in Job |-> Zero]
  /\ ids = [j \in Job |-> {}]
  /\ tries = [j \in Job |-> 0]
  /\ Queue!Init
  /\ stage = [s \in Job \cup {Server} |-> Idle]
  /\ snap = [s \in Job \cup {Server} |-> NoSnap]
  /\ api = <<>> /\ reused = {} /\ pruned = {} /\ unsent = {}
  /\ runs = 0 /\ requests = 0 /\ crashes = 0 /\ errors = 0

----------------------------------------------------------------------------
(* API calls.  A call reads what its precondition asks for; api is then    *)
(* the list of the statements it will execute.                             *)

Call(r, statements) ==
  /\ api = <<>>
  /\ run # "gone"
  /\ r \in Requests
  /\ requests < MaxRequests
  /\ requests' = requests + 1
  /\ api' = statements
  /\ UNCHANGED <<docVars, taskVars, flag, store, queueVars, procVars, planVars,
                 crashes, errors>>

StartsRun == runs < MaxRuns

QueueTasks == <<"plan", "rows", "prune", "chunks", "insert", "begin", "publish">>

\* Mutant: clear_chunk_num_when_rerun whatever the document's state is.
RunUncounting(r) ==
  /\ r \in RunCalls /\ StartsRun
  /\ Call(r, <<"uncount">>
        \o (IF r = "run-delete" THEN <<"mark-empty", "rows", "store">> ELSE <<"mark">>)
        \o QueueTasks)

\* POST /document/run, run = RUNNING; clear_chunk_num_when_rerun for a DONE
\* document unless "delete" is false.
Run(r) ==
  /\ r \in RunCalls /\ StartsRun
  /\ Call(r, (IF r # "run-keep" /\ run = "DONE" THEN <<"uncount">> ELSE <<>>)
        \o (IF r = "run-delete" THEN <<"mark-empty", "rows", "store">> ELSE <<"mark">>)
        \o QueueTasks)

\* POST /document/run, run = CANCEL.
CancelRun ==
  /\ run \in {"RUNNING", "CANCEL"} \/ \E j \in rows : prog[j] # Full
  /\ Call("cancel", <<"flags", "cancel">>)

\* POST /datasets/<id>/chunks.
SdkParse ==
  /\ StartsRun
  /\ docProg # Some
  /\ Call("parse", <<"mark-empty", "store", "rows">> \o QueueTasks)

\* DELETE /datasets/<id>/chunks: stop_parsing.
SdkStop ==
  /\ docProg \notin {Zero, Full}
  /\ Call("stop", <<"flags", "stop", "store">>)

\* DocumentService.remove_document.
RemoveDocument == <<"uncount", "flags", "rows", "store", "drop">>

\* Mutant: the task rows are deleted before the flags are set.
RemoveRowsFirst == Call("delete", <<"uncount", "rows", "flags", "store", "drop">>)

\* DELETE /datasets/<id>/documents.
SdkDelete == Call("delete", RemoveDocument)

\* POST /document/rm: FileService.delete_docs deletes the task rows first.
Rm == Call("rm", <<"rows">> \o RemoveDocument)

----------------------------------------------------------------------------
(* The statements of a call.                                               *)

Statement(s) ==
  /\ api # <<>> /\ Head(api) = s
  /\ api' = Tail(api)
  /\ UNCHANGED <<requests, tries, queueVars, procVars, crashes, errors>>

\* clear_chunk_num, clear_chunk_num_when_rerun.
UncountDocument ==
  /\ Statement("uncount")
  /\ kbChunks' = kbChunks - docChunks
  /\ UNCHANGED <<run, docProg, docChunks, rows, prog, ids, flag, store, planVars>>

\* update_by_id(id, info) of run and parse.
MarkRunning ==
  /\ \/ Statement("mark") /\ UNCHANGED docChunks
     \/ Statement("mark-empty") /\ docChunks' = 0
  /\ run' = "RUNNING" /\ docProg' = Zero
  /\ UNCHANGED <<kbChunks, rows, prog, ids, flag, store, planVars>>

\* The same for a cancellation; stop_parsing also zeroes chunk_num.
MarkCanceled ==
  /\ \/ Statement("cancel") /\ UNCHANGED docChunks
     \/ Statement("stop") /\ docChunks' = 0
  /\ run' = "CANCEL" /\ docProg' = Zero
  /\ UNCHANGED <<kbChunks, rows, prog, ids, flag, store, planVars>>

\* cancel_all_task_of.
SetFlags ==
  /\ Statement("flags")
  /\ flag' = flag \cup rows
  /\ UNCHANGED <<docVars, rows, prog, ids, store, planVars>>

\* TaskService.filter_delete.
DeleteRows ==
  /\ Statement("rows")
  /\ rows' = {}
  /\ UNCHANGED <<docVars, prog, ids, flag, store, planVars>>

\* docStoreConn.delete({"doc_id": ...}).
DeleteChunks ==
  /\ Statement("store")
  /\ store' = {}
  /\ UNCHANGED <<docVars, rows, prog, ids, flag, planVars>>

DropDocument ==
  /\ Statement("drop")
  /\ run' = "gone"
  /\ UNCHANGED <<docProg, docChunks, kbChunks, rows, prog, ids, flag, store, planVars>>

----------------------------------------------------------------------------
(* queue_tasks.                                                            *)

\* A task of the previous run whose result reuse_prev_task_chunks takes over.
Reusable == {j \in rows : prog[j] = Full /\ ids[j] # {}}

\* Mutant: the chunks of reused tasks are pruned with the others.
PlanTasksPruning ==
  /\ Statement("plan")
  /\ reused' = {Part(j) : j \in Reusable}
  /\ pruned' = UNION {ids[j] : j \in rows}
  /\ UNCHANGED <<docVars, rows, prog, ids, flag, store, unsent, runs>>

\* get_tasks and reuse_prev_task_chunks, on the rows as they are now.
PlanTasks ==
  /\ Statement("plan")
  /\ reused' = {Part(j) : j \in Reusable}
  /\ pruned' = UNION {ids[j] : j \in rows \ Reusable}
  /\ UNCHANGED <<docVars, rows, prog, ids, flag, store, unsent, runs>>

\* docStoreConn.delete({"id": pre_chunk_ids}).
PruneChunks ==
  /\ Statement("prune")
  /\ store' = store \ pruned
  /\ pruned' = {}
  /\ UNCHANGED <<docVars, rows, prog, ids, flag, reused, unsent, runs>>

\* update_by_id(id, {"chunk_num": ck_num}).
SetChunkNum ==
  /\ Statement("chunks")
  /\ docChunks' = Cardinality(reused)
  /\ UNCHANGED <<run, docProg, kbChunks, rows, prog, ids, flag, store, planVars>>

\* bulk_insert_into_db(Task, ...).
InsertTasks ==
  /\ Statement("insert")
  /\ runs' = runs + 1
  /\ LET new == {<<runs + 1, p>> : p \in Parts} IN
       /\ rows' = rows \cup new
       /\ prog' = [j \in Job |->
            IF j \in new /\ Part(j) \in reused THEN Full ELSE prog[j]]
       /\ ids' = [j \in Job |->
            IF j \in new /\ Part(j) \in reused THEN {Part(j)} ELSE ids[j]]
       /\ unsent' = {j \in new : Part(j) \notin reused}
  /\ reused' = {}
  /\ UNCHANGED <<docVars, flag, store, pruned>>

\* begin2parse.
BeginParse ==
  /\ Statement("begin")
  /\ run' = "RUNNING" /\ docProg' = Some
  /\ UNCHANGED <<docChunks, kbChunks, rows, prog, ids, flag, store, planVars>>

\* queue_product, one message per unfinished task.
PublishTask ==
  /\ api # <<>> /\ Head(api) = "publish"
  /\ \E j \in unsent :
       /\ Queue!Submit({j})
       /\ unsent' = unsent \ {j}
  /\ UNCHANGED <<docVars, taskVars, flag, store, procVars, api, requests, reused,
                 pruned, runs, crashes, errors>>

PublishDone ==
  /\ Statement("publish")
  /\ unsent = {}
  /\ UNCHANGED <<docVars, rows, prog, ids, flag, store, planVars>>

----------------------------------------------------------------------------
(* The executor: collect.                                                  *)

SetStage(j, s) == stage' = [stage EXCEPT ![j] = s]

\* TaskService.update_progress on task j.
UpdateProgress(j, p) ==
  prog' = IF j \in rows /\ prog[j] # Bad /\ (p = Bad \/ p > prog[j])
            THEN [prog EXCEPT ![j] = p] ELSE prog

\* Mutant: an abandoned task is not set to -1.
CountAttemptAlive(j) ==
  IF j \in rows
    THEN /\ tries' = [tries EXCEPT ![j] = @ + 1]
         /\ prog' = [prog EXCEPT ![j] = Some]
    ELSE UNCHANGED <<tries, prog>>

\* get_task: count the attempt and reset the progress of a row that exists.
CountAttempt(j) ==
  IF j \in rows
    THEN /\ tries' = [tries EXCEPT ![j] = @ + 1]
         /\ prog' = [prog EXCEPT ![j] = IF tries[j] >= 3 THEN Bad ELSE Some]
    ELSE UNCHANGED <<tries, prog>>

\* The task is gone, abandoned after three attempts, or canceled: acknowledge.
Refused(j) == j \notin rows \/ tries[j] >= 3 \/ j \in flag

Collect(j) ==
  /\ Queue!Lease(j)
  /\ CountAttempt(j)
  /\ SetStage(j, IF Refused(j) THEN "refused" ELSE "begin")
  /\ UNCHANGED <<docVars, rows, ids, flag, store, snap, apiVars, crashes, errors>>

Refuse(j) ==
  /\ stage[j] = "refused"
  /\ Queue!Complete(j)
  /\ SetStage(j, Idle)
  /\ UNCHANGED <<docVars, taskVars, flag, store, snap, apiVars, crashes, errors>>

----------------------------------------------------------------------------
(* The executor: do_handle_task.  Stages in the order of the code; in the  *)
(* stages of Checks the handler reads the cancel flag next.                *)

NextStage ==
  [begin |-> "build", ready |-> "insert", inserted |-> "record",
   recorded |-> "count", counted |-> "finish"]
Checks == DOMAIN NextStage

\* has_canceled between two statements, and in every progress callback: a
\* canceled task becomes -1 and leaves, through the finally clause once the
\* insertion has begun.
Check(j) ==
  /\ stage[j] \in Checks
  /\ IF j \in flag
       THEN /\ UpdateProgress(j, Bad)
            /\ SetStage(j, IF stage[j] = "begin" THEN "record-log" ELSE "cleanup")
       ELSE /\ SetStage(j, NextStage[stage[j]])
            /\ UNCHANGED prog
  /\ UNCHANGED <<docVars, rows, ids, tries, flag, store, queueVars, snap, apiVars,
                 crashes, errors>>

\* build_chunks and embedding; "No chunk built": prog=1.0 and return.  Their
\* progress callbacks raise TaskCanceledException, but only while the task has
\* a row (set_progress swallows DoesNotExist).
Build(j) ==
  /\ stage[j] = "build"
  /\ UpdateProgress(j, IF j \in flag THEN Bad
                       ELSE IF Part(j) \in EmptyParts THEN Full ELSE prog[j])
  /\ SetStage(j, IF Part(j) \in EmptyParts \/ j \in flag \cap rows
                   THEN "record-log" ELSE "ready")
  /\ UNCHANGED <<docVars, rows, ids, tries, flag, store, queueVars, snap, apiVars,
                 crashes, errors>>

\* docStoreConn.insert.
InsertChunks(j) ==
  /\ stage[j] = "insert"
  /\ store' = store \cup {Part(j)}
  /\ SetStage(j, "inserted")
  /\ UNCHANGED <<docVars, taskVars, flag, queueVars, snap, apiVars, crashes, errors>>

\* TaskService.update_chunk_ids.
RecordIds(j) ==
  /\ stage[j] = "record"
  /\ ids' = IF j \in rows THEN [ids EXCEPT ![j] = {Part(j)}] ELSE ids
  /\ SetStage(j, "recorded")
  /\ UNCHANGED <<docVars, rows, prog, tries, flag, store, queueVars, snap, apiVars,
                 crashes, errors>>

\* DocumentService.increment_chunk_num: the document ...
CountChunks(j) ==
  /\ stage[j] = "count"
  /\ docChunks' = IF run = "gone" THEN docChunks ELSE docChunks + 1
  /\ SetStage(j, "count-kb")
  /\ UNCHANGED <<run, docProg, kbChunks, taskVars, flag, store, queueVars, snap,
                 apiVars, crashes, errors>>

\* ... then the dataset, even when the document row is gone.
CountKbChunks(j) ==
  /\ stage[j] = "count-kb"
  /\ kbChunks' = kbChunks + 1
  /\ SetStage(j, "counted")
  /\ UNCHANGED <<run, docProg, docChunks, taskVars, flag, store, queueVars, snap,
                 apiVars, crashes, errors>>

\* set_progress(prog=1.0); the flag was read before.
Finish(j) ==
  /\ stage[j] = "finish"
  /\ UpdateProgress(j, Full)
  /\ SetStage(j, "cleanup")
  /\ UNCHANGED <<docVars, rows, ids, tries, flag, store, queueVars, snap, apiVars,
                 crashes, errors>>

\* Mutant: no finally clause.
CleanupForgotten(j) ==
  /\ stage[j] = "cleanup"
  /\ SetStage(j, "record-log")
  /\ UNCHANGED <<docVars, taskVars, flag, store, queueVars, snap, apiVars, crashes, errors>>

\* The finally clause: a canceled task removes every chunk of its document.
Cleanup(j) ==
  /\ stage[j] = "cleanup"
  /\ store' = IF j \in flag THEN {} ELSE store
  /\ SetStage(j, "record-log")
  /\ UNCHANGED <<docVars, taskVars, flag, queueVars, snap, apiVars, crashes, errors>>

\* The parser, the embedding model or the document store fails: -1, then
\* handle_task catches the exception.
Error(j) ==
  /\ stage[j] \in {"build", "insert"}
  /\ errors < MaxErrors
  /\ errors' = errors + 1
  /\ UpdateProgress(j, Bad)
  /\ SetStage(j, IF stage[j] = "build" THEN "record-log" ELSE "cleanup")
  /\ UNCHANGED <<docVars, rows, ids, tries, flag, store, queueVars, snap, apiVars, crashes>>

\* The executor dies; its message will be delivered again.
Crash(j) ==
  /\ stage[j] # Idle
  /\ crashes < MaxCrashes
  /\ crashes' = crashes + 1
  /\ Queue!Return({j})
  /\ SetStage(j, Idle)
  /\ snap' = [snap EXCEPT ![j] = NoSnap]
  /\ UNCHANGED <<docVars, taskVars, flag, store, apiVars, errors>>

\* redis_msg.ack().
AckTask(j) ==
  /\ stage[j] = "ack"
  /\ Queue!Complete(j)
  /\ SetStage(j, Idle)
  /\ UNCHANGED <<docVars, taskVars, flag, store, snap, apiVars, crashes, errors>>

----------------------------------------------------------------------------
(* _sync_progress: read the tasks, read the document, write the document.  *)
(* The server's thread calls it every six seconds and every executor when  *)
(* a task ends (record_pipeline_operation), without a common lock.         *)

\* get_unfinished_docs.
ServerChooses ==
  /\ stage[Server] = Idle
  /\ run \notin {"gone", "CANCEL"}
  /\ docProg = Some \/ \E j \in rows : prog[j] \in Unfinished
  /\ SetStage(Server, "record-log")
  /\ UNCHANGED <<docVars, taskVars, flag, store, queueVars, snap, apiVars, crashes, errors>>

\* Mutant: failed tasks are not told apart.
SummaryOptimistic ==
  IF \A j \in rows : prog[j] \notin Unfinished
    THEN [run |-> "DONE", prog |-> Full]
    ELSE [run |-> "unread",
          prog |-> IF \E j \in rows : prog[j] \in {Some, Full} THEN Some ELSE Zero]

\* What the task rows add up to: the run only if they have all ended.
Summary ==
  IF \A j \in rows : prog[j] \notin Unfinished
    THEN IF \E j \in rows : prog[j] = Bad
           THEN [run |-> "FAIL", prog |-> Bad]
           ELSE [run |-> "DONE", prog |-> Full]
    ELSE [run |-> "unread",
          prog |-> IF \E j \in rows : prog[j] \in {Some, Full} THEN Some ELSE Zero]

\* The call is over: the thread sleeps, the executor acknowledges.
SyncEnds(s) == SetStage(s, IF s = Server THEN Idle ELSE "ack")

\* "if not tsks: continue".
ReadTasks(s) ==
  /\ stage[s] = "record-log"
  /\ IF rows = {}
       THEN SyncEnds(s) /\ UNCHANGED snap
       ELSE SetStage(s, "read-doc") /\ snap' = [snap EXCEPT ![s] = Summary]
  /\ UNCHANGED <<docVars, taskVars, flag, store, queueVars, apiVars, crashes, errors>>

ReadDocument(s) ==
  /\ stage[s] = "read-doc"
  /\ IF run \in {"gone", "CANCEL"}
       THEN SyncEnds(s) /\ snap' = [snap EXCEPT ![s] = NoSnap]
       ELSE /\ SetStage(s, "write-log")
            /\ snap' = [snap EXCEPT ![s].run = IF @ = "unread" THEN run ELSE @]
  /\ UNCHANGED <<docVars, taskVars, flag, store, queueVars, apiVars, crashes, errors>>

\* Mutants: a canceled document is written as "none"; the UPDATE without
\* "run != CANCEL" in its WHERE.
WriteNone(s) ==
  /\ run' = IF run = "CANCEL" THEN "none" ELSE snap[s].run
  /\ docProg' = IF snap[s].prog = Zero THEN docProg ELSE snap[s].prog

WriteAlways(s) ==
  IF run # "gone"
    THEN /\ run' = snap[s].run
         /\ docProg' = IF snap[s].prog = Zero THEN docProg ELSE snap[s].prog
    ELSE UNCHANGED <<run, docProg>>

\* The UPDATE ... WHERE run != CANCEL; a sum of 0 is not written.
Write(s) ==
  IF run \notin {"gone", "CANCEL"}
    THEN /\ run' = snap[s].run
         /\ docProg' = IF snap[s].prog = Zero THEN docProg ELSE snap[s].prog
    ELSE UNCHANGED <<run, docProg>>

WriteDocument(s) ==
  /\ stage[s] = "write-log"
  /\ Write(s)
  /\ SyncEnds(s)
  /\ snap' = [snap EXCEPT ![s] = NoSnap]
  /\ UNCHANGED <<docChunks, kbChunks, taskVars, flag, store, queueVars, apiVars,
                 crashes, errors>>

----------------------------------------------------------------------------
ApiStatement ==
  \/ UncountDocument \/ MarkRunning \/ MarkCanceled \/ SetFlags \/ DeleteRows
  \/ DeleteChunks \/ DropDocument
  \/ PlanTasks \/ PruneChunks \/ SetChunkNum \/ InsertTasks \/ BeginParse
  \/ PublishTask \/ PublishDone

UserRequest ==
  \/ \E r \in RunCalls : Run(r)
  \/ CancelRun \/ SdkParse \/ SdkStop \/ SdkDelete \/ Rm

Sync(s) == ReadTasks(s) \/ ReadDocument(s) \/ WriteDocument(s)

Handle(j) ==
  \/ Collect(j) \/ Refuse(j) \/ Check(j) \/ Build(j) \/ InsertChunks(j)
  \/ RecordIds(j) \/ CountChunks(j) \/ CountKbChunks(j) \/ Finish(j) \/ Cleanup(j)
  \/ Sync(j) \/ AckTask(j)

Next ==
  \/ UserRequest \/ ApiStatement
  \/ \E j \in Job : Handle(j) \/ Error(j) \/ Crash(j)
  \/ ServerChooses \/ Sync(Server)

Spec == Init /\ [][Next]_vars

\* An accepted request is carried out, the queue delivers (TaskQueue), the
\* handlers end, and the server's thread runs for ever.
Fairness ==
  /\ WF_vars(ApiStatement)
  /\ WF_vars(ServerChooses \/ Sync(Server))
  /\ \A j \in Job : WF_vars(Handle(j))

FairSpec == Spec /\ Fairness

----------------------------------------------------------------------------
SyncStages == {"record-log", "read-doc", "write-log"}
Stages == {"refused", "build", "insert", "record", "count", "count-kb", "finish",
           "cleanup", "ack", Idle} \cup Checks \cup SyncStages
DocRuns == {"UNSTART", "RUNNING", "CANCEL", "DONE", "FAIL"}
Progress == {Zero, Some, Full, Bad}

TypeOK ==
  /\ run \in DocRuns \cup {"gone"}
  /\ docProg \in Progress
  /\ docChunks \in Int /\ kbChunks \in Int
  /\ rows \in SUBSET Job
  /\ prog \in [Job -> Progress]
  /\ ids \in [Job -> SUBSET Parts]
  /\ tries \in [Job -> Nat]
  /\ flag \in SUBSET Job
  /\ store \in SUBSET Parts
  /\ todo \in SUBSET Job /\ leased \in SUBSET Job /\ done \in SUBSET Job
  /\ stage \in [Job \cup {Server} -> Stages]
  /\ snap \in [Job \cup {Server} ->
               [run : DocRuns \cup {"none", "unread"}, prog : Progress]]
  /\ reused \in SUBSET Parts /\ pruned \in SUBSET Parts /\ unsent \in SUBSET Job

\* No call, handler or progress summary is under way and no message waits.
Quiet == api = <<>> /\ todo = {} /\ leased = {} /\ stage[Server] = Idle

FullParts == Parts \ EmptyParts

\* A document that shows DONE between two calls has the chunks of all its
\* parts in the document store, however often its tasks were delivered: in
\* the first run, no error, crash or late cancel leaves a DONE document that
\* retrieval searches in part only.
DoneIsIndexed ==
  api = <<>> /\ runs <= 1 /\ run = "DONE" => FullParts \subseteq store

\* The same once everything has come to rest, over runs that reuse, drop or
\* rebuild the chunks of the previous run while its handlers still work and
\* are delivered again.  When a part fails or is abandoned, a DONE that a
\* handler of the previous run summed up may be written over the FAIL; and
\* what a canceled run deleted may be reused (ReusedChunksExist).
RerunIsIndexed ==
  Quiet /\ run = "DONE" /\ flag = {} /\ (\A j \in rows : prog[j] # Bad)
    => FullParts \subseteq store

\* A canceled document stays CANCEL, at progress 0, until the user's next
\* call (the tests of stop_parsing assert both), although _sync_progress calls
\* that read it before the cancellation write their summary after it.
CancelIsFinal ==
  [][run = "CANCEL" /\ api' = api => run' = "CANCEL" /\ docProg' = docProg]_vars

\* A task that the cancellation turned to -1 leaves no chunk behind, at
\* whatever statement of do_handle_task the flag was seen; unless an executor
\* died before the finally clause, for collect refuses the task afterwards,
\* or a handler of an earlier run still inserts the same part.
CanceledLeavesNothing ==
  Quiet /\ runs <= 1 /\ run = "CANCEL" /\ crashes = 0 =>
    \A j \in rows \cap flag : prog[j] = Bad => Part(j) \notin store

\* Handlers between the two statements of increment_chunk_num.
HalfCounted == {j \in Job : stage[j] = "count-kb"}

\* Between two calls the dataset counts at least the chunks its document
\* counts, but for those of handlers that are about to count them or died
\* when they were: calls in any order never make knowledgebase.chunk_num
\* negative or too small.  (A run of a DONE document without the "delete" key
\* does: clear_chunk_num_when_rerun takes the chunks off the dataset, and
\* queue_tasks gives those it reuses back to the document only.)
KbCoversDocument ==
  api = <<>> =>
    kbChunks + Cardinality(HalfCounted) + crashes >=
      IF run = "gone" THEN 0 ELSE docChunks

\* Whoever still works on the last run of a removed document has been told to
\* stop (remove_document: "Cancel all running tasks first").
RemovedIsCanceled ==
  run = "gone" =>
    \A j \in leased : j[1] = runs => stage[j] = "refused" \/ j \in flag

\* A removed document leaves no chunk in the document store, even when its
\* handlers insert after remove_document deleted them, and fail; unless an
\* executor died before the finally clause, or a handler of an earlier run,
\* whose row queue_tasks deleted and no flag can name, still inserts.
RemovedLeavesNothing ==
  Quiet /\ runs <= 1 /\ run = "gone" /\ crashes = 0 => store = {}

\* A task whose row was inserted as done because the previous run's result is
\* reused ("The previous task has valid chunk IDs") has its chunks in the
\* document store when it is inserted.
ReusedChunksExist ==
  api # <<>> /\ Head(api) = "insert" => reused \subseteq store

\* A task that is neither canceled nor deleted ends at 1 or -1, however often
\* its executor dies: at the fourth delivery it is abandoned.
TasksEnd ==
  \A j \in Job : j \in rows ~> j \notin rows \/ j \in flag \/ prog[j] \in {Full, Bad}
=============================================================================
