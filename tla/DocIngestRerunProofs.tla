------------------------- MODULE DocIngestRerunProofs -------------------------
(***************************************************************************)
(* What repeated runs of a document leave in the document store, and in    *)
(* the chunk counters: knowledgebase.chunk_num covers document.chunk_num   *)
(* as long as nobody uses run without its "delete" key.  Proved for every  *)
(* set of parts, every set of API calls and every bound.                   *)
(***************************************************************************)
EXTENDS DocIngestProofs

\* stop_parsing deletes the chunks of rows it has flagged.
StopFlags == api \in {SStore, SStop} => rows \subseteq flag

\* As long as nothing was canceled, the parts whose task is done have their
\* chunks in the store; but between the two deletions of a parse call ...
DoneInStore ==
  api # PRows => \A j \in rows : prog[j] = Full => Part(j) \in store \cup EmptyParts

\* ... and so have the handlers that have inserted theirs,
LateInStore == api # PRows => \A j \in rows : stage[j] \in Late => Part(j) \in store

\* and the parts queue_tasks takes over, which it does not prune.
ReuseInStore == reused \subseteq store \cup EmptyParts /\ reused \cap pruned = {}

\* A handler that is done with its task, or a task nobody will work on any
\* more, has ended it.
Ending == {"cleanup", "record-log", "read-doc", "write-log", "ack"}
EndedOK ==
  \A j \in rows :
    /\ stage[j] = "refused" => prog[j] = Bad
    /\ stage[j] \in Ending => prog[j] \in {Full, Bad}
    /\ j \notin unsent \cup todo \cup leased => prog[j] \in {Full, Bad}

Uncanceled == DoneInStore /\ LateInStore /\ ReuseInStore /\ EndedOK

RerunInv == StopFlags /\ (flag = {} => Uncanceled)

\* While stop_parsing deletes chunks, its flags are set.
LEMMA RerunStopFlags ==
  ASSUME DocInv, StopFlags, [Next]_vars
  PROVE  StopFlags'
<1>1. TypeOK /\ ApiOK
  BY DEF DocInv, TypeInv
<1>2. CASE UserRequest
  <2>1. api' \notin {SStore, SStop}
    BY <1>2, CallCases, Tags
  <2> QED BY <2>1 DEF StopFlags
<1>3. CASE ApiStatement
  <2>1. CASE SetFlags
    BY <2>1 DEF SetFlags, docVars, StopFlags
  <2>2. CASE InsertTasks
    <3>1. api' = QBegin
      BY <2>2, NewJobs DEF DocInv
    <3> QED BY <3>1, Tags DEF StopFlags
  <2>3. CASE PublishTask
    BY <2>3 DEF PublishTask, taskVars, StopFlags
  <2>4. ASSUME NEW s, Statement(s), s # "flags"
        PROVE  api' \in {SStore, SStop} => api = SStop
    <3>1. CASE api \in Stopping
      BY <2>4, <3>1, StatementTable, Tags DEF Stopping
    <3>2. CASE api \notin Stopping
      BY <1>1, <2>4, <3>2, StatementPhases DEF Stopping
    <3> QED BY <3>1, <3>2
  <2>5. CASE UncountDocument \/ MarkRunning \/ MarkCanceled \/ DeleteChunks \/ DeleteRows
             \/ DropDocument \/ PlanTasks \/ PruneChunks \/ SetChunkNum \/ BeginParse
             \/ PublishDone
    <3>1. rows' \subseteq rows /\ flag' = flag
      BY <2>5
         DEF UncountDocument, MarkRunning, MarkCanceled, DeleteChunks, DeleteRows,
             DropDocument, PlanTasks, PruneChunks, SetChunkNum, BeginParse, PublishDone
    <3>2. api' \in {SStore, SStop} => api = SStop
      BY <2>4, <2>5
         DEF UncountDocument, MarkRunning, MarkCanceled, DeleteChunks, DeleteRows,
             DropDocument, PlanTasks, PruneChunks, SetChunkNum, BeginParse, PublishDone
    <3> QED BY <3>1, <3>2 DEF StopFlags
  <2> QED BY <1>3, <2>1, <2>2, <2>3, <2>5 DEF ApiStatement
<1>4. CASE (\E j \in Job : Handle(j) \/ Error(j) \/ Crash(j)) \/ ServerChooses \/ Sync(Server)
  BY <1>1, <1>4, ProcessFrame, ProcessRows DEF StopFlags
<1>5. CASE UNCHANGED vars
  BY <1>5 DEF vars, taskVars, apiVars, StopFlags
<1> QED BY <1>2, <1>3, <1>4, <1>5 DEF Next

\* Flags are never taken back.
LEMMA FlagsStay ==
  ASSUME [Next]_vars
  PROVE  flag \subseteq flag'
<1>1. CASE UserRequest
  BY <1>1, CallCases
<1>2. CASE ApiStatement
  BY <1>2
     DEF ApiStatement, UncountDocument, MarkRunning, MarkCanceled, SetFlags, DeleteRows,
         DeleteChunks, DropDocument, PlanTasks, PruneChunks, SetChunkNum, InsertTasks,
         BeginParse, PublishDone, PublishTask
<1>3. CASE (\E j \in Job : Handle(j) \/ Error(j) \/ Crash(j)) \/ ServerChooses \/ Sync(Server)
  BY <1>3
     DEF Handle, Sync, Collect, Refuse, Check, Build, InsertChunks, RecordIds, CountChunks,
         CountKbChunks, Finish, Cleanup, AckTask, Error, Crash, ServerChooses, ReadTasks,
         ReadDocument, WriteDocument
<1>4. CASE UNCHANGED vars
  BY <1>4 DEF vars
<1> QED BY <1>1, <1>2, <1>3, <1>4 DEF Next

\* Handlers, failing or dying too, keep what a run nobody canceled has in the
\* store.
LEMMA RerunHandler ==
  ASSUME DocInv, flag = {}, Uncanceled, NEW j \in Job, Handle(j) \/ Error(j) \/ Crash(j)
  PROVE  Uncanceled'
<1>1. TypeOK /\ StagesOK /\ QueueOK /\ ProgOK
  BY DEF DocInv, TypeInv, Book
<1>2. /\ UNCHANGED <<api, reused, pruned, unsent, rows>>
  BY <1>1, ProcessFrame, ProcessRows
<1>3. DoneInStore /\ LateInStore /\ ReuseInStore /\ EndedOK
  BY DEF Uncanceled
<1>4. \A k \in rows : k \in Job
  BY <1>1 DEF TypeOK
<1> USE DEF SetStage, Idle
<1>5. CASE Collect(j)
  <2>1. store' = store
    BY <1>5 DEF Collect
  <2>2. DoneInStore'
    BY <1>1, <1>2, <1>3, <1>5, <2>1 DEF Collect, CountAttempt, DoneInStore, TypeOK, Some, Full, Bad
  <2>3. LateInStore'
    BY <1>1, <1>2, <1>3, <1>5, <2>1 DEF Collect, LateInStore, TypeOK, Late
  <2>4. EndedOK'
    BY <1>1, <1>2, <1>3, <1>5
       DEF Collect, CountAttempt, Refused, Queue!Lease, EndedOK, Ending, TypeOK
  <2> QED BY <1>2, <1>3, <2>1, <2>2, <2>3, <2>4 DEF ReuseInStore, Uncanceled
<1>6. CASE Refuse(j) \/ AckTask(j)
  <2>1. store' = store /\ prog' = prog
    BY <1>6 DEF Refuse, AckTask, taskVars
  <2>2. LateInStore'
    BY <1>1, <1>2, <1>3, <1>6, <2>1 DEF Refuse, AckTask, LateInStore, TypeOK, Late
  <2>3. EndedOK'
    BY <1>1, <1>2, <1>3, <1>6, <2>1
       DEF Refuse, AckTask, Queue!Complete, EndedOK, Ending, TypeOK
  <2> QED BY <1>2, <1>3, <2>1, <2>2, <2>3 DEF DoneInStore, ReuseInStore, Uncanceled
<1>7. CASE Crash(j)
  <2>1. store' = store /\ prog' = prog
    BY <1>7 DEF Crash, taskVars
  <2>2. LateInStore'
    BY <1>1, <1>2, <1>3, <1>7, <2>1 DEF Crash, LateInStore, TypeOK, Late
  <2>3. EndedOK'
    BY <1>1, <1>2, <1>3, <1>7, <2>1
       DEF Crash, Queue!Return, EndedOK, Ending, TypeOK
  <2> QED BY <1>2, <1>3, <2>1, <2>2, <2>3 DEF DoneInStore, ReuseInStore, Uncanceled
<1>8. CASE Check(j)
  <2>1. store' = store /\ prog' = prog /\ stage' = [stage EXCEPT ![j] = NextStage[stage[j]]]
        /\ stage[j] \in Checks /\ UNCHANGED <<todo, leased>>
    BY <1>8 DEF Check, queueVars
  <2>2. LateInStore'
    BY <1>1, <1>2, <1>3, <2>1 DEF LateInStore, TypeOK, Late, Checks, NextStage
  <2>3. EndedOK'
    BY <1>1, <1>2, <1>3, <2>1 DEF EndedOK, Ending, TypeOK, Checks, NextStage
  <2> QED BY <1>2, <1>3, <2>1, <2>2, <2>3 DEF DoneInStore, ReuseInStore, Uncanceled
<1>9. CASE Build(j)
  <2>1. store' = store /\ UNCHANGED <<todo, leased>>
    BY <1>9 DEF Build, queueVars
  <2>2. DoneInStore'
    BY <1>1, <1>2, <1>3, <1>9, <2>1 DEF Build, UpdateProgress, DoneInStore, TypeOK
  <2>3. LateInStore'
    BY <1>1, <1>2, <1>3, <1>9, <2>1 DEF Build, LateInStore, TypeOK, Late
  <2>4. EndedOK'
    BY <1>1, <1>2, <1>3, <1>9, <2>1
       DEF Build, UpdateProgress, EndedOK, Ending, TypeOK, Progress, Zero, Some, Full, Bad
  <2> QED BY <1>2, <1>3, <2>1, <2>2, <2>3, <2>4 DEF ReuseInStore, Uncanceled
<1>10. CASE InsertChunks(j)
  <2>1. store' = store \cup {Part(j)} /\ prog' = prog /\ UNCHANGED <<todo, leased>>
    BY <1>10 DEF InsertChunks, taskVars, queueVars
  <2>2. LateInStore'
    BY <1>1, <1>2, <1>3, <1>10, <2>1 DEF InsertChunks, LateInStore, TypeOK, Late
  <2>3. EndedOK'
    BY <1>1, <1>2, <1>3, <1>10, <2>1 DEF InsertChunks, EndedOK, Ending, TypeOK
  <2> QED BY <1>2, <1>3, <2>1, <2>2, <2>3 DEF DoneInStore, ReuseInStore, Uncanceled
<1>11. CASE RecordIds(j) \/ CountChunks(j) \/ CountKbChunks(j)
  <2>1. store' = store /\ prog' = prog /\ UNCHANGED <<todo, leased>>
    BY <1>11 DEF RecordIds, CountChunks, CountKbChunks, taskVars, queueVars
  <2>2. LateInStore'
    BY <1>1, <1>2, <1>3, <1>11, <2>1
       DEF RecordIds, CountChunks, CountKbChunks, LateInStore, TypeOK, Late
  <2>3. EndedOK'
    BY <1>1, <1>2, <1>3, <1>11, <2>1
       DEF RecordIds, CountChunks, CountKbChunks, EndedOK, Ending, TypeOK
  <2> QED BY <1>2, <1>3, <2>1, <2>2, <2>3 DEF DoneInStore, ReuseInStore, Uncanceled
<1>12. CASE Finish(j)
  <2>1. store' = store /\ UNCHANGED <<todo, leased>> /\ stage[j] \in Late
    BY <1>12 DEF Finish, queueVars, Late
  <2>2. DoneInStore'
    BY <1>1, <1>2, <1>3, <1>12, <2>1
       DEF Finish, UpdateProgress, DoneInStore, LateInStore, TypeOK
  <2>3. LateInStore'
    BY <1>1, <1>2, <1>3, <1>12, <2>1 DEF Finish, LateInStore, TypeOK, Late
  <2>4. EndedOK'
    BY <1>1, <1>2, <1>3, <1>12, <2>1
       DEF Finish, UpdateProgress, EndedOK, Ending, TypeOK, Progress, Zero, Some, Full, Bad
  <2> QED BY <1>2, <1>3, <2>1, <2>2, <2>3, <2>4 DEF ReuseInStore, Uncanceled
<1>13. CASE Cleanup(j)
  <2>1. store' = store /\ prog' = prog /\ UNCHANGED <<todo, leased>>
    BY <1>13 DEF Cleanup, taskVars, queueVars
  <2>2. LateInStore'
    BY <1>1, <1>2, <1>3, <1>13, <2>1 DEF Cleanup, LateInStore, TypeOK, Late
  <2>3. EndedOK'
    BY <1>1, <1>2, <1>3, <1>13, <2>1 DEF Cleanup, EndedOK, Ending, TypeOK
  <2> QED BY <1>2, <1>3, <2>1, <2>2, <2>3 DEF DoneInStore, ReuseInStore, Uncanceled
<1>14. CASE Sync(j)
  <2>1. store' = store /\ prog' = prog /\ UNCHANGED <<todo, leased>>
    BY <1>14 DEF Sync, ReadTasks, ReadDocument, WriteDocument, taskVars, queueVars
  <2>2. stage[j] \in Ending /\ stage'[j] \in Ending
        /\ \A k \in Job : k # j => stage'[k] = stage[k]
    <3>1. j # Server
      BY JobPart
    <3> QED BY <1>1, <1>14, <3>1
            DEF Sync, ReadTasks, ReadDocument, WriteDocument, SyncEnds, TypeOK, Ending
  <2>3. LateInStore' /\ EndedOK'
    BY <1>2, <1>3, <1>4, <2>1, <2>2 DEF LateInStore, EndedOK, Ending, Late
  <2> QED BY <1>2, <1>3, <2>1, <2>3 DEF DoneInStore, ReuseInStore, Uncanceled
<1>15. CASE Error(j)
  <2>1. store' = store /\ UNCHANGED <<todo, leased>>
    BY <1>15 DEF Error, queueVars
  <2>2. DoneInStore'
    BY <1>1, <1>2, <1>3, <1>15, <2>1 DEF Error, UpdateProgress, DoneInStore, TypeOK, Full, Bad
  <2>3. LateInStore'
    BY <1>1, <1>2, <1>3, <1>15, <2>1 DEF Error, LateInStore, TypeOK, Late
  <2>4. EndedOK'
    BY <1>1, <1>2, <1>3, <1>15, <2>1 DEF Error, UpdateProgress, EndedOK, Ending, TypeOK, Bad
  <2> QED BY <1>2, <1>3, <2>1, <2>2, <2>3, <2>4 DEF ReuseInStore, Uncanceled
<1> QED BY <1>5, <1>6, <1>7, <1>8, <1>9, <1>10, <1>11, <1>12, <1>13, <1>14, <1>15 DEF Handle

\* Different tasks of the last run have different parts.
LEMMA RowParts ==
  ASSUME RowsOK
  PROVE  \A j, k \in rows : Part(j) = Part(k) => j = k
BY DEF RowsOK, Part

\* So do the statements of calls: the chunks of a part are deleted only with its
\* row, or before a row that starts at progress 0.
LEMMA RerunApi ==
  ASSUME DocInv, StopFlags, flag = {}, Uncanceled, ApiStatement, flag' = {}
  PROVE  Uncanceled'
<1>1. TypeOK /\ ApiOK /\ StagesOK /\ QueueOK /\ RunsOK /\ RowsOK /\ PlanOK
  BY DEF DocInv, TypeInv, Book
<1>2. DoneInStore /\ LateInStore /\ ReuseInStore /\ EndedOK
  BY DEF Uncanceled
<1>3. CASE DeleteChunks
  <2>1. /\ UNCHANGED <<rows, prog, stage, reused, pruned, unsent, todo, leased>>
    BY <1>3, StatementFrame DEF DeleteChunks, planVars
  <2>2. api \notin Planned
    BY <1>1, <1>3, StatementCases, Tags DEF DeleteChunks, Planned
  <2>3. reused = {}
    BY <1>1, <2>2 DEF PlanOK
  <2>4. api' = PRows \/ rows = {}
    <3>1. \/ api \in {WStore, XStore}
          \/ api = PStore /\ api' = PRows
          \/ api = SStore
      BY <1>1, <1>3, StatementCases DEF DeleteChunks
    <3>2. api \in {WStore, XStore} => rows = {}
      BY <1>1 DEF RowsOK, WithoutRows
    <3>3. api = SStore => rows = {}
      BY DEF StopFlags
    <3> QED BY <3>1, <3>2, <3>3
  <2> QED BY <1>2, <2>1, <2>3, <2>4
          DEF Uncanceled, DoneInStore, LateInStore, ReuseInStore, EndedOK
<1>4. CASE PlanTasks
  <2>1. /\ UNCHANGED <<rows, prog, stage, store, unsent, todo, leased>> /\ api = QPlan
    BY <1>1, <1>4, StatementFrame, StatementCases DEF PlanTasks
  <2>2. api # PRows
    BY <2>1, Tags
  <2>3. reused' \subseteq store \cup EmptyParts
    BY <1>2, <1>4, <2>2 DEF PlanTasks, Reusable, DoneInStore
  <2>4. reused' \cap pruned' = {}
    <3>1. \A p \in pruned' : \E j \in rows \ Reusable : p = Part(j)
      BY <1>1, <1>4 DEF PlanTasks, PlanOK, TypeOK
    <3>2. \A p \in reused' : \E j \in rows : j \in Reusable /\ p = Part(j)
      BY <1>4 DEF PlanTasks, Reusable
    <3> QED BY <1>1, <3>1, <3>2, RowParts
  <2> QED BY <1>2, <2>1, <2>2, <2>3, <2>4
          DEF Uncanceled, DoneInStore, LateInStore, ReuseInStore, EndedOK
<1>5. CASE PruneChunks
  <2>1. /\ UNCHANGED <<rows, prog, stage, reused, unsent, todo, leased>> /\ api = QPrune
    BY <1>1, <1>5, StatementFrame, StatementCases DEF PruneChunks
  <2>2. rows = {}
    BY <1>1, <2>1 DEF RowsOK, WithoutRows
  <2>3. ReuseInStore'
    BY <1>2, <1>5 DEF PruneChunks, ReuseInStore
  <2> QED BY <2>1, <2>2, <2>3 DEF Uncanceled, DoneInStore, LateInStore, EndedOK
<1>6. CASE InsertTasks
  <2>1. UNCHANGED <<stage, todo, leased, store>>
    BY <1>6, StatementFrame DEF InsertTasks
  <2>2. rows = {}
    BY <1>1, <1>6, NewJobs DEF DocInv, RowsOK, WithoutRows
  <2> DEFINE new == {<<runs + 1, p>> : p \in Parts}
  <2>3. /\ rows' = new
        /\ reused' = {}
        /\ unsent' = {j \in new : Part(j) \notin reused}
        /\ \A j \in Job : prog'[j] = IF j \in new /\ Part(j) \in reused THEN Full ELSE prog[j]
    BY <1>6, <2>2 DEF InsertTasks
  <2>4. \A j \in new : j \in Job /\ j[1] = runs + 1
    <3>1. \A p \in Parts : <<runs + 1, p>> \in Job /\ <<runs + 1, p>>[1] = runs + 1
      BY <1>6, NewJobs DEF DocInv
    <3> QED BY <3>1
  <2>5. \A j \in new : prog[j] = Zero /\ stage[j] = Idle
    <3>1. runs \in Nat
      BY <1>6, NewJobs DEF DocInv
    <3>2. \A j \in leased : j[1] <= runs
      BY <1>1 DEF RunsOK
    <3> HIDE DEF new
    <3> QED BY <1>1, <2>4, <3>1, <3>2 DEF RunsOK, StagesOK
  <2> HIDE DEF new
  <2>6. DoneInStore'
    BY <1>2, <2>1, <2>3, <2>4, <2>5 DEF DoneInStore, ReuseInStore, Zero, Full
  <2>7. LateInStore'
    BY <2>1, <2>3, <2>5 DEF LateInStore, Late, Idle
  <2>8. EndedOK'
    BY <2>1, <2>3, <2>4, <2>5 DEF EndedOK, Ending, Idle
  <2>9. ReuseInStore'
    BY <2>3 DEF ReuseInStore
  <2> QED BY <2>6, <2>7, <2>8, <2>9 DEF Uncanceled
<1>7. CASE PublishTask
  <2>1. /\ UNCHANGED <<api, rows, prog, stage, store, reused, pruned, leased>>
        /\ unsent' \cup todo' = unsent \cup todo
    BY <1>7 DEF PublishTask, Queue!Submit, taskVars, procVars
  <2> QED BY <1>2, <2>1 DEF Uncanceled, DoneInStore, LateInStore, ReuseInStore, EndedOK
<1>8. CASE DeleteRows
  <2>1. rows' = {} /\ UNCHANGED <<store, reused, pruned>>
    BY <1>8 DEF DeleteRows, planVars
  <2> QED BY <1>2, <2>1 DEF Uncanceled, DoneInStore, LateInStore, ReuseInStore, EndedOK
<1>9. CASE UncountDocument \/ MarkRunning \/ MarkCanceled \/ SetFlags \/ DropDocument
             \/ SetChunkNum \/ BeginParse \/ PublishDone
  <2>1. UNCHANGED <<rows, prog, stage, store, reused, pruned, unsent, todo, leased>>
    BY <1>9, StatementFrame
       DEF UncountDocument, MarkRunning, MarkCanceled, SetFlags, DropDocument, SetChunkNum,
           BeginParse, PublishDone, planVars
  <2>2. api # PRows
    <3>1. ASSUME NEW s, Statement(s), s # "rows"
          PROVE  api # PRows
      BY <3>1, StatementTable
    <3> QED BY <1>9, <3>1
            DEF UncountDocument, MarkRunning, MarkCanceled, SetFlags, DropDocument,
                SetChunkNum, BeginParse, PublishDone
  <2> QED BY <1>2, <2>1, <2>2
          DEF Uncanceled, DoneInStore, LateInStore, ReuseInStore, EndedOK
<1> QED BY <1>3, <1>4, <1>5, <1>6, <1>7, <1>8, <1>9 DEF ApiStatement

\* RerunInv is inductive, given the bookkeeping.
LEMMA NextRerunInv ==
  ASSUME DocInv, RerunInv, [Next]_vars
  PROVE  RerunInv'
<1>1. StopFlags'
  BY RerunStopFlags DEF RerunInv
<1> SUFFICES ASSUME flag' = {} PROVE Uncanceled'
  BY <1>1 DEF RerunInv
<1>2. flag = {} /\ Uncanceled /\ StopFlags
  BY FlagsStay DEF RerunInv
<1>3. CASE UserRequest
  <2>1. api = <<>> /\ api # PRows
    BY <1>3, CallCases, Tags
  <2> QED BY <1>2, <1>3, <2>1, CallCases
          DEF Uncanceled, DoneInStore, LateInStore, ReuseInStore, EndedOK
<1>4. CASE ApiStatement
  BY <1>2, <1>4, RerunApi
<1>5. ASSUME NEW j \in Job, Handle(j) \/ Error(j) \/ Crash(j)
      PROVE  Uncanceled'
  BY <1>2, <1>5, RerunHandler
<1>6. CASE ServerChooses \/ Sync(Server)
  <2>1. \A j \in Job : stage'[j] = stage[j]
    BY <1>6, JobPart
       DEF ServerChooses, Sync, ReadTasks, ReadDocument, WriteDocument, SyncEnds, SetStage,
           DocInv, TypeInv, TypeOK
  <2>2. UNCHANGED <<rows, prog, store, reused, pruned, unsent, todo, leased, api>>
    BY <1>6
       DEF ServerChooses, Sync, ReadTasks, ReadDocument, WriteDocument, taskVars, queueVars,
           apiVars, planVars
  <2>3. rows \subseteq Job
    BY DEF DocInv, TypeInv, TypeOK
  <2> QED BY <1>2, <2>1, <2>2, <2>3
          DEF Uncanceled, DoneInStore, LateInStore, ReuseInStore, EndedOK
<1>7. CASE UNCHANGED vars
  BY <1>2, <1>7
     DEF vars, taskVars, queueVars, procVars, apiVars, planVars, Uncanceled, DoneInStore,
         LateInStore, ReuseInStore, EndedOK
<1> QED BY <1>3, <1>4, <1>5, <1>6, <1>7 DEF Next

\* It holds initially: there are no rows.
LEMMA InitRerunInv == Init => RerunInv
<1>1. Init => api \notin {SStore, SStop}
  BY Tags DEF Init
<1> QED BY <1>1 DEF Init, RerunInv, StopFlags, Uncanceled, DoneInStore, LateInStore,
                    ReuseInStore, EndedOK

\* At rest every row has ended, so that without an error every part is in the
\* store.
LEMMA RerunInvIndexed == DocInv /\ RerunInv => RerunIsIndexed
<1> SUFFICES ASSUME DocInv, RerunInv, Quiet, run = "DONE", flag = {},
                    \A j \in rows : prog[j] # Bad
             PROVE  FullParts \subseteq store
  BY DEF RerunIsIndexed
<1>1. RunsOK /\ RowsOK /\ DoneInStore /\ EndedOK
  BY DEF DocInv, Book, RerunInv, Uncanceled
<1>2. api = <<>> /\ todo = {} /\ leased = {}
  BY DEF Quiet
<1>3. unsent = {} /\ api # PRows /\ api \notin Preparing \cup Removing
  BY <1>1, <1>2, Phases, Tags DEF RunsOK
<1>4. \A j \in rows : Part(j) \in store \cup EmptyParts
  BY <1>1, <1>2, <1>3 DEF EndedOK, DoneInStore
<1>5. rows = {<<runs, p>> : p \in Parts}
  BY <1>1, <1>3 DEF RowsOK, RunsOK
<1>6. \A p \in Parts : p \in store \cup EmptyParts
  <2>1. \A p \in Parts : <<runs, p>> \in rows /\ Part(<<runs, p>>) = p
    BY <1>5 DEF Part
  <2> QED BY <1>4, <2>1
<1> QED BY <1>6 DEF FullParts

\* However often a document is parsed again, deleted, reused or rebuilt, and
\* whatever is delivered twice or fails on the way: a document that comes to
\* rest as DONE, was never canceled and has no failed part is in the store with
\* all its parts.
THEOREM DocRerunIsIndexed == Spec => []RerunIsIndexed
<1>1. Init => RerunInv
  BY InitRerunInv
<1>2. DocInv /\ RerunInv /\ [Next]_vars => RerunInv'
  BY NextRerunInv
<1> QED BY InitDocInv, NextDocInv, <1>1, <1>2, RerunInvIndexed, PTL DEF Spec

----------------------------------------------------------------------------
(* The chunk counters.                                                     *)

\* What the dataset counts, and is about to count or will never count.
Covered == kbChunks + Cardinality(HalfCounted) + crashes

\* Tasks whose chunk the dataset has been told of, or is about to be.
CountedRows ==
  {j \in rows : \/ stage[j] \in {"count-kb", "counted", "finish"}
                \/ prog[j] = Full /\ ids[j] # {}}

\* Calls that have taken the document's chunks off the dataset.
Uncounted == {WEmpty, WRows, WStore, XFlags, XRows, XStore, XDrop}

\* Parts without text never have chunks.
EmptyOK ==
  /\ \A j \in Job : Part(j) \in EmptyParts =>
       ids[j] = {} /\ stage[j] \notin {"ready", "insert"} \cup Late
  /\ reused \cap EmptyParts = {}

\* Nothing that can still be written to document.chunk_num exceeds Covered.
CoverOK ==
  /\ Covered >= 0
  /\ api \notin Uncounted /\ run # "gone" =>
       /\ Covered >= docChunks
       /\ Covered >= Cardinality(CountedRows)
       /\ Covered >= Cardinality(reused)
  /\ api \in {WRows, WStore} => Covered >= docChunks

CountInv == api # RUncount /\ crashes \in Nat /\ EmptyOK /\ CoverOK

\* Parts and tasks are finite, so that their subsets can be counted.
LEMMA FiniteJobs ==
  ASSUME TypeOK
  PROVE  /\ \A S \in SUBSET Job : IsFiniteSet(S) /\ Cardinality(S) \in Nat
         /\ \A S \in SUBSET Parts : IsFiniteSet(S) /\ Cardinality(S) \in Nat
         /\ HalfCounted \in SUBSET Job /\ CountedRows \in SUBSET Job
         /\ \A S, T \in SUBSET Job : S \subseteq T => Cardinality(S) <= Cardinality(T)
<1>1. IsFiniteSet(Parts) /\ IsFiniteSet(1 .. MaxRuns)
  BY IngestAssumption, FS_Interval
<1>2. IsFiniteSet(Job)
  BY <1>1, FS_Product DEF Job
<1> QED BY <1>1, <1>2, FS_Subset, FS_CardinalityType DEF HalfCounted, CountedRows, TypeOK

\* A part without text gets no chunks in any run.
LEMMA CountEmpty ==
  ASSUME DocInv, EmptyOK, [Next]_vars
  PROVE  EmptyOK'
<1>1. TypeOK /\ ApiOK /\ RunsOK /\ RowsOK /\ PlanOK
  BY DEF DocInv, TypeInv, Book
<1>2. CASE UserRequest
  BY <1>2, CallCases DEF EmptyOK
<1>3. CASE ApiStatement
  <2>1. CASE InsertTasks
    <3>1. \A j \in Job : ids'[j] = {} \/ ids'[j] = ids[j] \/ Part(j) \in reused
      BY <2>1 DEF InsertTasks
    <3> QED BY <2>1, <3>1, StatementFrame DEF InsertTasks, EmptyOK
  <2>2. CASE PlanTasks
    <3>1. \A j \in Reusable : Part(j) \notin EmptyParts
      BY <1>1 DEF Reusable, EmptyOK, TypeOK
    <3> QED BY <2>2, <3>1, StatementFrame DEF PlanTasks, EmptyOK
  <2>3. CASE ~InsertTasks /\ ~PlanTasks
    <3>1. ids' = ids /\ reused' = reused
      BY <1>3, <2>3
         DEF ApiStatement, UncountDocument, MarkRunning, MarkCanceled, SetFlags, DeleteRows,
             DeleteChunks, DropDocument, PruneChunks, SetChunkNum, PublishTask,
             BeginParse, PublishDone, taskVars, planVars
    <3> QED BY <1>3, <3>1, ApiFrame DEF EmptyOK
  <2> QED BY <2>1, <2>2, <2>3
<1> USE DEF SetStage, Idle
<1>4. ASSUME NEW s \in Job \cup {Server}, Sync(s)
      PROVE  EmptyOK'
  BY <1>1, <1>4, JobPart, ProcessFrame
     DEF Sync, ReadTasks, ReadDocument, WriteDocument, SyncEnds, taskVars, apiVars, planVars,
         EmptyOK, TypeOK, Late
<1>5. ASSUME NEW j \in Job, Handle(j) \/ Error(j) \/ Crash(j)
      PROVE  EmptyOK'
  <2>1. reused' = reused
    BY <1>5, ProcessFrame
  <2>2. CASE Collect(j)
    BY <1>1, <2>1, <2>2 DEF Collect, EmptyOK, TypeOK, Late
  <2>3. CASE Refuse(j) \/ AckTask(j) \/ Crash(j) \/ Cleanup(j)
    BY <1>1, <2>1, <2>3 DEF Refuse, AckTask, Crash, Cleanup, taskVars, EmptyOK, TypeOK, Late
  <2>4. CASE InsertChunks(j) \/ CountChunks(j) \/ CountKbChunks(j)
    BY <1>1, <2>1, <2>4 DEF InsertChunks, CountChunks, CountKbChunks, taskVars, EmptyOK,
                            TypeOK, Late
  <2>5. CASE RecordIds(j)
    BY <1>1, <2>1, <2>5 DEF RecordIds, EmptyOK, TypeOK, Late
  <2>6. CASE Check(j)
    BY <1>1, <2>1, <2>6 DEF Check, Checks, NextStage, EmptyOK, TypeOK, Late
  <2>7. CASE Build(j) \/ Finish(j) \/ Error(j)
    BY <1>1, <2>1, <2>7 DEF Build, Finish, Error, EmptyOK, TypeOK, Late
  <2> QED BY <1>4, <1>5, <2>2, <2>3, <2>4, <2>5, <2>6, <2>7 DEF Handle
<1>6. CASE ServerChooses
  BY <1>1, <1>6, JobPart DEF ServerChooses, taskVars, apiVars, planVars, EmptyOK, TypeOK
<1>7. CASE UNCHANGED vars
  BY <1>7 DEF vars, taskVars, procVars, apiVars, planVars, EmptyOK
<1> QED BY <1>2, <1>3, <1>4, <1>5, <1>6, <1>7 DEF Next

\* A handler counts for the dataset what it counts for the document.
LEMMA CountHandler ==
  ASSUME DocInv, EmptyOK, crashes \in Nat, NEW j \in Job, Handle(j) \/ Error(j) \/ Crash(j)
  PROVE  /\ crashes' \in Nat
         /\ Covered' >= Covered
         /\ Covered' - Covered >= docChunks' - docChunks
         /\ Covered' - Covered >= Cardinality(CountedRows)' - Cardinality(CountedRows)
<1>1. TypeOK /\ ProgOK /\ TypeOK'
  BY NextDocInv DEF DocInv, TypeInv, Book, Next
<1>2. rows' = rows
  BY <1>1, ProcessRows
<1>3. /\ Cardinality(HalfCounted) \in Nat /\ IsFiniteSet(HalfCounted)
      /\ Cardinality(CountedRows) \in Nat /\ IsFiniteSet(CountedRows)
      /\ Cardinality(CountedRows)' \in Nat /\ CountedRows' \in SUBSET Job
      /\ docChunks \in Int /\ kbChunks \in Int /\ docChunks' \in Int /\ kbChunks' \in Int
  <2>1. CountedRows' \in SUBSET Job
    BY <1>1 DEF CountedRows, TypeOK
  <2> QED BY <1>1, <2>1, FiniteJobs DEF TypeOK
<1> USE DEF SetStage, Idle
<1>4. CASE CountChunks(j)
  <2>1. HalfCounted' = HalfCounted \cup {j} /\ j \notin HalfCounted
    BY <1>1, <1>4 DEF CountChunks, HalfCounted, TypeOK
  <2>2. CountedRows' \subseteq CountedRows \cup {j}
    BY <1>1, <1>4 DEF CountChunks, CountedRows, taskVars, TypeOK
  <2>3. Cardinality(HalfCounted)' = Cardinality(HalfCounted) + 1
    BY <1>3, <2>1, FS_AddElement
  <2>4. Cardinality(CountedRows)' <= Cardinality(CountedRows) + 1
    <3>1. /\ Cardinality(CountedRows \cup {j}) <= Cardinality(CountedRows) + 1
          /\ CountedRows \cup {j} \in SUBSET Job
      <4>1. Cardinality(CountedRows \cup {j}) =
              IF j \in CountedRows THEN Cardinality(CountedRows) ELSE Cardinality(CountedRows) + 1
        BY <1>3, FS_AddElement
      <4> QED BY <1>1, <1>3, <4>1 DEF CountedRows, TypeOK
    <3>2. Cardinality(CountedRows)' <= Cardinality(CountedRows \cup {j})
          /\ Cardinality(CountedRows \cup {j}) \in Nat
      BY <1>1, <1>3, <2>2, <3>1, FiniteJobs
    <3> QED BY <1>3, <3>1, <3>2
  <2> QED BY <1>3, <1>4, <2>3, <2>4 DEF CountChunks, Covered
<1>5. CASE CountKbChunks(j)
  <2>1. HalfCounted' = HalfCounted \ {j} /\ j \in HalfCounted
    BY <1>1, <1>5 DEF CountKbChunks, HalfCounted, TypeOK
  <2>2. CountedRows' \subseteq CountedRows
    BY <1>1, <1>5 DEF CountKbChunks, CountedRows, taskVars, TypeOK
  <2>3. Cardinality(HalfCounted)' = Cardinality(HalfCounted) - 1
    BY <1>3, <2>1, FS_RemoveElement
  <2>4. Cardinality(CountedRows)' <= Cardinality(CountedRows)
    BY <1>1, <1>3, <2>2, FiniteJobs
  <2> QED BY <1>3, <1>5, <2>3, <2>4 DEF CountKbChunks, Covered
<1>6. CASE Crash(j)
  <2>1. HalfCounted' = HalfCounted \ {j}
    BY <1>1, <1>6 DEF Crash, HalfCounted, TypeOK
  <2>2. CountedRows' \subseteq CountedRows
    BY <1>1, <1>6 DEF Crash, CountedRows, taskVars, TypeOK
  <2>3. Cardinality(HalfCounted)' >= Cardinality(HalfCounted) - 1
        /\ Cardinality(HalfCounted)' \in Nat
    <3>1. Cardinality(HalfCounted \ {j}) =
            IF j \in HalfCounted THEN Cardinality(HalfCounted) - 1 ELSE Cardinality(HalfCounted)
      BY <1>3, FS_RemoveElement
    <3>2. Cardinality(HalfCounted \ {j}) \in Nat
      BY <1>1, FiniteJobs DEF HalfCounted
    <3> QED BY <1>3, <2>1, <3>1, <3>2
  <2>4. Cardinality(CountedRows)' <= Cardinality(CountedRows)
    BY <1>1, <1>3, <2>2, FiniteJobs
  <2> QED BY <1>3, <1>6, <2>3, <2>4 DEF Crash, Covered, docVars
<1>7. CASE ~CountChunks(j) /\ ~CountKbChunks(j) /\ ~Crash(j)
  <2>1. /\ UNCHANGED <<docChunks, kbChunks, crashes>>
    BY <1>7
       DEF Handle, Collect, Refuse, Check, Build, InsertChunks, RecordIds, Finish, Cleanup,
           AckTask, Error, Sync, ReadTasks, ReadDocument, WriteDocument, docVars
  <2>2. HalfCounted' = HalfCounted /\ CountedRows' \subseteq CountedRows
    <3>1. CASE Collect(j)
      <4>1. stage[j] = Idle
        BY <3>1 DEF Collect, Queue!Lease, DocInv, Book, StagesOK, QueueOK
      <4> QED BY <1>1, <3>1, <4>1
              DEF Collect, CountAttempt, HalfCounted, CountedRows, TypeOK, Some, Full, Bad
    <3>2. CASE Refuse(j) \/ AckTask(j) \/ InsertChunks(j) \/ Cleanup(j)
      BY <1>1, <3>2 DEF Refuse, AckTask, InsertChunks, Cleanup, taskVars, HalfCounted,
                        CountedRows, TypeOK
    <3>3. CASE RecordIds(j)
      BY <1>1, <3>3 DEF RecordIds, HalfCounted, CountedRows, TypeOK, ProgOK, Late, Some, Full
    <3>4. CASE Check(j)
      BY <1>1, <3>4 DEF Check, Checks, NextStage, UpdateProgress, HalfCounted, CountedRows,
                        TypeOK, Full, Bad
    <3>5. CASE Build(j)
      BY <1>1, <3>5 DEF Build, UpdateProgress, HalfCounted, CountedRows, TypeOK, EmptyOK, Full, Bad
    <3>6. CASE Finish(j)
      BY <1>1, <3>6 DEF Finish, UpdateProgress, HalfCounted, CountedRows, TypeOK
    <3>7. CASE Error(j)
      BY <1>1, <3>7 DEF Error, UpdateProgress, HalfCounted, CountedRows, TypeOK, Full, Bad
    <3>8. CASE Sync(j)
      <4>1. j # Server
        BY JobPart
      <4> QED BY <1>1, <3>8, <4>1
              DEF Sync, ReadTasks, ReadDocument, WriteDocument, SyncEnds, taskVars,
                  HalfCounted, CountedRows, TypeOK
    <3> QED BY <1>7, <3>1, <3>2, <3>3, <3>4, <3>5, <3>6, <3>7, <3>8 DEF Handle
  <2>3. Cardinality(CountedRows)' <= Cardinality(CountedRows)
    BY <1>1, <1>3, <2>2, FiniteJobs
  <2> QED BY <1>3, <2>1, <2>2, <2>3 DEF Covered
<1> QED BY <1>4, <1>5, <1>6, <1>7

\* The rows and the reused parts that a call leaves.
LEMMA CountPlanned ==
  ASSUME DocInv, EmptyOK
  PROVE  /\ Cardinality(reused) \in Nat /\ Cardinality(CountedRows) \in Nat
         /\ rows = {} => Cardinality(CountedRows) = 0
         /\ reused = {} => Cardinality(reused) = 0
<1>1. TypeOK
  BY DEF DocInv, TypeInv
<1>2. rows = {} => CountedRows = {}
  BY DEF CountedRows
<1> QED BY <1>1, <1>2, FiniteJobs, FS_EmptySet DEF TypeOK

\* What is taken over is no more than what the dataset was told of.
LEMMA CountPlanTasks ==
  ASSUME DocInv, PlanTasks
  PROVE  Cardinality(reused') <= Cardinality(CountedRows)
<1>1. TypeOK
  BY DEF DocInv, TypeInv
<1>2. Reusable \subseteq CountedRows /\ Reusable \in SUBSET Job
  BY <1>1 DEF Reusable, CountedRows, TypeOK
<1>3. IsFiniteSet(Reusable) /\ Cardinality(Reusable) <= Cardinality(CountedRows)
      /\ Cardinality(Reusable) \in Nat /\ Cardinality(CountedRows) \in Nat
  BY <1>1, <1>2, FiniteJobs
<1> DEFINE f == [j \in Reusable |-> Part(j)]
<1>4. f \in Surjection(Reusable, reused')
  BY DEF PlanTasks, Surjection
<1> HIDE DEF f
<1>5. IsFiniteSet(reused') /\ Cardinality(reused') <= Cardinality(Reusable)
  BY <1>3, <1>4, FS_Surjection
<1>6. Cardinality(reused') \in Nat
  BY <1>5, FS_CardinalityType
<1> QED BY <1>3, <1>5, <1>6

\* A new run starts with the counted chunks it took over.
LEMMA CountInsertTasks ==
  ASSUME DocInv, InsertTasks
  PROVE  Cardinality(CountedRows)' <= Cardinality(reused)
<1>1. TypeOK /\ RunsOK /\ RowsOK /\ StagesOK
  BY DEF DocInv, TypeInv, Book
<1> DEFINE new == {<<runs + 1, p>> : p \in Parts}
<1>2. rows = {}
  BY <1>1, NewJobs DEF DocInv, RowsOK, WithoutRows
<1>3. rows' = new /\ stage' = stage
      /\ \A j \in Job : prog'[j] = IF j \in new /\ Part(j) \in reused THEN Full ELSE prog[j]
  BY <1>2, StatementFrame DEF InsertTasks
<1>4. \A p \in Parts : <<runs + 1, p>> \in Job /\ <<runs + 1, p>>[1] = runs + 1
                       /\ Part(<<runs + 1, p>>) = p
  BY NewJobs DEF DocInv
<1>5. \A j \in new : j \in Job /\ j[1] = runs + 1 /\ Part(j) \in Parts /\ j = <<runs + 1, Part(j)>>
  BY <1>4
<1> HIDE DEF new
<1>6. \A j \in new : prog[j] = Zero /\ stage[j] = Idle
  <2>1. runs \in Nat
    BY NewJobs DEF DocInv
  <2>2. \A j \in leased : j[1] <= runs
    BY <1>1 DEF RunsOK
  <2> QED BY <1>1, <1>5, <2>1, <2>2 DEF RunsOK, StagesOK
<1>7. \A j \in CountedRows' : j \in new /\ Part(j) \in reused
  BY <1>3, <1>5, <1>6 DEF CountedRows, Idle, Zero, Full
<1> DEFINE f == [j \in CountedRows' |-> Part(j)]
<1>8. f \in Injection(CountedRows', reused)
  BY <1>5, <1>7 DEF Injection, IsInjective
<1> HIDE DEF f
<1>9. IsFiniteSet(reused)
  BY <1>1, FiniteJobs DEF TypeOK
<1> QED BY <1>8, <1>9, FS_Injection

\* Where the document's chunks are taken off the dataset and forgotten.
LEMMA UncountedSteps ==
  ASSUME ApiOK, NEW s, Statement(s), s \notin {"uncount", "store", "drop"}
  PROVE  /\ api' \notin Uncounted => api \notin Uncounted
         /\ api' \in {WRows, WStore} => api \in {WEmpty, WRows}
         /\ api' = WRows => s = "mark-empty"
         /\ api' # RUncount
<1>1. CASE api \in Preparing \cup Publishing
  BY <1>1, StatementTable, Tags DEF Preparing, Planned, Wiping, Publishing, Uncounted
<1>2. CASE api \in Stopping
  BY <1>2, StatementTable, Tags DEF Stopping, Uncounted
<1>3. CASE api \in Removing
  BY <1>3, StatementTable, Tags DEF Removing, Uncounted
<1> QED BY <1>1, <1>2, <1>3 DEF ApiOK, Statement

\* No statement of a call gives the document more than the dataset counts.
LEMMA CountApi ==
  ASSUME DocInv, CountInv, ApiStatement
  PROVE  CoverOK' /\ api' # RUncount
<1>1. TypeOK /\ ApiOK /\ RunsOK /\ RowsOK /\ PlanOK /\ TypeOK' /\ EmptyOK' /\ DocInv'
  BY NextDocInv, CountEmpty DEF DocInv, TypeInv, Book, CountInv, Next
<1>2. crashes' = crashes /\ HalfCounted' = HalfCounted
  BY ApiFrame DEF HalfCounted
<1>3. /\ Covered \in Int /\ docChunks \in Int /\ docChunks' \in Int
      /\ CoverOK /\ run # "gone"
  <2>1. Cardinality(HalfCounted) \in Nat
    BY <1>1, FiniteJobs
  <2>2. api # <<>>
    BY DEF ApiStatement, UncountDocument, MarkRunning, MarkCanceled, SetFlags, DeleteRows,
           DeleteChunks, DropDocument, PlanTasks, PruneChunks, SetChunkNum, InsertTasks,
           BeginParse, PublishDone, PublishTask, Statement
  <2> QED BY <1>1, <2>1, <2>2 DEF Covered, TypeOK, CountInv, RowsOK
<1>4. /\ Cardinality(reused) \in Nat /\ Cardinality(CountedRows) \in Nat
      /\ Cardinality(reused') \in Nat /\ Cardinality(CountedRows') \in Nat
      /\ rows' = {} => Cardinality(CountedRows') = 0
      /\ reused' = {} => Cardinality(reused') = 0
  <2>1. CountedRows' = {} \/ rows' # {}
    BY DEF CountedRows
  <2>2. CountedRows' \in SUBSET Job
    BY <1>1 DEF CountedRows, TypeOK
  <2> QED BY <1>1, <2>1, <2>2, CountPlanned, FiniteJobs, FS_EmptySet DEF CountInv, TypeOK
<1>5. CASE UncountDocument
  <2>1. api' \in {WEmpty, XFlags} /\ api \in {WUncount, XUncount}
    BY <1>1, <1>5, StatementCases DEF UncountDocument, CountInv
  <2>2. api \notin Uncounted /\ api' \in Uncounted /\ api' \notin {WRows, WStore, RUncount}
    BY <2>1, Tags DEF Uncounted
  <2>3. Covered' = Covered - docChunks
    BY <1>1, <1>2, <1>5, FiniteJobs DEF UncountDocument, Covered, TypeOK, CountInv
  <2> QED BY <1>3, <2>2, <2>3 DEF CoverOK
<1>6. CASE DeleteChunks
  <2>1. Covered' = Covered /\ UNCHANGED <<docChunks, rows, reused, run>>
    BY <1>2, <1>6 DEF DeleteChunks, Covered, docVars, planVars
  <2>2. CountedRows' = CountedRows
    BY <1>6, StatementFrame DEF DeleteChunks, CountedRows
  <2>3. CASE api = WStore /\ api' = QPlan
    <3>1. rows = {} /\ api' \notin {WRows, WStore, RUncount} /\ api \notin Planned
      BY <1>1, <2>3, Tags DEF RowsOK, WithoutRows, Planned
    <3>2. reused = {}
      BY <1>1, <3>1 DEF PlanOK
    <3> QED BY <1>3, <1>4, <2>1, <2>3, <3>1, <3>2 DEF CoverOK
  <2>4. CASE \/ api = PStore /\ api' = PRows
             \/ api = SStore /\ api' = <<>>
    <3>1. api \notin Uncounted /\ api' \notin {WRows, WStore, RUncount}
      BY <2>4, Tags DEF Uncounted
    <3> QED BY <1>3, <2>1, <2>2, <3>1 DEF CoverOK
  <2>5. CASE api = XStore /\ api' = XDrop
    <3>1. api' \in Uncounted /\ api' \notin {WRows, WStore, RUncount}
      BY <2>5, Tags DEF Uncounted
    <3> QED BY <1>3, <2>1, <3>1 DEF CoverOK
  <2> QED BY <1>1, <1>6, <2>3, <2>4, <2>5, StatementCases DEF DeleteChunks
<1>7. CASE DropDocument
  <2>1. Covered' = Covered /\ run' = "gone" /\ api' = <<>>
    BY <1>1, <1>2, <1>7, StatementCases DEF DropDocument, Covered
  <2>2. api' \notin {WRows, WStore, RUncount}
    BY <2>1, Tags
  <2> QED BY <1>3, <2>1, <2>2 DEF CoverOK
<1>8. CASE PublishTask
  <2>1. UNCHANGED <<api, run, kbChunks, docChunks, rows, prog, ids, stage, reused>>
    BY <1>8 DEF PublishTask, docVars, taskVars, procVars
  <2> QED BY <1>2, <1>3, <2>1 DEF CoverOK, Covered, CountedRows, CountInv
<1>9. ASSUME NEW s, Statement(s), s \notin {"uncount", "store", "drop"},
             kbChunks' = kbChunks, run' # "gone",
             docChunks' = docChunks \/ docChunks' = 0
               \/ (docChunks' = Cardinality(reused) /\ api' \notin {WRows, WStore}),
             \/ CountedRows' = CountedRows
             \/ rows' = {}
             \/ Cardinality(CountedRows') <= Cardinality(reused),
             \/ reused' = reused
             \/ reused' = {}
             \/ Cardinality(reused') <= Cardinality(CountedRows),
             s = "mark-empty" => docChunks' = 0
      PROVE  CoverOK' /\ api' # RUncount
  <2>1. Covered' = Covered
    BY <1>2, <1>9 DEF Covered
  <2>2. api' \notin Uncounted =>
          /\ Covered' >= docChunks'
          /\ Covered' >= Cardinality(CountedRows')
          /\ Covered' >= Cardinality(reused')
    <3> SUFFICES ASSUME api' \notin Uncounted
                 PROVE  /\ Covered' >= docChunks'
                        /\ Covered' >= Cardinality(CountedRows')
                        /\ Covered' >= Cardinality(reused')
      OBVIOUS
    <3>1. api \notin Uncounted
      BY <1>1, <1>9, UncountedSteps
    <3> QED BY <1>3, <1>4, <1>9, <2>1, <3>1 DEF CoverOK
  <2>3. api' \in {WRows, WStore} => Covered' >= docChunks'
    BY <1>1, <1>3, <1>4, <1>9, <2>1, StatementTable, Tags, UncountedSteps DEF CoverOK
  <2>4. api' # RUncount
    BY <1>1, <1>9, UncountedSteps
  <2> QED BY <1>3, <2>1, <2>2, <2>3, <2>4 DEF CoverOK
<1>10. CASE MarkRunning \/ MarkCanceled
  <2>1. /\ kbChunks' = kbChunks /\ run' # "gone" /\ reused' = reused
        /\ CountedRows' = CountedRows
    BY <1>10, StatementFrame DEF MarkRunning, MarkCanceled, planVars, CountedRows
  <2>2. \/ Statement("mark") /\ docChunks' = docChunks
        \/ Statement("mark-empty") /\ docChunks' = 0
        \/ Statement("cancel") /\ docChunks' = docChunks
        \/ Statement("stop") /\ docChunks' = 0
    BY <1>10 DEF MarkRunning, MarkCanceled
  <2> QED BY <1>9, <2>1, <2>2
<1>11. CASE SetFlags \/ PruneChunks \/ BeginParse \/ PublishDone
  <2>1. /\ kbChunks' = kbChunks /\ run' # "gone" /\ reused' = reused /\ docChunks' = docChunks
        /\ CountedRows' = CountedRows
    BY <1>3, <1>11, StatementFrame
       DEF SetFlags, PruneChunks, BeginParse, PublishDone, docVars, planVars, CountedRows
  <2> QED BY <1>9, <1>11, <2>1 DEF SetFlags, PruneChunks, BeginParse, PublishDone
<1>12. CASE DeleteRows
  BY <1>3, <1>9, <1>12 DEF DeleteRows, docVars, planVars
<1>13. CASE PlanTasks
  <2>1. CountedRows' = CountedRows /\ Cardinality(reused') <= Cardinality(CountedRows)
    BY <1>13, CountPlanTasks, StatementFrame DEF PlanTasks, CountedRows
  <2> QED BY <1>3, <1>9, <1>13, <2>1 DEF PlanTasks, docVars
<1>14. CASE SetChunkNum
  <2>1. CountedRows' = CountedRows
    BY <1>14, StatementFrame DEF SetChunkNum, CountedRows
  <2>2. api' \notin {WRows, WStore}
    BY <1>1, <1>14, StatementCases, Tags DEF SetChunkNum
  <2> QED BY <1>3, <1>9, <1>14, <2>1, <2>2 DEF SetChunkNum, planVars
<1>15. CASE InsertTasks
  BY <1>3, <1>9, <1>15, CountInsertTasks DEF InsertTasks, docVars
<1> QED BY <1>5, <1>6, <1>7, <1>8, <1>10, <1>11, <1>12, <1>13, <1>14, <1>15 DEF ApiStatement

\* CountInv is inductive, given the bookkeeping, while nobody calls run without
\* its "delete" key.
LEMMA NextCountInv ==
  ASSUME "run" \notin Requests, DocInv, CountInv, [Next]_vars
  PROVE  CountInv'
<1>1. EmptyOK'
  BY CountEmpty DEF CountInv
<1>2. TypeOK /\ TypeOK' /\ DocInv'
  BY NextDocInv DEF DocInv, TypeInv
<1>3. CASE UserRequest
  <2>1. api = <<>> /\ api \notin Uncounted /\ run # "gone"
        /\ UNCHANGED <<run, kbChunks, docChunks, rows, prog, ids, stage, reused, crashes>>
    BY <1>3, CallCases, Tags DEF Uncounted
  <2>2. api' # RUncount /\ api' \notin {WRows, WStore}
    BY <1>3, CallCases, Tags
  <2> QED BY <1>1, <2>1, <2>2 DEF CountInv, CoverOK, Covered, CountedRows, HalfCounted
<1>4. CASE ApiStatement
  BY <1>1, <1>4, CountApi, ApiFrame DEF CountInv
<1>5. ASSUME NEW j \in Job, Handle(j) \/ Error(j) \/ Crash(j)
      PROVE  CountInv'
  <2>1. /\ crashes' \in Nat
        /\ Covered' >= Covered
        /\ Covered' - Covered >= docChunks' - docChunks
        /\ Covered' - Covered >= Cardinality(CountedRows)' - Cardinality(CountedRows)
    BY <1>5, CountHandler DEF CountInv
  <2>2. /\ UNCHANGED <<api, reused>> /\ (run' = "gone" <=> run = "gone")
    BY <1>5, ProcessFrame, GoneStays DEF DocInv
  <2>3. /\ Covered \in Int /\ Covered' \in Int /\ docChunks \in Int /\ docChunks' \in Int
        /\ Cardinality(CountedRows) \in Nat /\ Cardinality(CountedRows)' \in Nat
        /\ Cardinality(reused) \in Nat
    <3>1. /\ Cardinality(HalfCounted) \in Nat /\ Cardinality(HalfCounted)' \in Nat
          /\ Cardinality(CountedRows) \in Nat /\ Cardinality(CountedRows)' \in Nat
          /\ Cardinality(reused) \in Nat
      <4>1. HalfCounted' \in SUBSET Job /\ CountedRows' \in SUBSET Job
        BY <1>2 DEF HalfCounted, CountedRows, TypeOK
      <4> QED BY <1>2, <4>1, FiniteJobs DEF TypeOK
    <3> QED BY <1>2, <2>1, <3>1 DEF Covered, TypeOK, CountInv
  <2>4. CoverOK'
    <3>1. Covered >= 0 => Covered' >= 0
      BY <2>1, <2>3
    <3>2. Covered >= docChunks => Covered' >= docChunks'
      <4>1. Covered \in Int /\ Covered' \in Int /\ docChunks \in Int /\ docChunks' \in Int
        BY <2>3, Zenon
      <4>2. Covered' - Covered >= docChunks' - docChunks
        BY <2>1, Zenon
      <4>3. \A a, b, c, d \in Int : b - a >= d - c => (a >= c => b >= d)
        OBVIOUS
      <4> QED BY <4>1, <4>2, <4>3, Zenon
    <3>3. Covered >= Cardinality(CountedRows) => Covered' >= Cardinality(CountedRows)'
      BY <2>1, <2>3
    <3>4. Covered >= Cardinality(reused) => Covered' >= Cardinality(reused)
      BY <2>1, <2>3
    <3> QED BY <2>2, <3>1, <3>2, <3>3, <3>4 DEF CountInv, CoverOK
  <2> QED BY <1>1, <2>1, <2>2, <2>4 DEF CountInv
<1>6. CASE ServerChooses \/ Sync(Server)
  <2>1. UNCHANGED <<api, kbChunks, docChunks, rows, prog, ids, reused, crashes>>
        /\ (run' = "gone" <=> run = "gone")
    BY <1>6, GoneStays
       DEF DocInv, ServerChooses, Sync, ReadTasks, ReadDocument, WriteDocument, docVars, taskVars,
           apiVars, planVars
  <2>2. \A j \in Job : stage'[j] = stage[j]
    BY <1>2, <1>6, JobPart
       DEF ServerChooses, Sync, ReadTasks, ReadDocument, WriteDocument, SyncEnds, SetStage,
           TypeOK
  <2>3. HalfCounted' = HalfCounted /\ CountedRows' = CountedRows
    BY <1>2, <2>1, <2>2 DEF HalfCounted, CountedRows, TypeOK
  <2> QED BY <1>1, <2>1, <2>3 DEF CountInv, CoverOK, Covered
<1>7. CASE UNCHANGED vars
  BY <1>1, <1>7
     DEF vars, docVars, taskVars, procVars, apiVars, planVars, CountInv, CoverOK, Covered,
         CountedRows, HalfCounted
<1> QED BY <1>3, <1>4, <1>5, <1>6, <1>7 DEF Next

\* Calls in any order, with handlers counting or dying at any point between
\* them, never leave the dataset counting fewer chunks than its document,
\* unless a finished document is run without the "delete" key.
THEOREM DocKbCoversDocument ==
  ASSUME "run" \notin Requests
  PROVE  Spec => []KbCoversDocument
<1>1. Init => CountInv
  <2> SUFFICES ASSUME Init PROVE CountInv
    OBVIOUS
  <2>1. api = <<>> /\ api \notin {RUncount, WRows, WStore} /\ crashes \in Nat
    BY Tags DEF Init
  <2>2. EmptyOK
    BY DEF Init, EmptyOK, Idle, Late
  <2>3. HalfCounted = {} /\ CountedRows = {} /\ reused = {}
    BY DEF Init, HalfCounted, CountedRows, Idle
  <2>4. CoverOK
    BY <2>1, <2>3, FS_EmptySet DEF Init, CoverOK, Covered
  <2> QED BY <2>1, <2>2, <2>4 DEF CountInv
<1>2. DocInv /\ CountInv /\ [Next]_vars => CountInv'
  BY NextCountInv
<1>3. DocInv /\ CountInv => KbCoversDocument
  <2>1. api = <<>> => api \notin Uncounted
    BY Tags DEF Uncounted
  <2> QED BY <2>1 DEF CountInv, CoverOK, Covered, KbCoversDocument
<1> QED BY InitDocInv, NextDocInv, <1>1, <1>2, <1>3, PTL DEF Spec
=============================================================================
