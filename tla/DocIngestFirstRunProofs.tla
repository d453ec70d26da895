------------------------ MODULE DocIngestFirstRunProofs ------------------------
(***************************************************************************)
(* What the first run of a document leaves when it shows DONE, is canceled *)
(* or the document is removed, proved for every set of parts and every     *)
(* bound on requests, errors and crashes.                                  *)
(***************************************************************************)
EXTENDS DocIngestRerunProofs

First == runs \in {0, 1}

\* Calls that have set cancel flags and not yet changed the document.
Flagged == {CCancel, SStop, XRows, XStore, XDrop}

\* A flag of the first run: the document is canceled, removed, about to be
\* either, or about to be parsed again; never is the run still published.
FlagsOK ==
  First =>
    /\ api \in Publishing => flag = {}
    /\ flag # {} => run \in {"CANCEL", "gone"} \/ api \in Flagged \cup Preparing

\* DONE, in the document row or in a summary that may yet be written to it.
ShowsDone ==
  \/ run = "DONE"
  \/ \E s \in Job \cup {Server} :
       stage[s] \in {"read-doc", "write-log"} /\ snap[s].run = "DONE"

DoneOK ==
  First /\ flag = {} /\ run # "gone" /\ api \notin Preparing \cup Removing /\ ShowsDone
    => FullParts \subseteq store

FirstInv == FlagsOK /\ DoneOK

\* When the first run is inserted, nobody works yet and nothing is flagged.
LEMMA FirstInsert ==
  ASSUME DocInv, InsertTasks, First'
  PROVE  /\ runs = 0 /\ flag = {} /\ flag' = {} /\ run' # "DONE"
         /\ \A s \in Job \cup {Server} : stage[s] = Idle /\ stage'[s] = Idle
<1>1. runs = 0
  BY NewJobs DEF DocInv, First
<1>2. \A j \in Job : j[1] \in Nat /\ j[1] >= 1
  BY DEF Job
<1>3. \A j \in flag : j \in Job /\ j[1] <= 0
  BY <1>1 DEF DocInv, TypeInv, TypeOK, Book, RunsOK
<1>4. flag = {}
  BY <1>2, <1>3
<1>5. \A s \in Job \cup {Server} : stage[s] = Idle
  BY <1>1, NoRunYet DEF DocInv
<1>6. run # "DONE" /\ run' = run /\ flag' = flag /\ stage' = stage
  BY <1>1, StatementFrame DEF InsertTasks, docVars, DocInv, Book, RunsOK
<1> QED BY <1>1, <1>4, <1>5, <1>6

\* The number of runs grows by insertion only.
LEMMA RunsStep ==
  ASSUME DocInv, [Next]_vars
  PROVE  /\ InsertTasks \/ runs' = runs
         /\ First' => First
<1>1. InsertTasks \/ runs' = runs
  <2>1. CASE UserRequest
    BY <2>1, CallCases
  <2>2. CASE ApiStatement
    BY <2>2
       DEF ApiStatement, UncountDocument, MarkRunning, MarkCanceled, SetFlags, DeleteRows,
           DeleteChunks, DropDocument, PlanTasks, PruneChunks, SetChunkNum,
           BeginParse, PublishDone, PublishTask, planVars
  <2>3. CASE (\E j \in Job : Handle(j) \/ Error(j) \/ Crash(j)) \/ ServerChooses \/ Sync(Server)
    BY <2>3, ProcessFrame
  <2>4. CASE UNCHANGED vars
    BY <2>4 DEF vars, apiVars, planVars
  <2> QED BY <2>1, <2>2, <2>3, <2>4 DEF Next
<1> QED BY <1>1, FirstInsert DEF First

\* In the first run a flag means what FlagsOK says, whatever handlers do.
LEMMA NextFlagsOK ==
  ASSUME DocInv, FlagsOK, [Next]_vars
  PROVE  FlagsOK'
<1> SUFFICES ASSUME First'
             PROVE  /\ api' \in Publishing => flag' = {}
                    /\ flag' # {} => run' \in {"CANCEL", "gone"}
                                       \/ api' \in Flagged \cup Preparing
  BY DEF FlagsOK
<1>1. /\ TypeOK /\ ApiOK /\ First
      /\ api \in Publishing => flag = {}
      /\ flag # {} => run \in {"CANCEL", "gone"} \/ api \in Flagged \cup Preparing
  BY RunsStep DEF FlagsOK, DocInv, TypeInv
<1>2. CASE UserRequest
  <2>1. api = <<>> /\ run' = run /\ flag' = flag /\ api' \notin Publishing
    BY <1>2, CallCases, Tags DEF Publishing
  <2>2. <<>> \notin Flagged \cup Preparing
    BY Tags, Phases DEF Flagged
  <2> QED BY <1>1, <2>1, <2>2
<1>3. CASE InsertTasks
  BY <1>3, FirstInsert
<1>4. CASE ApiStatement /\ ~InsertTasks
  <2>1. CASE PublishTask
    BY <1>1, <2>1 DEF PublishTask, docVars
  <2>2. CASE SetFlags
    <3>1. api' \in Flagged
      BY <1>1, <2>2, StatementCases DEF SetFlags, Flagged
    <3>2. Flagged \cap Publishing = {}
      BY Tags DEF Flagged, Publishing
    <3> QED BY <3>1, <3>2
  <2>3. CASE MarkCanceled
    <3>1. api' \in {<<>>, SStore} /\ run' = "CANCEL"
      BY <1>1, <2>3, StatementCases DEF MarkCanceled
    <3> QED BY <3>1, Tags DEF Publishing
  <2>4. CASE DropDocument
    <3>1. api' = <<>> /\ run' = "gone"
      BY <1>1, <2>4, StatementCases DEF DropDocument
    <3> QED BY <3>1, Tags DEF Publishing
  <2>5. ASSUME NEW s, Statement(s), s \notin {"insert", "cancel", "stop", "flags", "drop"},
               flag' = flag
        PROVE  /\ api' \in Publishing => flag' = {}
               /\ flag' # {} => \/ api' \in Flagged \cup Preparing
                                \/ run \in {"CANCEL", "gone"} /\ api \notin Preparing
    <3>1. api' \in Publishing => api \in Publishing
      BY <1>1, <2>5, StatementPhases
    <3>2. api \in Preparing => api' \in Preparing
      BY <1>1, <2>5, StatementPhases
    <3>3. api \in Flagged => api' \in Flagged
      BY <2>5, StatementTable DEF Flagged
    <3> QED BY <1>1, <2>5, <3>1, <3>2, <3>3
  <2>6. CASE MarkRunning
    <3>1. api' \in Preparing
      BY <1>1, <2>6, StatementCases DEF MarkRunning, Preparing, Wiping
    <3> QED BY <3>1, Phases
  <2>7. CASE BeginParse
    <3>1. api \in Publishing /\ flag' = flag
      BY <1>1, <2>7, StatementCases DEF BeginParse, Publishing
    <3> QED BY <1>1, <3>1
  <2>8. CASE UncountDocument \/ DeleteRows \/ DeleteChunks \/ PlanTasks \/ PruneChunks
             \/ SetChunkNum \/ PublishDone
    <3>1. flag' = flag /\ run' = run
      BY <2>8
         DEF UncountDocument, DeleteRows, DeleteChunks, PlanTasks, PruneChunks, SetChunkNum,
             PublishDone, docVars
    <3> QED BY <1>1, <2>5, <2>8, <3>1
            DEF UncountDocument, DeleteRows, DeleteChunks, PlanTasks, PruneChunks, SetChunkNum,
                PublishDone
  <2> QED BY <1>4, <2>1, <2>2, <2>3, <2>4, <2>6, <2>7, <2>8 DEF ApiStatement
<1>5. CASE (\E j \in Job : Handle(j) \/ Error(j) \/ Crash(j)) \/ ServerChooses \/ Sync(Server)
  <2>1. api' = api /\ flag' = flag
    BY <1>1, <1>5, ProcessFrame, ProcessRows
  <2>2. run \in {"CANCEL", "gone"} => run' = run
    BY <1>5
       DEF Handle, Sync, Collect, Refuse, Check, Build, InsertChunks, RecordIds, CountChunks,
           CountKbChunks, Finish, Cleanup, AckTask, Error, Crash, ServerChooses, ReadTasks,
           ReadDocument, WriteDocument, Write, docVars
  <2> QED BY <1>1, <2>1, <2>2
<1>6. CASE UNCHANGED vars
  BY <1>1, <1>6 DEF vars, docVars, apiVars
<1> QED BY <1>2, <1>3, <1>4, <1>5, <1>6 DEF Next, ApiStatement

\* The summary of a first run that is all done finds every part in the store.
LEMMA SummaryIndexed ==
  ASSUME DocInv, DoneInStore, api # PRows, rows # {}, Summary.run = "DONE"
  PROVE  FullParts \subseteq store
<1>1. \A j \in rows : prog[j] \notin Unfinished /\ prog[j] # Bad
  BY DEF Summary
<1>2. \A j \in rows : prog[j] = Full
  BY <1>1 DEF DocInv, TypeInv, TypeOK, Progress, Unfinished
<1>3. \A j \in rows : Part(j) \in store \cup EmptyParts
  BY <1>2 DEF DoneInStore
<1>4. \A p \in Parts : <<runs, p>> \in rows /\ Part(<<runs, p>>) = p
  BY DEF DocInv, Book, RowsOK, Part
<1> QED BY <1>3, <1>4 DEF FullParts

\* A summary says DONE of what it read as DONE.
LEMMA ShowsDoneStep ==
  ASSUME DocInv, RerunInv, flag = {}, api # PRows, ShowsDone',
         NEW s \in Job \cup {Server}, Sync(s)
  PROVE  ShowsDone \/ FullParts \subseteq store
<1>1. TypeOK /\ SnapOK
  BY DEF DocInv, TypeInv
<1> USE DEF SetStage, SyncEnds, Idle
<1>2. CASE ReadTasks(s)
  <2>1. CASE rows # {} /\ Summary.run = "DONE"
    BY <2>1, SummaryIndexed DEF RerunInv, Uncanceled
  <2>2. CASE ~(rows # {} /\ Summary.run = "DONE")
    BY <1>1, <1>2, <2>2 DEF ReadTasks, docVars, ShowsDone, TypeOK
  <2> QED BY <2>1, <2>2
<1>3. CASE ReadDocument(s)
  <2>1. run' = run
    BY <1>3 DEF ReadDocument, docVars
  <2>2. CASE run \in {"gone", "CANCEL"}
    BY <1>1, <1>3, <2>1, <2>2 DEF ReadDocument, ShowsDone, TypeOK
  <2>3. CASE run \notin {"gone", "CANCEL"}
    <3>1. \A t \in Job \cup {Server} : t # s => stage'[t] = stage[t] /\ snap'[t] = snap[t]
      BY <1>1, <1>3, <2>3 DEF ReadDocument, TypeOK
    <3>2. snap'[s].run = IF snap[s].run = "unread" THEN run ELSE snap[s].run
      BY <1>1, <1>3, <2>3 DEF ReadDocument, TypeOK
    <3>3. stage[s] = "read-doc"
      BY <1>3 DEF ReadDocument
    <3> QED BY <2>1, <3>1, <3>2, <3>3 DEF ShowsDone
  <2> QED BY <2>2, <2>3
<1>4. CASE WriteDocument(s)
  <2>1. \A t \in Job \cup {Server} : t # s => stage'[t] = stage[t] /\ snap'[t] = snap[t]
    BY <1>1, <1>4 DEF WriteDocument, TypeOK
  <2>2. snap'[s].run # "DONE"
    BY <1>1, <1>4 DEF WriteDocument, TypeOK, NoSnap
  <2>3. run' = run \/ run' = snap[s].run
    BY <1>4 DEF WriteDocument, Write
  <2>4. stage[s] = "write-log"
    BY <1>4 DEF WriteDocument
  <2> QED BY <2>1, <2>2, <2>3, <2>4 DEF ShowsDone
<1> QED BY <1>2, <1>3, <1>4 DEF Sync

\* DONE comes from a summary only.
LEMMA ApiShowsDone ==
  ASSUME ApiStatement, ShowsDone'
  PROVE  ShowsDone
<1>1. stage' = stage /\ snap' = snap
  BY ApiFrame
<1>2. run' = run \/ run' # "DONE"
  BY DEF ApiStatement, UncountDocument, MarkRunning, MarkCanceled, SetFlags, DeleteRows,
         DeleteChunks, DropDocument, PlanTasks, PruneChunks, SetChunkNum, InsertTasks,
         BeginParse, PublishDone, PublishTask, docVars
<1> QED BY <1>1, <1>2 DEF ShowsDone

\* DONE that is shown, or will be, of the first run finds every part in the
\* store; nothing takes a part away again without a flag.
LEMMA NextDoneOK ==
  ASSUME DocInv, RerunInv, DoneOK, [Next]_vars
  PROVE  DoneOK'
<1> SUFFICES ASSUME First', flag' = {}, run' # "gone", api' \notin Preparing \cup Removing,
                    ShowsDone'
             PROVE  FullParts \subseteq store'
  BY DEF DoneOK
<1>1. TypeOK /\ ApiOK /\ RowsOK /\ RunsOK /\ First /\ flag = {}
  BY RunsStep, FlagsStay DEF DocInv, TypeInv, Book
<1>2. run # "gone" /\ api \notin Preparing \cup Removing /\ ShowsDone => FullParts \subseteq store
  BY <1>1 DEF DoneOK
<1>3. CASE UserRequest
  <2>1. api = <<>> /\ run # "gone" /\ ShowsDone /\ store' = store
    BY <1>3, CallCases DEF ShowsDone
  <2> QED BY <1>2, <2>1, Phases
<1>4. CASE InsertTasks
  BY <1>4, FirstInsert DEF ShowsDone, Idle
<1>5. CASE ApiStatement /\ ~InsertTasks
  <2>1. run # "gone" /\ api # <<>>
    BY <1>1, <1>5
       DEF RowsOK, ApiStatement, UncountDocument, MarkRunning, MarkCanceled, SetFlags,
           DeleteRows, DeleteChunks, DropDocument, PlanTasks, PruneChunks, SetChunkNum,
           BeginParse, PublishDone, PublishTask, Statement
  <2>2. CASE PublishTask \/ DropDocument
    BY <1>2, <1>5, <2>1, <2>2, ApiShowsDone DEF PublishTask, DropDocument
  <2>3. ASSUME NEW s, Statement(s), s \notin {"insert", "drop"}
        PROVE  api \notin Preparing \cup Removing
    <3>1. api \in Removing => api' \in Removing
      BY <2>3, StatementTable DEF Removing
    <3> QED BY <1>1, <2>3, <3>1, StatementPhases
  <2>4. CASE PruneChunks
    BY <1>1, <2>4, StatementCases DEF PruneChunks, Preparing, Planned
  <2>5. CASE DeleteChunks
    <3>1. api = SStore /\ api \notin Preparing \cup Removing
      <4>1. api \notin Preparing \cup Removing
        BY <2>3, <2>5 DEF DeleteChunks
      <4> QED BY <1>1, <2>5, <4>1, StatementCases DEF DeleteChunks, Preparing, Wiping, Removing
    <3>2. rows = {}
      BY <1>1, <3>1 DEF RerunInv, StopFlags
    <3>3. runs = 0
      BY <1>1, <2>1, <3>1, <3>2 DEF RowsOK
    <3>4. ~ShowsDone
      BY <1>1, <3>3, NoRunYet DEF DocInv, RunsOK, ShowsDone, Idle
    <3> QED BY <1>5, <3>4, ApiShowsDone
  <2>6. CASE UncountDocument \/ MarkRunning \/ MarkCanceled \/ SetFlags \/ DeleteRows
             \/ PlanTasks \/ SetChunkNum \/ BeginParse \/ PublishDone
    <3>1. store' = store
      BY <2>6
         DEF UncountDocument, MarkRunning, MarkCanceled, SetFlags, DeleteRows, PlanTasks,
             SetChunkNum, BeginParse, PublishDone
    <3>2. api \notin Preparing \cup Removing
      BY <2>3, <2>6
         DEF UncountDocument, MarkRunning, MarkCanceled, SetFlags, DeleteRows, PlanTasks,
             SetChunkNum, BeginParse, PublishDone
    <3> QED BY <1>2, <1>5, <2>1, <3>1, <3>2, ApiShowsDone
  <2> QED BY <1>5, <2>2, <2>4, <2>5, <2>6 DEF ApiStatement
<1>6. CASE (\E j \in Job : Handle(j) \/ Error(j) \/ Crash(j)) \/ ServerChooses \/ Sync(Server)
  <2>1. api' = api /\ (run' = "gone" <=> run = "gone")
    BY <1>6, ProcessFrame, GoneStays DEF DocInv
  <2>2. store \subseteq store'
    BY <1>1, <1>6
       DEF Handle, Sync, Collect, Refuse, Check, Build, InsertChunks, RecordIds, CountChunks,
           CountKbChunks, Finish, Cleanup, AckTask, Error, Crash, ServerChooses, ReadTasks,
           ReadDocument, WriteDocument
  <2>3. api # PRows
    BY <2>1 DEF Preparing
  <2>4. ASSUME NEW s \in Job \cup {Server}, Sync(s)
        PROVE  ShowsDone \/ FullParts \subseteq store
    BY <1>1, <2>3, <2>4, ShowsDoneStep
  <2>5. ASSUME NEW j \in Job, (Handle(j) /\ ~Sync(j)) \/ Error(j) \/ Crash(j)
        PROVE  ShowsDone
    <3>1. /\ run' = run
          /\ \A s \in Job \cup {Server} :
               stage'[s] \in {"read-doc", "write-log"} =>
                 stage'[s] = stage[s] /\ snap'[s].run = snap[s].run
      <4> USE DEF SetStage, Idle
      <4>1. CASE Collect(j) \/ Refuse(j) \/ AckTask(j)
        BY <1>1, <4>1 DEF Collect, Refuse, AckTask, docVars, TypeOK
      <4>2. CASE Crash(j)
        BY <1>1, <4>2 DEF Crash, docVars, TypeOK
      <4>3. CASE Check(j)
        BY <1>1, <4>3 DEF Check, Checks, NextStage, docVars, TypeOK
      <4>4. CASE Build(j) \/ InsertChunks(j) \/ RecordIds(j) \/ Error(j)
        BY <1>1, <4>4 DEF Build, InsertChunks, RecordIds, Error, docVars, TypeOK
      <4>5. CASE CountChunks(j) \/ CountKbChunks(j) \/ Finish(j) \/ Cleanup(j)
        BY <1>1, <4>5 DEF CountChunks, CountKbChunks, Finish, Cleanup, docVars, TypeOK
      <4> QED BY <2>5, <4>1, <4>2, <4>3, <4>4, <4>5 DEF Handle
    <3> QED BY <3>1 DEF ShowsDone
  <2>6. ASSUME ServerChooses PROVE ShowsDone
    <3>1. run' = run /\ snap' = snap
      BY <2>6 DEF ServerChooses, docVars
    <3>2. \A s \in Job \cup {Server} : stage'[s] = stage[s] \/ stage'[s] = "record-log"
      BY <1>1, <2>6 DEF ServerChooses, SetStage, TypeOK
    <3> QED BY <3>1, <3>2 DEF ShowsDone
  <2> QED BY <1>2, <1>6, <2>1, <2>2, <2>4, <2>5, <2>6
<1>7. CASE UNCHANGED vars
  BY <1>2, <1>7 DEF vars, docVars, procVars, apiVars, ShowsDone
<1> QED BY <1>3, <1>4, <1>5, <1>6, <1>7 DEF Next

\* The first run never shows DONE over missing chunks, whatever was delivered
\* again, crashed, failed or was canceled too late on the way.
THEOREM DocDoneIsIndexed == Spec => []DoneIsIndexed
<1>1. Init => FirstInv
  BY Tags, JobPart DEF Init, FirstInv, FlagsOK, DoneOK, ShowsDone, Publishing, Idle
<1>2. DocInv /\ RerunInv /\ FirstInv /\ [Next]_vars => FirstInv'
  BY NextFlagsOK, NextDoneOK DEF FirstInv
<1>3. DocInv /\ FirstInv => DoneIsIndexed
  <2> SUFFICES ASSUME DocInv, FirstInv, api = <<>>, runs <= 1, run = "DONE"
               PROVE  FullParts \subseteq store
    BY DEF DoneIsIndexed
  <2>1. First
    BY IngestAssumption DEF DocInv, TypeInv, RunsBound, First
  <2>2. api \notin Flagged \cup Preparing \cup Removing
    BY Phases, Tags DEF Flagged
  <2> QED BY <2>1, <2>2 DEF FirstInv, FlagsOK, DoneOK, ShowsDone
<1>4. DocInv /\ RerunInv /\ [Next]_vars => RerunInv'
  BY NextRerunInv
<1> QED BY InitDocInv, NextDocInv, InitRerunInv, <1>1, <1>2, <1>3, <1>4, PTL DEF Spec

----------------------------------------------------------------------------
(* Without a crash: what a canceled first run leaves.                      *)

\* A task of the first run has no chunk in the store before it is inserted;
\* when it ended as -1 it has one only until its handler's finally clause.
InsertedOK ==
  /\ crashes \in Nat
  /\ First /\ crashes = 0 =>
       \A j \in Job : j[1] = 1 =>
         /\ stage[j] \in Early \/ j \notin leased \cup done => Part(j) \notin store
         /\ j \in rows /\ prog[j] = Bad /\ Part(j) \in store
              => stage[j] = "cleanup" /\ j \in flag

\* Crashes are counted.
LEMMA CrashesStep ==
  ASSUME crashes \in Nat, [Next]_vars
  PROVE  /\ crashes' \in Nat
         /\ crashes' = 0 => crashes = 0 /\ \A j \in Job : ~Crash(j)
<1>1. CASE UserRequest
  BY <1>1, CallCases DEF Crash
<1>2. CASE ApiStatement
  BY <1>2, ApiFrame DEF Crash
<1>3. ASSUME NEW j \in Job, Handle(j) \/ Error(j)
      PROVE  crashes' = crashes
  BY <1>3
     DEF Handle, Sync, Collect, Refuse, Check, Build, InsertChunks, RecordIds, CountChunks,
         CountKbChunks, Finish, Cleanup, AckTask, Error, ReadTasks, ReadDocument,
         WriteDocument
<1>4. CASE ServerChooses \/ Sync(Server)
  BY <1>4 DEF ServerChooses, Sync, ReadTasks, ReadDocument, WriteDocument, Crash
<1>5. CASE UNCHANGED vars
  BY <1>5 DEF vars, Crash
<1>6. ASSUME NEW j \in Job, Crash(j)
      PROVE  crashes' = crashes + 1
  BY <1>6 DEF Crash
<1> QED BY <1>1, <1>2, <1>3, <1>4, <1>5, <1>6 DEF Next

\* In the first run, whoever works on a part works on its only task.
LEMMA FirstJobs ==
  ASSUME TypeOK, RunsOK, StagesOK, First
  PROVE  /\ \A j, k \in Job : j[1] = 1 /\ k[1] = 1 /\ Part(j) = Part(k) => j = k
         /\ \A j \in Job : stage[j] # Idle \/ j \in todo => j[1] = 1 /\ runs = 1
<1>1. \A j \in Job : j[1] \in Nat /\ j[1] >= 1 /\ j = <<j[1], j[2]>>
  BY DEF Job
<1>2. \A j \in todo \cup leased : j \in Job /\ j[1] <= runs
  BY DEF RunsOK, TypeOK
<1> QED BY <1>1, <1>2 DEF Part, First, StagesOK

\* When a handler ends a task as -1 and leaves its chunks, its "cleanup" is still
\* to come.
LEMMA HandlerInsertedOK ==
  ASSUME DocInv, InsertedOK, First, crashes = 0, NEW j \in Job, Handle(j) \/ Error(j),
         NEW k \in Job, k[1] = 1
  PROVE  /\ stage'[k] \in Early \/ k \notin leased' \cup done' => Part(k) \notin store'
         /\ k \in rows' /\ prog'[k] = Bad /\ Part(k) \in store'
              => stage'[k] = "cleanup" /\ k \in flag'
<1>1. TypeOK /\ RunsOK /\ StagesOK /\ QueueOK /\ ProgOK
  BY DEF DocInv, TypeInv, Book
<1>2. /\ stage[k] \in Early \/ k \notin leased \cup done => Part(k) \notin store
      /\ k \in rows /\ prog[k] = Bad /\ Part(k) \in store => stage[k] = "cleanup" /\ k \in flag
  BY DEF InsertedOK
<1>3. rows' = rows /\ flag' = flag
  BY <1>1, ProcessRows
<1>4. j \in todo \/ stage[j] # Idle => Part(j) # Part(k) \/ j = k
  BY <1>1, FirstJobs
<1> USE DEF SetStage, Idle
<1>5. CASE Collect(j)
  BY <1>1, <1>2, <1>3, <1>5 DEF Collect, CountAttempt, Queue!Lease, QueueOK, TypeOK, Early
<1>6. CASE Refuse(j) \/ AckTask(j)
  BY <1>1, <1>2, <1>3, <1>6 DEF Refuse, AckTask, Queue!Complete, taskVars, TypeOK, Early
<1>7. CASE Check(j)
  <2>1. store' = store /\ leased' = leased /\ done' = done
    BY <1>7 DEF Check, queueVars
  <2>2. CASE k = j
    <3>1. CASE j \in flag
      BY <1>1, <1>2, <1>3, <1>7, <2>1, <2>2, <3>1
         DEF Check, UpdateProgress, Checks, NextStage, TypeOK, Early
    <3>2. CASE j \notin flag
      BY <1>1, <1>2, <1>3, <1>7, <2>1, <2>2, <3>2
         DEF Check, Checks, NextStage, TypeOK, Early
    <3> QED BY <3>1, <3>2
  <2>3. CASE k # j
    BY <1>1, <1>2, <1>3, <1>7, <2>1, <2>3 DEF Check, UpdateProgress, TypeOK
  <2> QED BY <2>2, <2>3
<1>8. CASE Build(j)
  BY <1>1, <1>2, <1>3, <1>8 DEF Build, UpdateProgress, queueVars, TypeOK, Early
<1>9. CASE InsertChunks(j)
  <2>1. CASE k = j
    BY <1>1, <1>3, <1>9, <2>1
       DEF InsertChunks, taskVars, queueVars, StagesOK, ProgOK, TypeOK, Early, Some, Bad
  <2>2. CASE k # j
    BY <1>1, <1>2, <1>3, <1>4, <1>9, <2>2
       DEF InsertChunks, taskVars, queueVars, TypeOK
  <2> QED BY <2>1, <2>2
<1>10. CASE RecordIds(j) \/ CountChunks(j) \/ CountKbChunks(j)
  BY <1>1, <1>2, <1>3, <1>10
     DEF RecordIds, CountChunks, CountKbChunks, taskVars, queueVars, TypeOK, Early
<1>11. CASE Finish(j)
  BY <1>1, <1>2, <1>3, <1>11
     DEF Finish, UpdateProgress, ProgOK, Late, queueVars, TypeOK, Early, Some, Full, Bad
<1>12. CASE Cleanup(j)
  BY <1>1, <1>2, <1>3, <1>12 DEF Cleanup, taskVars, queueVars, TypeOK, Early
<1>13. CASE Sync(j)
  BY <1>1, <1>2, <1>3, <1>13, JobPart
     DEF Sync, ReadTasks, ReadDocument, WriteDocument, SyncEnds, taskVars, queueVars, TypeOK,
         Early
<1>14. CASE Error(j)
  BY <1>1, <1>2, <1>3, <1>14
     DEF Error, UpdateProgress, queueVars, TypeOK, Early
<1> QED BY <1>5, <1>6, <1>7, <1>8, <1>9, <1>10, <1>11, <1>12, <1>13, <1>14 DEF Handle

\* Calls insert no chunks and end no task of the first run.
LEMMA ApiInsertedOK ==
  ASSUME DocInv, InsertedOK, crashes = 0, ApiStatement, First', NEW k \in Job, k[1] = 1
  PROVE  /\ stage'[k] \in Early \/ k \notin leased' \cup done' => Part(k) \notin store'
         /\ k \in rows' /\ prog'[k] = Bad /\ Part(k) \in store'
              => stage'[k] = "cleanup" /\ k \in flag'
<1>1. First
  BY RunsStep DEF Next
<1>2. /\ stage[k] \in Early \/ k \notin leased \cup done => Part(k) \notin store
      /\ k \in rows /\ prog[k] = Bad /\ Part(k) \in store => stage[k] = "cleanup" /\ k \in flag
  BY <1>1 DEF InsertedOK
<1>3. stage' = stage /\ leased' = leased /\ done' = done
  BY ApiFrame
<1>4. store' \subseteq store /\ flag \subseteq flag'
  BY DEF ApiStatement, UncountDocument, MarkRunning, MarkCanceled, SetFlags, DeleteRows,
         DeleteChunks, DropDocument, PlanTasks, PruneChunks, SetChunkNum, InsertTasks,
         BeginParse, PublishDone, PublishTask
<1>5. CASE InsertTasks
  <2>1. prog[k] = Zero
    <3>1. runs = 0
      BY <1>5, FirstInsert
    <3> QED BY <3>1 DEF DocInv, Book, RunsOK
  <2>2. prog'[k] # Bad
    BY <1>5, <2>1 DEF InsertTasks, Zero, Full, Bad
  <2> QED BY <1>2, <1>3, <1>4, <2>2
<1>6. CASE ~InsertTasks
  <2>1. rows' \subseteq rows /\ prog' = prog
    BY <1>6
       DEF ApiStatement, UncountDocument, MarkRunning, MarkCanceled, SetFlags, DeleteRows,
           DeleteChunks, DropDocument, PlanTasks, PruneChunks, SetChunkNum,
           BeginParse, PublishDone, PublishTask, taskVars
  <2> QED BY <1>2, <1>3, <1>4, <2>1
<1> QED BY <1>5, <1>6

\* InsertedOK is inductive, given the bookkeeping.
LEMMA NextInsertedOK ==
  ASSUME DocInv, InsertedOK, [Next]_vars
  PROVE  InsertedOK'
<1>1. crashes' \in Nat
  BY CrashesStep DEF InsertedOK
<1> SUFFICES ASSUME First', crashes' = 0, NEW k \in Job, k[1] = 1
             PROVE  /\ stage'[k] \in Early \/ k \notin leased' \cup done' => Part(k) \notin store'
                    /\ k \in rows' /\ prog'[k] = Bad /\ Part(k) \in store'
                         => stage'[k] = "cleanup" /\ k \in flag'
  BY <1>1 DEF InsertedOK
<1>2. First /\ crashes = 0 /\ \A j \in Job : ~Crash(j)
  BY RunsStep, CrashesStep DEF InsertedOK
<1>3. /\ stage[k] \in Early \/ k \notin leased \cup done => Part(k) \notin store
      /\ k \in rows /\ prog[k] = Bad /\ Part(k) \in store => stage[k] = "cleanup" /\ k \in flag
  BY <1>2 DEF InsertedOK
<1>4. CASE UserRequest
  BY <1>3, <1>4, CallCases
<1>5. CASE ApiStatement
  BY <1>2, <1>5, ApiInsertedOK
<1>6. ASSUME NEW j \in Job, Handle(j) \/ Error(j)
      PROVE  /\ stage'[k] \in Early \/ k \notin leased' \cup done' => Part(k) \notin store'
             /\ k \in rows' /\ prog'[k] = Bad /\ Part(k) \in store'
                  => stage'[k] = "cleanup" /\ k \in flag'
  BY <1>2, <1>6, HandlerInsertedOK
<1>7. CASE ServerChooses \/ Sync(Server)
  <2>1. stage'[k] = stage[k]
    BY <1>7, JobPart
       DEF ServerChooses, Sync, ReadTasks, ReadDocument, WriteDocument, SyncEnds, SetStage,
           DocInv, TypeInv, TypeOK
  <2>2. UNCHANGED <<rows, prog, store, flag, leased, done>>
    BY <1>7
       DEF ServerChooses, Sync, ReadTasks, ReadDocument, WriteDocument, taskVars, queueVars
  <2> QED BY <1>3, <2>1, <2>2
<1>8. CASE UNCHANGED vars
  BY <1>3, <1>8 DEF vars, taskVars, queueVars, procVars
<1> QED BY <1>2, <1>4, <1>5, <1>6, <1>7, <1>8 DEF Next

\* In the first run a task that ended as canceled has no chunk left when all
\* is quiet, whichever statement its handler was at when the flag was set and
\* whether or not the store, the parser or the model failed.
THEOREM DocCanceledLeavesNothing == Spec => []CanceledLeavesNothing
<1>1. Init => InsertedOK
  BY DEF Init, InsertedOK
<1>2. DocInv /\ InsertedOK /\ [Next]_vars => InsertedOK'
  BY NextInsertedOK
<1>3. DocInv /\ InsertedOK => CanceledLeavesNothing
  <2> SUFFICES ASSUME DocInv, InsertedOK, Quiet, runs <= 1, crashes = 0,
                      NEW j \in rows \cap flag, prog[j] = Bad
               PROVE  Part(j) \notin store
    BY DEF CanceledLeavesNothing
  <2>1. First
    BY IngestAssumption DEF DocInv, TypeInv, RunsBound, First
  <2>2. j \in Job /\ j[1] = 1
    BY <2>1 DEF DocInv, TypeInv, TypeOK, Book, RowsOK, First
  <2>3. stage[j] = Idle
    BY <2>2 DEF Quiet, DocInv, Book, StagesOK
  <2> QED BY <2>1, <2>2, <2>3 DEF InsertedOK, Idle
<1> QED BY InitDocInv, NextDocInv, <1>1, <1>2, <1>3, PTL DEF Spec

----------------------------------------------------------------------------
(* Unless /document/rm is used, which deletes the task rows before it sets *)
(* the flags: what a removed document leaves.                              *)

\* Calls that have flagged the tasks of the document they remove.
Doomed == {XRows, XStore, XDrop}

\* A task that can still be worked on has a row or a flag; once its document is
\* about to go it has a flag.
AliveOK ==
  /\ api # XRm
  /\ \A j \in todo \cup leased : j[1] = runs =>
       /\ j \in rows \cup flag \/ api \in Preparing
       /\ api \in Doomed \/ run = "gone" => j \in flag

\* AliveOK is inductive, given the bookkeeping: DELETE sets the flags before it
\* deletes the rows, and nobody takes up a task without a row.
LEMMA NextAliveOK ==
  ASSUME "rm" \notin Requests, DocInv, AliveOK, [Next]_vars
  PROVE  AliveOK'
<1>1. TypeOK /\ ApiOK /\ RunsOK /\ RowsOK
  BY DEF DocInv, TypeInv, Book
<1>2. CASE UserRequest
  <2>1. /\ api = <<>> /\ run # "gone" /\ UNCHANGED <<run, rows, flag, todo, leased, runs>>
        /\ api' # XRm /\ api' \notin Doomed
    BY <1>2, CallCases, Tags DEF Doomed
  <2> QED BY <2>1, Phases DEF AliveOK
<1>3. CASE ApiStatement
  <2>1. run # "gone" /\ api # <<>>
    BY <1>1, <1>3
       DEF RowsOK, ApiStatement, UncountDocument, MarkRunning, MarkCanceled, SetFlags,
           DeleteRows, DeleteChunks, DropDocument, PlanTasks, PruneChunks, SetChunkNum,
           InsertTasks, BeginParse, PublishDone, PublishTask, Statement
  <2>2. CASE InsertTasks
    <3>1. api' = QBegin /\ runs' = runs + 1 /\ runs \in Nat
      BY <2>2, NewJobs DEF DocInv
    <3>2. todo' = todo /\ leased' = leased
      BY <2>2, StatementFrame DEF InsertTasks
    <3>3. \A j \in todo \cup leased : j[1] <= runs /\ j[1] \in Nat
      BY <1>1 DEF RunsOK, TypeOK, Job
    <3>4. api' # XRm
      BY <3>1, Tags
    <3> QED BY <3>1, <3>2, <3>3, <3>4 DEF AliveOK
  <2>3. CASE PublishTask
    <3>1. PICK i \in unsent : todo' = todo \cup {i}
      BY <2>3 DEF PublishTask, Queue!Submit
    <3>2. i \in rows /\ api \in Publishing
      BY <1>1 DEF RunsOK
    <3>3. api \notin Doomed
      BY <3>2, Tags DEF Doomed, Publishing
    <3>4. UNCHANGED <<api, run, rows, flag, leased, runs>>
      BY <2>3 DEF PublishTask, Queue!Submit, docVars, taskVars
    <3> QED BY <2>1, <3>1, <3>2, <3>3, <3>4 DEF AliveOK
  <2>4. ASSUME NEW s, Statement(s), s \notin {"insert", "flags"}
        PROVE  /\ api' # XRm
               /\ api \in Preparing => api' \in Preparing
               /\ api' \in Doomed => api \in Doomed
    <3>1. api' # XRm /\ (api' \in Doomed => api \in Doomed)
      <4>1. CASE api \in Removing
        BY <2>4, <4>1, StatementTable, Tags DEF Removing, Doomed, AliveOK
      <4>2. CASE api \notin Removing
        BY <1>1, <2>4, <4>2, StatementPhases DEF Removing, Doomed
      <4> QED BY <4>1, <4>2
    <3> QED BY <1>1, <2>4, <3>1, StatementPhases
  <2>5. CASE SetFlags
    <3>1. \/ api = CFlags /\ api' = CCancel
          \/ api = SFlags /\ api' = SStop
          \/ api = XFlags /\ api' = XRows
      BY <1>1, <2>5, StatementCases DEF SetFlags
    <3>2. api \notin Preparing /\ api' # XRm
      <4>1. api \in Stopping \cup Removing
        BY <3>1 DEF Stopping, Removing
      <4> QED BY <3>1, <4>1, Phases, Tags
    <3>3. /\ UNCHANGED <<run, rows, runs, todo, leased>> /\ flag' = flag \cup rows
      BY <2>5, StatementFrame DEF SetFlags, docVars, planVars
    <3> QED BY <2>1, <3>2, <3>3 DEF AliveOK
  <2>6. CASE DeleteRows
    <3>1. /\ UNCHANGED <<run, flag, runs, todo, leased>>
      BY <2>6, StatementFrame DEF DeleteRows, docVars, planVars
    <3>2. /\ api' # XRm /\ (api' \in Doomed => api \in Doomed)
          /\ api \in Preparing => api' \in Preparing
      BY <2>4, <2>6 DEF DeleteRows
    <3>3. api \in Preparing \cup Doomed
      BY <1>1, <2>6, StatementCases
         DEF DeleteRows, Preparing, Planned, Wiping, Doomed, AliveOK
    <3> QED BY <2>1, <3>1, <3>2, <3>3 DEF AliveOK
  <2>7. CASE DropDocument
    <3>1. /\ UNCHANGED <<rows, flag, runs, todo, leased>> /\ api = XDrop
      BY <1>1, <2>7, StatementFrame, StatementCases DEF DropDocument, docVars, planVars
    <3>2. api' # XRm
      BY <2>4, <2>7 DEF DropDocument
    <3> QED BY <3>1, <3>2 DEF AliveOK, Doomed
  <2>8. CASE UncountDocument \/ MarkRunning \/ MarkCanceled \/ DeleteChunks \/ PlanTasks
             \/ PruneChunks \/ SetChunkNum \/ BeginParse \/ PublishDone
    <3>1. /\ UNCHANGED <<rows, flag, runs, todo, leased>> /\ run' # "gone"
      BY <2>1, <2>8, StatementFrame
         DEF UncountDocument, MarkRunning, MarkCanceled, DeleteChunks, PlanTasks,
             PruneChunks, SetChunkNum, BeginParse, PublishDone, docVars, planVars
    <3>2. /\ api' # XRm /\ (api' \in Doomed => api \in Doomed)
          /\ api \in Preparing => api' \in Preparing
      BY <2>4, <2>8
         DEF UncountDocument, MarkRunning, MarkCanceled, DeleteChunks, PlanTasks,
             PruneChunks, SetChunkNum, BeginParse, PublishDone
    <3> QED BY <3>1, <3>2 DEF AliveOK
  <2> QED BY <1>3, <2>2, <2>3, <2>5, <2>6, <2>7, <2>8 DEF ApiStatement
<1>4. CASE (\E j \in Job : Handle(j) \/ Error(j) \/ Crash(j)) \/ ServerChooses \/ Sync(Server)
  <2>1. /\ UNCHANGED <<api, runs, rows, flag>>
        /\ run' = "gone" <=> run = "gone"
    BY <1>1, <1>4, ProcessFrame, ProcessRows, GoneStays DEF DocInv
  <2>2. todo' \cup leased' \subseteq todo \cup leased
    BY <1>4
       DEF Handle, Sync, Collect, Refuse, Check, Build, InsertChunks, RecordIds, CountChunks,
           CountKbChunks, Finish, Cleanup, AckTask, Error, Crash, ServerChooses, ReadTasks,
           ReadDocument, WriteDocument, queueVars, Queue!Lease, Queue!Complete, Queue!Return
  <2> QED BY <2>1, <2>2 DEF AliveOK
<1>5. CASE UNCHANGED vars
  BY <1>5 DEF vars, docVars, taskVars, queueVars, apiVars, planVars, AliveOK
<1> QED BY <1>2, <1>3, <1>4, <1>5 DEF Next

\* Whoever still works on the last run of a removed document finds its cancel
\* flag, in every run, as long as documents are removed by the SDK's DELETE.
THEOREM DocRemovedIsCanceled ==
  ASSUME "rm" \notin Requests
  PROVE  Spec => []RemovedIsCanceled
<1>1. Init => AliveOK
  BY Tags DEF Init, Queue!Init, AliveOK
<1>2. DocInv /\ AliveOK /\ [Next]_vars => AliveOK'
  BY NextAliveOK
<1>3. AliveOK => RemovedIsCanceled
  BY DEF AliveOK, RemovedIsCanceled
<1> QED BY InitDocInv, NextDocInv, <1>1, <1>2, <1>3, PTL DEF Spec

\* Once the chunks of a document to be dropped are deleted, new ones come from
\* handlers that will run the finally clause with their flag set.
GoneOK ==
  /\ crashes \in Nat
  /\ First /\ crashes = 0 /\ (api = XDrop \/ run = "gone") =>
       \/ store = {}
       \/ \E j \in leased : stage[j] \in Late \cup {"cleanup"} /\ j \in flag

\* What a handler inserts for a document without chunks, it will remove.
LEMMA HandlerGoneOK ==
  ASSUME DocInv, AliveOK, First, api = XDrop \/ run = "gone",
         \/ store = {}
         \/ \E j \in leased : stage[j] \in Late \cup {"cleanup"} /\ j \in flag,
         NEW j \in Job, Handle(j) \/ Error(j)
  PROVE  \/ store' = {}
         \/ \E i \in leased' : stage'[i] \in Late \cup {"cleanup"} /\ i \in flag'
<1>1. TypeOK /\ RunsOK /\ StagesOK /\ QueueOK
  BY DEF DocInv, TypeInv, Book
<1>2. flag' = flag
  BY <1>1, ProcessRows
<1>3. stage[j] # Idle => j \in leased /\ j \in flag
  BY <1>1, FirstJobs DEF AliveOK, Doomed, StagesOK
<1>4. ASSUME store' = store, stage[j] \notin Late \cup {"cleanup"},
             \A i \in Job : i # j => stage'[i] = stage[i],
             leased \ {j} \subseteq leased'
      PROVE  \/ store' = {}
             \/ \E i \in leased' : stage'[i] \in Late \cup {"cleanup"} /\ i \in flag'
  BY <1>1, <1>2, <1>4 DEF TypeOK
<1> USE DEF SetStage, Idle
<1>5. CASE Collect(j) \/ Refuse(j) \/ AckTask(j)
  <2>1. store' = store /\ stage[j] \notin Late \cup {"cleanup"}
        /\ leased \ {j} \subseteq leased'
    BY <1>1, <1>5
       DEF Collect, Refuse, AckTask, Queue!Lease, Queue!Complete, Late, StagesOK,
           QueueOK
  <2>2. \A i \in Job : i # j => stage'[i] = stage[i]
    BY <1>1, <1>5 DEF Collect, Refuse, AckTask, TypeOK
  <2> QED BY <1>4, <2>1, <2>2
<1>6. CASE Check(j)
  <2>1. leased' = leased /\ stage[j] # "idle"
    BY <1>6 DEF Check, Checks, NextStage, queueVars
  <2>2. stage'[j] = IF stage[j] = "begin" THEN "record-log" ELSE "cleanup"
    BY <1>1, <1>3, <1>6, <2>1 DEF Check, TypeOK
  <2>3. CASE stage[j] = "begin"
    BY <1>1, <1>4, <1>6, <2>1, <2>3 DEF Check, TypeOK, Late
  <2> QED BY <1>2, <1>3, <2>1, <2>2, <2>3
<1>7. CASE Build(j) \/ Error(j)
  <2>1. store' = store /\ leased' = leased /\ stage[j] \notin Late \cup {"cleanup"}
    BY <1>7 DEF Build, Error, queueVars, Late
  <2>2. \A i \in Job : i # j => stage'[i] = stage[i]
    BY <1>1, <1>7 DEF Build, Error, TypeOK
  <2> QED BY <1>4, <2>1, <2>2
<1>8. CASE InsertChunks(j) \/ RecordIds(j) \/ CountChunks(j) \/ CountKbChunks(j) \/ Finish(j)
  <2>1. leased' = leased /\ stage[j] # Idle /\ stage'[j] \in Late \cup {"cleanup"}
    BY <1>1, <1>8
       DEF InsertChunks, RecordIds, CountChunks, CountKbChunks, Finish, queueVars, TypeOK, Late
  <2> QED BY <1>2, <1>3, <2>1
<1>9. CASE Cleanup(j)
  BY <1>3, <1>9 DEF Cleanup
<1>10. CASE Sync(j)
  <2>1. store' = store /\ leased' = leased /\ stage[j] \notin Late \cup {"cleanup"}
    BY <1>10 DEF Sync, ReadTasks, ReadDocument, WriteDocument, queueVars, Late
  <2>2. \A i \in Job : i # j => stage'[i] = stage[i]
    BY <1>1, <1>10 DEF Sync, ReadTasks, ReadDocument, WriteDocument, SyncEnds, TypeOK
  <2> QED BY <1>4, <2>1, <2>2
<1> QED BY <1>5, <1>6, <1>7, <1>8, <1>9, <1>10 DEF Handle

\* GoneOK is inductive, given AliveOK and the bookkeeping.
LEMMA NextGoneOK ==
  ASSUME DocInv, AliveOK, GoneOK, [Next]_vars
  PROVE  GoneOK'
<1>1. crashes' \in Nat
  BY CrashesStep DEF GoneOK
<1> SUFFICES ASSUME First', crashes' = 0, api' = XDrop \/ run' = "gone"
             PROVE  \/ store' = {}
                    \/ \E j \in leased' : stage'[j] \in Late \cup {"cleanup"} /\ j \in flag'
  BY <1>1 DEF GoneOK
<1>2. First /\ crashes = 0 /\ (\A j \in Job : ~Crash(j)) /\ TypeOK /\ ApiOK /\ RowsOK
  BY RunsStep, CrashesStep DEF GoneOK, DocInv, TypeInv, Book
<1>3. api = XDrop \/ run = "gone" =>
        \/ store = {}
        \/ \E j \in leased : stage[j] \in Late \cup {"cleanup"} /\ j \in flag
  BY <1>2 DEF GoneOK
<1>4. CASE UserRequest
  BY <1>3, <1>4, CallCases, Tags
<1>5. CASE ApiStatement
  <2>1. leased' = leased /\ stage' = stage /\ flag \subseteq flag'
    BY <1>5, ApiFrame, FlagsStay DEF Next
  <2>2. run # "gone"
    BY <1>2, <1>5
       DEF RowsOK, ApiStatement, UncountDocument, MarkRunning, MarkCanceled, SetFlags,
           DeleteRows, DeleteChunks, DropDocument, PlanTasks, PruneChunks, SetChunkNum,
           InsertTasks, BeginParse, PublishDone, PublishTask, Statement
  <2>3. CASE DeleteChunks
    BY <2>3 DEF DeleteChunks
  <2>4. CASE DropDocument
    <3>1. api = XDrop /\ store' = store
      BY <1>2, <2>4, StatementCases DEF DropDocument
    <3> QED BY <1>3, <2>1, <3>1
  <2>5. CASE PublishTask
    <3>1. api' = api /\ run' = run /\ store' = store
      BY <2>5 DEF PublishTask, docVars
    <3> QED BY <1>3, <2>1, <3>1
  <2>6. CASE ~DeleteChunks /\ ~DropDocument /\ ~PublishTask
    <3>1. run' # "gone"
      BY <1>5, <2>2, <2>6
         DEF ApiStatement, UncountDocument, MarkRunning, MarkCanceled, SetFlags, DeleteRows,
             PlanTasks, PruneChunks, SetChunkNum, InsertTasks, BeginParse, PublishDone,
             docVars
    <3>2. ASSUME NEW s, Statement(s), s # "store"
          PROVE  api' # XDrop
      <4>1. CASE api \in Removing
        BY <3>2, <4>1, StatementTable, Tags DEF Removing
      <4>2. CASE api \notin Removing
        BY <1>2, <3>2, <4>2, StatementPhases DEF Removing
      <4> QED BY <4>1, <4>2
    <3>3. api' # XDrop
      BY <1>5, <2>6, <3>2
         DEF ApiStatement, UncountDocument, MarkRunning, MarkCanceled, SetFlags, DeleteRows,
             PlanTasks, PruneChunks, SetChunkNum, InsertTasks, BeginParse, PublishDone
    <3> QED BY <3>1, <3>3
  <2> QED BY <2>3, <2>4, <2>5, <2>6
<1>6. CASE (\E j \in Job : Handle(j) \/ Error(j)) \/ ServerChooses \/ Sync(Server)
  <2>1. api = XDrop \/ run = "gone"
    BY <1>6, ProcessFrame, GoneStays DEF DocInv
  <2>2. ASSUME NEW j \in Job, Handle(j) \/ Error(j)
        PROVE  \/ store' = {}
               \/ \E i \in leased' : stage'[i] \in Late \cup {"cleanup"} /\ i \in flag'
    BY <1>2, <1>3, <2>1, <2>2, HandlerGoneOK
  <2>3. CASE ServerChooses \/ Sync(Server)
    <3>1. \A j \in Job : stage'[j] = stage[j]
      BY <1>2, <2>3, JobPart
         DEF ServerChooses, Sync, ReadTasks, ReadDocument, WriteDocument, SyncEnds, SetStage,
             TypeOK
    <3>2. UNCHANGED <<store, flag, leased>> /\ leased \subseteq Job
      BY <1>2, <2>3
         DEF ServerChooses, Sync, ReadTasks, ReadDocument, WriteDocument, queueVars, TypeOK
    <3> QED BY <1>3, <2>1, <3>1, <3>2
  <2> QED BY <1>6, <2>2, <2>3
<1>7. CASE UNCHANGED vars
  BY <1>3, <1>7 DEF vars, docVars, queueVars, procVars, apiVars
<1> QED BY <1>2, <1>4, <1>5, <1>6, <1>7 DEF Next

\* A document removed during its first run by the SDK's DELETE leaves no chunk
\* when all is quiet, although its handlers go on inserting, and fail, after
\* remove_document has deleted the chunks and dropped the row.
THEOREM DocRemovedLeavesNothing ==
  ASSUME "rm" \notin Requests
  PROVE  Spec => []RemovedLeavesNothing
<1>1. Init => AliveOK /\ GoneOK
  BY Tags DEF Init, Queue!Init, AliveOK, GoneOK
<1>2. DocInv /\ AliveOK /\ [Next]_vars => AliveOK'
  BY NextAliveOK
<1>3. DocInv /\ AliveOK /\ GoneOK /\ [Next]_vars => GoneOK'
  BY NextGoneOK
<1>4. DocInv /\ GoneOK => RemovedLeavesNothing
  BY IngestAssumption DEF DocInv, TypeInv, RunsBound, First, GoneOK, RemovedLeavesNothing, Quiet
<1> QED BY InitDocInv, NextDocInv, <1>1, <1>2, <1>3, <1>4, PTL DEF Spec
=============================================================================
