--------------------------- MODULE TaskQueueProofs ---------------------------
(***************************************************************************)
(* Proofs about TaskQueue, for any number of tasks, executors and slots    *)
(* and any bounds.  IInv extends the checked invariants with two facts     *)
(* about collect that AttemptsBounded rests on: an executor collects one   *)
(* message at a time, and the retry_count it has read is still at least    *)
(* the number of starts when it is written back.  Every step maps to one   *)
(* of WorkQueue, and StrandInv adds what NoStrandedTask needs.             *)
(***************************************************************************)
EXTENDS TaskQueue, SequenceTheorems, TLAPS

OneCollect == \A e \in Executors : \A m, n \in Collecting(e) : m = n

RetryCounts ==
  \A t \in Tasks : PublishedOnce(t) =>
    /\ starts[t] <= 3
    /\ row[t] # "deleted" => starts[t] <= retry[t]
    /\ \A e \in Executors : \A m \in Published :
         job[e][m] = "selected" /\ stream[m] = t => starts[t] <= seen[e]

IInv ==
  TypeOK /\ DeliveredOnce /\ HandlerOwnsMessage /\ OneCollect /\ RetryCounts

\* The inductive invariant holds initially.
LEMMA InitIInv == Init => IInv
<1> SUFFICES ASSUME Init PROVE IInv
  OBVIOUS
<1> USE QueueAssumption DEF Init, Idle
<1>1. TypeOK
  BY DEF TypeOK, Progress, Queued, Stages, MsgId
<1>2. DeliveredOnce
  BY DEF DeliveredOnce
<1>3. HandlerOwnsMessage
  BY DEF HandlerOwnsMessage, InHand
<1>4. OneCollect
  BY DEF OneCollect, Collecting
<1>5. RetryCounts
  BY DEF RetryCounts, Published, MsgId
<1> QED BY <1>1, <1>2, <1>3, <1>4, <1>5 DEF IInv

\* A message in hand was published: stream[m] is a task.
LEMMA InHandPublished ==
  ASSUME TypeOK, DeliveredOnce, HandlerOwnsMessage,
         NEW e \in Executors, NEW m \in MsgId, job[e][m] # Idle
  PROVE  m \in Published /\ m \in 1 .. lastId /\ stream[m] \in Tasks
         /\ m \in pel[e] /\ m \notin replay[e]
<1>1. m \in pel[e] /\ m \notin replay[e]
  BY DEF HandlerOwnsMessage, InHand
<1>2. m \in 1 .. lastId
  BY <1>1 DEF DeliveredOnce
<1>3. m \in 1 .. Len(stream)
  BY <1>2 DEF TypeOK
<1> QED BY <1>1, <1>2, <1>3 DEF TypeOK, Published

----------------------------------------------------------------------------
(* Types.                                                                  *)

LEMMA SendTypeOK ==
  ASSUME TypeOK, NEW t \in Tasks, NEW s \in Seq(Tasks), Send(t, s)
  PROVE  TypeOK'
<1>1. stream \o s \in Seq(Tasks) /\ Len(stream \o s) = Len(stream) + Len(s)
  BY DEF TypeOK
<1> QED BY <1>1 DEF TypeOK, Send, redisVars, procVars

\* A handler's next stage is a stage.
LEMMA SetJobType ==
  ASSUME TypeOK, NEW e \in Executors, NEW m \in MsgId, NEW s \in Stages,
         SetJob(e, m, s)
  PROVE  job' \in [Executors -> [MsgId -> Stages]]
BY DEF TypeOK, SetJob

\* An acknowledgement leaves sets of messages.
LEMMA AckType ==
  ASSUME TypeOK, NEW e \in Executors, NEW m \in MsgId, Ack(e, m)
  PROVE  /\ pel' \in [Executors -> SUBSET MsgId]
         /\ acked' \in SUBSET MsgId
BY DEF TypeOK, Ack

\* XREADGROUP delivers a message that is in the stream.
LEMMA ReadNewType ==
  ASSUME TypeOK, NEW e \in Executors, ReadNew(e)
  PROVE  /\ lastId + 1 \in MsgId
         /\ lastId' \in 0 .. Len(stream)
         /\ pel' \in [Executors -> SUBSET MsgId]
         /\ UNCHANGED <<stream, acked>>
<1>1. lastId + 1 \in MsgId
  BY QueueAssumption DEF TypeOK, ReadNew, MsgId
<1> QED BY <1>1 DEF TypeOK, ReadNew

\* get_task writes a progress and a number of attempts.
LEMMA CountAttemptType ==
  ASSUME TypeOK, NEW e \in Executors, NEW t \in Tasks, NEW p \in Progress,
         CountAttempt(e, t, p)
  PROVE  /\ progress' \in [Tasks -> Progress]
         /\ retry' \in [Tasks -> Nat]
<1>1. seen[e] + 1 \in Nat
  BY DEF TypeOK
<1> QED BY <1>1 DEF TypeOK, CountAttempt

\* update_progress writes a progress.
LEMMA UpdateProgressType ==
  ASSUME TypeOK, NEW t \in Tasks, NEW p \in Progress, UpdateProgress(t, p)
  PROVE  progress' \in [Tasks -> Progress]
BY DEF TypeOK, UpdateProgress

\* Every step keeps the types; a message in hand must be known to be delivered.
LEMMA NextTypeOK ==
  ASSUME TypeOK, DeliveredOnce, HandlerOwnsMessage, [Next]_vars
  PROVE  TypeOK'
<1> USE DEF rowVars, redisVars, procVars
<1>1. ASSUME NEW t \in Tasks,
             InsertTask(t) \/ Cancel(t) \/ DeleteTask(t)
      PROVE  TypeOK'
  BY <1>1 DEF TypeOK, InsertTask, Cancel, DeleteTask
<1>2. ASSUME NEW t \in Tasks, Publish(t) \/ PublishTwice(t) PROVE TypeOK'
  <2>1. <<t>> \in Seq(Tasks) /\ <<t, t>> \in Seq(Tasks)
    OBVIOUS
  <2> QED BY <1>2, <2>1, SendTypeOK DEF Publish, PublishTwice
<1>3. ASSUME NEW e \in Executors, CollectUnacked(e) PROVE TypeOK'
  <2>1. PICK m \in replay[e] : replay' = [replay EXCEPT ![e] = @ \ {m}] /\ SetJob(e, m, "got")
    BY <1>3 DEF CollectUnacked
  <2>2. m \in MsgId /\ "got" \in Stages
    BY DEF TypeOK, Stages
  <2>3. job' \in [Executors -> [MsgId -> Stages]]
    BY <2>1, <2>2, SetJobType
  <2> QED BY <1>3, <2>1, <2>3 DEF CollectUnacked, TypeOK
<1>4. ASSUME NEW e \in Executors, CollectNew(e) PROVE TypeOK'
  <2>1. "got" \in Stages
    BY DEF Stages
  <2>2. lastId + 1 \in MsgId /\ ReadNew(e) /\ SetJob(e, lastId + 1, "got")
    BY <1>4, ReadNewType DEF CollectNew
  <2>3. job' \in [Executors -> [MsgId -> Stages]]
    BY <2>1, <2>2, SetJobType
  <2> QED BY <1>4, <2>2, <2>3, ReadNewType DEF CollectNew, TypeOK
<1>5. ASSUME NEW e \in Executors, CollectLost(e) PROVE TypeOK'
  BY <1>5, ReadNewType DEF CollectLost, TypeOK
<1>6. ASSUME NEW e \in Executors, NEW m \in MsgId,
             Handler(e, m) \/ FaultyHandler(e, m)
      PROVE  TypeOK'
  <2>1. job[e][m] # Idle
    BY <1>6 DEF Handler, FaultyHandler, SelectTask, DropUnknown, Abandon,
      DropCanceled, Start, LastCheck, Finish, Fail, Close, CollectRaises,
      ProgressLost, CloseRaises, Idle
  <2>2. stream[m] \in Tasks
    BY <2>1, InHandPublished
  <2>3. Started \in Progress /\ Done \in Progress /\ Failed \in Progress
    BY DEF Progress
  <2>4. /\ Idle \in Stages /\ "selected" \in Stages /\ "running" \in Stages
        /\ "finishing" \in Stages /\ "closing" \in Stages
    BY DEF Stages
  <2>5. \A s \in Stages : SetJob(e, m, s) => job' \in [Executors -> [MsgId -> Stages]]
    BY SetJobType
  <2>6. CASE SelectTask(e, m)
    BY <2>2, <2>4, <2>5, <2>6 DEF SelectTask, TypeOK
  <2>7. CASE DropUnknown(e, m)
    BY <2>4, <2>5, <2>7, AckType DEF DropUnknown, Ack, TypeOK
  <2>8. CASE Abandon(e, m)
    BY <2>2, <2>3, <2>4, <2>5, <2>8, AckType, CountAttemptType
       DEF Abandon, Ack, TypeOK
  <2>9. CASE DropCanceled(e, m)
    BY <2>2, <2>3, <2>4, <2>5, <2>9, AckType, CountAttemptType
       DEF DropCanceled, Ack, TypeOK
  <2>10. CASE Start(e, m)
    <3>1. starts' \in [Tasks -> Nat]
      BY <2>2, <2>10 DEF Start, TypeOK
    <3>2. progress' \in [Tasks -> Progress] /\ retry' \in [Tasks -> Nat]
      BY <2>2, <2>3, <2>10, CountAttemptType DEF Start
    <3> QED BY <2>4, <2>5, <2>10, <3>1, <3>2 DEF Start, TypeOK
  <2>11. CASE LastCheck(e, m)
    BY <2>4, <2>5, <2>11 DEF LastCheck, TypeOK
  <2>12. CASE Finish(e, m) \/ Fail(e, m)
    BY <2>2, <2>3, <2>4, <2>5, <2>12, UpdateProgressType DEF Finish, Fail, TypeOK
  <2>13. CASE Close(e, m)
    BY <2>4, <2>5, <2>13, AckType DEF Close, Ack, TypeOK
  <2>14. CASE FaultyHandler(e, m)
    BY <2>4, <2>5, <2>14
       DEF FaultyHandler, CollectRaises, ProgressLost, CloseRaises, TypeOK
  <2> QED BY <1>6, <2>6, <2>7, <2>8, <2>9, <2>10, <2>11, <2>12, <2>13, <2>14
          DEF Handler
<1>7. ASSUME NEW e \in Executors, Crash(e) PROVE TypeOK'
  <2>1. [m \in MsgId |-> Idle] \in [MsgId -> Stages]
    BY DEF Stages
  <2>2. job' \in [Executors -> [MsgId -> Stages]]
    BY <1>7, <2>1 DEF Crash, TypeOK
  <2> QED BY <1>7, <2>2 DEF Crash, TypeOK
<1>8. ASSUME NEW e \in Executors, Restart(e) PROVE TypeOK'
  BY <1>8 DEF Restart, TypeOK
<1>9. CASE UNCHANGED vars
  BY <1>9 DEF vars, TypeOK
<1> QED BY <1>1, <1>2, <1>3, <1>4, <1>5, <1>6, <1>7, <1>8, <1>9 DEF Next

----------------------------------------------------------------------------
(* What a step does to the consumer group: nothing, an acknowledgement of  *)
(* a message in hand, or the delivery of the next message.                 *)

LEMMA GroupSteps ==
  ASSUME [Next]_vars
  PROVE  \/ UNCHANGED <<lastId, pel, acked>>
         \/ \E e \in Executors, m \in MsgId : job[e][m] # Idle /\ Ack(e, m)
         \/ \E e \in Executors : ReadNew(e)
<1> USE DEF rowVars, redisVars, procVars
<1>1. ASSUME NEW t \in Tasks,
             \/ InsertTask(t) \/ Cancel(t) \/ DeleteTask(t)
             \/ Publish(t) \/ PublishTwice(t)
      PROVE  UNCHANGED <<lastId, pel, acked>>
  BY <1>1 DEF InsertTask, Cancel, DeleteTask, Publish, PublishTwice, Send
<1>2. ASSUME NEW e \in Executors, CollectUnacked(e) \/ Crash(e) \/ Restart(e)
      PROVE  UNCHANGED <<lastId, pel, acked>>
  BY <1>2 DEF CollectUnacked, Crash, Restart
<1>3. ASSUME NEW e \in Executors, CollectNew(e) \/ CollectLost(e) PROVE ReadNew(e)
  BY <1>3 DEF CollectNew, CollectLost
<1>4. ASSUME NEW e \in Executors, NEW m \in MsgId,
             Handler(e, m) \/ FaultyHandler(e, m)
      PROVE  \/ UNCHANGED <<lastId, pel, acked>>
             \/ job[e][m] # Idle /\ Ack(e, m)
  BY <1>4 DEF Handler, FaultyHandler, SelectTask, DropUnknown, Abandon,
      DropCanceled, Start, LastCheck, Finish, Fail, Close, CollectRaises,
      ProgressLost, CloseRaises, Idle
<1>5. CASE UNCHANGED vars
  BY <1>5 DEF vars
<1> QED BY <1>1, <1>2, <1>3, <1>4, <1>5 DEF Next

\* Every step leaves a delivered message one owner, or acknowledges it.
LEMMA NextDeliveredOnce ==
  ASSUME TypeOK, DeliveredOnce, HandlerOwnsMessage, [Next]_vars
  PROVE  DeliveredOnce'
<1>1. CASE UNCHANGED <<lastId, pel, acked>>
  BY <1>1 DEF DeliveredOnce
<1>2. ASSUME NEW e \in Executors, NEW m \in MsgId, job[e][m] # Idle, Ack(e, m)
      PROVE  DeliveredOnce'
  <2>1. m \in pel[e]
    BY <1>2, InHandPublished
  <2> QED BY <1>2, <2>1 DEF Ack, DeliveredOnce, TypeOK
<1>3. ASSUME NEW e \in Executors, ReadNew(e) PROVE DeliveredOnce'
  <2>1. 1 .. lastId' = (1 .. lastId) \cup {lastId + 1}
    BY <1>3 DEF ReadNew, TypeOK
  <2>2. lastId + 1 \notin 1 .. lastId
    BY DEF TypeOK
  <2> QED BY <1>3, <2>1, <2>2 DEF ReadNew, DeliveredOnce, TypeOK
<1> QED BY <1>1, <1>2, <1>3, GroupSteps

----------------------------------------------------------------------------
(* What a step does to the handlers of the executors.                      *)

\* Steps of one handler: its stage changes, the iterator does not.
LEMMA HandlerStep ==
  ASSUME NEW e \in Executors, NEW m \in MsgId,
         Handler(e, m) \/ FaultyHandler(e, m)
  PROVE  /\ job[e][m] # Idle
         /\ UNCHANGED <<up, replay>>
         /\ \/ /\ SetJob(e, m, Idle)
               /\ Ack(e, m) \/ UNCHANGED pel
            \/ /\ job[e][m] = "got" /\ SetJob(e, m, "selected")
               /\ UNCHANGED pel
            \/ /\ \/ SetJob(e, m, "running") \/ SetJob(e, m, "finishing")
                  \/ SetJob(e, m, "closing")
               /\ UNCHANGED pel
BY DEF Handler, FaultyHandler, SelectTask, DropUnknown, Abandon,
  DropCanceled, Start, LastCheck, Finish, Fail, Close, CollectRaises,
  ProgressLost, CloseRaises, Idle, rowVars, redisVars, procVars

\* Every step leaves a handler its message, and keeps it from the iterator.
LEMMA NextHandlerOwns ==
  ASSUME TypeOK, DeliveredOnce, HandlerOwnsMessage, [Next]_vars
  PROVE  HandlerOwnsMessage'
<1> USE DEF TypeOK, HandlerOwnsMessage, InHand, SetJob
<1>1. CASE UNCHANGED <<pel, job, replay, up>>
  BY <1>1
<1>2. ASSUME NEW e \in Executors, CollectUnacked(e) PROVE HandlerOwnsMessage'
  BY <1>2 DEF CollectUnacked, FreeSlot, redisVars, Idle
<1>3. ASSUME NEW e \in Executors, CollectNew(e) PROVE HandlerOwnsMessage'
  <2>1. lastId + 1 \in MsgId
    BY <1>3, ReadNewType DEF CollectNew
  <2> QED BY <1>3, <2>1 DEF CollectNew, ReadNew, FreeSlot, Idle
<1>4. ASSUME NEW e \in Executors, CollectLost(e) PROVE HandlerOwnsMessage'
  BY <1>4 DEF CollectLost, ReadNew, FreeSlot, procVars
<1>5. ASSUME NEW e \in Executors, NEW m \in MsgId,
             Handler(e, m) \/ FaultyHandler(e, m)
      PROVE  HandlerOwnsMessage'
  <2>1. m \in pel[e] /\ m \notin replay[e] /\ e \in up /\ UNCHANGED <<up, replay>>
    BY <1>5, HandlerStep
  <2>2. CASE SetJob(e, m, Idle) /\ Ack(e, m)
    BY <2>1, <2>2 DEF Ack
  <2>3. CASE SetJob(e, m, Idle) /\ UNCHANGED pel
    BY <2>1, <2>3
  <2>4. ASSUME NEW s \in Stages, SetJob(e, m, s), UNCHANGED pel
        PROVE  HandlerOwnsMessage'
    BY <2>1, <2>4
  <2> QED BY <1>5, <2>2, <2>3, <2>4, HandlerStep DEF Stages
<1>6. ASSUME NEW e \in Executors, Crash(e) PROVE HandlerOwnsMessage'
  BY <1>6 DEF Crash, redisVars
<1>7. ASSUME NEW e \in Executors, Restart(e) PROVE HandlerOwnsMessage'
  BY <1>7 DEF Restart, redisVars
<1>8. ASSUME NEW t \in Tasks,
             \/ InsertTask(t) \/ Cancel(t) \/ DeleteTask(t)
             \/ Publish(t) \/ PublishTwice(t)
      PROVE  UNCHANGED <<pel, job, replay, up>>
  BY <1>8 DEF InsertTask, Cancel, DeleteTask, Publish, PublishTwice, Send,
    redisVars, procVars
<1>9. CASE UNCHANGED vars
  BY <1>9 DEF vars, redisVars, procVars
<1> QED BY <1>1, <1>2, <1>3, <1>4, <1>5, <1>6, <1>7, <1>8, <1>9 DEF Next

\* collect takes a message only when it has none between delivery and handler.
LEMMA NextOneCollect ==
  ASSUME TypeOK, OneCollect, [Next]_vars
  PROVE  OneCollect'
<1> USE DEF TypeOK, OneCollect, Collecting, SetJob
<1>1. CASE UNCHANGED job
  BY <1>1
<1>2. ASSUME NEW e \in Executors, NEW n \in MsgId, FreeSlot(e), SetJob(e, n, "got")
      PROVE  OneCollect'
  BY <1>2 DEF FreeSlot
<1>3. ASSUME NEW e \in Executors, CollectUnacked(e) PROVE OneCollect'
  BY <1>2, <1>3 DEF CollectUnacked
<1>4. ASSUME NEW e \in Executors, CollectNew(e) PROVE OneCollect'
  <2>1. lastId + 1 \in MsgId
    BY <1>4, ReadNewType DEF CollectNew
  <2> QED BY <1>2, <1>4, <2>1 DEF CollectNew
<1>5. ASSUME NEW e \in Executors, NEW m \in MsgId,
             Handler(e, m) \/ FaultyHandler(e, m)
      PROVE  OneCollect'
  <2>1. job[e][m] = "got" /\ SetJob(e, m, "selected") => OneCollect'
    OBVIOUS
  <2>2. ASSUME NEW s \in {Idle, "running", "finishing", "closing"}, SetJob(e, m, s)
        PROVE  OneCollect'
    BY <2>2 DEF Idle
  <2> QED BY <1>5, <2>1, <2>2, HandlerStep
<1>6. ASSUME NEW e \in Executors, Crash(e) PROVE OneCollect'
  BY <1>6 DEF Crash, Idle
<1>7. ASSUME NEW e \in Executors, CollectLost(e) \/ Restart(e) PROVE UNCHANGED job
  BY <1>7 DEF CollectLost, Restart, procVars
<1>8. ASSUME NEW t \in Tasks,
             \/ InsertTask(t) \/ Cancel(t) \/ DeleteTask(t)
             \/ Publish(t) \/ PublishTwice(t)
      PROVE  UNCHANGED job
  BY <1>8 DEF InsertTask, Cancel, DeleteTask, Publish, PublishTwice, Send, procVars
<1>9. CASE UNCHANGED vars
  BY <1>9 DEF vars, procVars
<1> QED BY <1>1, <1>3, <1>4, <1>5, <1>6, <1>7, <1>8, <1>9 DEF Next

----------------------------------------------------------------------------
(* Attempts.                                                               *)

\* No message is in the hands of two executors.
LEMMA OneHandler ==
  ASSUME TypeOK, DeliveredOnce, HandlerOwnsMessage,
         NEW e \in Executors, NEW f \in Executors, NEW m \in MsgId,
         job[e][m] # Idle, job[f][m] # Idle
  PROVE  e = f
BY DEF TypeOK, DeliveredOnce, HandlerOwnsMessage, InHand

\* The stream only grows, so a message keeps its task and a task published
\* once after the step was published at most once before.
LEMMA StreamGrows ==
  ASSUME TypeOK, [Next]_vars
  PROVE  /\ Published \subseteq Published'
         /\ \A m \in Published : stream'[m] = stream[m]
         /\ \A t \in Tasks : PublishedOnce(t)' => PublishedOnce(t)
<1> USE DEF rowVars, redisVars, procVars
<1>1. ASSUME UNCHANGED stream
      PROVE  /\ Published' = Published
             /\ \A t \in Tasks : PublishedOnce(t)' = PublishedOnce(t)
  BY <1>1 DEF Published, PublishedOnce
<1>2. ASSUME NEW t \in Tasks, NEW s \in Seq(Tasks), Send(t, s)
      PROVE  /\ Published \subseteq Published'
             /\ \A m \in Published : stream'[m] = stream[m]
  BY <1>2 DEF Send, TypeOK, Published
<1>3. ASSUME NEW t \in Tasks, NEW s \in Seq(Tasks), Send(t, s)
      PROVE  \A u \in Tasks : PublishedOnce(u)' => PublishedOnce(u)
  BY <1>2, <1>3 DEF PublishedOnce
<1>4. ASSUME NEW t \in Tasks, Publish(t) \/ PublishTwice(t)
      PROVE  \E s \in Seq(Tasks) : Send(t, s)
  <2>1. <<t>> \in Seq(Tasks) /\ <<t, t>> \in Seq(Tasks)
    OBVIOUS
  <2> QED BY <1>4, <2>1 DEF Publish, PublishTwice
<1>5. ASSUME NEW t \in Tasks, InsertTask(t) \/ Cancel(t) \/ DeleteTask(t)
      PROVE  UNCHANGED stream
  BY <1>5 DEF InsertTask, Cancel, DeleteTask
<1>6. ASSUME NEW e \in Executors,
             CollectUnacked(e) \/ CollectNew(e) \/ CollectLost(e) \/ Crash(e) \/ Restart(e)
      PROVE  UNCHANGED stream
  BY <1>6 DEF CollectUnacked, CollectNew, CollectLost, ReadNew, Crash, Restart
<1>7. ASSUME NEW e \in Executors, NEW m \in MsgId,
             Handler(e, m) \/ FaultyHandler(e, m)
      PROVE  UNCHANGED stream
  BY <1>7 DEF Handler, FaultyHandler, SelectTask, DropUnknown, Abandon,
    DropCanceled, Start, LastCheck, Finish, Fail, Close, CollectRaises,
    ProgressLost, CloseRaises, Ack
<1>8. CASE UNCHANGED vars
  BY <1>1, <1>8 DEF vars
<1> QED BY <1>1, <1>2, <1>3, <1>4, <1>5, <1>6, <1>7, <1>8 DEF Next

\* Steps that count nothing and select nothing.
QuietStep ==
  /\ UNCHANGED <<starts, retry>>
  /\ \A t \in Tasks : row[t] = "deleted" => row'[t] = "deleted"
  /\ \A e \in Executors : \A m \in MsgId : job'[e][m] = "selected" =>
       job[e][m] = "selected" /\ seen'[e] = seen[e]

\* Every step but those of get_task leaves the counting of attempts alone.
LEMMA QuietSteps ==
  ASSUME TypeOK, [Next]_vars
  PROVE  \/ QuietStep
         \/ \E e \in Executors : \E m \in MsgId :
              SelectTask(e, m) \/ Abandon(e, m) \/ DropCanceled(e, m) \/ Start(e, m)
<1> USE DEF QuietStep, TypeOK, rowVars, redisVars, procVars, SetJob, Idle
<1>1. ASSUME NEW t \in Tasks,
             \/ InsertTask(t) \/ Cancel(t) \/ DeleteTask(t)
             \/ Publish(t) \/ PublishTwice(t)
      PROVE  QuietStep
  BY <1>1 DEF InsertTask, Cancel, DeleteTask, Publish, PublishTwice, Send
<1>2. ASSUME NEW e \in Executors, CollectUnacked(e) \/ CollectLost(e) \/ Restart(e)
      PROVE  QuietStep
  BY <1>2 DEF CollectUnacked, CollectLost, Restart
<1>3. ASSUME NEW e \in Executors, CollectNew(e) PROVE QuietStep
  <2>1. lastId + 1 \in MsgId
    BY <1>3, ReadNewType DEF CollectNew
  <2> QED BY <1>3, <2>1 DEF CollectNew
<1>4. ASSUME NEW e \in Executors, NEW m \in MsgId,
             \/ DropUnknown(e, m) \/ LastCheck(e, m) \/ Finish(e, m)
             \/ Fail(e, m) \/ Close(e, m) \/ FaultyHandler(e, m)
      PROVE  QuietStep
  <2>1. /\ UNCHANGED <<starts, retry, row, seen>>
        /\ \E s \in {Idle, "finishing", "closing"} : SetJob(e, m, s)
    BY <1>4 DEF DropUnknown, LastCheck, Finish, Fail, Close, FaultyHandler,
      CollectRaises, ProgressLost, CloseRaises
  <2> QED BY <2>1
<1>5. ASSUME NEW e \in Executors, Crash(e) PROVE QuietStep
  BY <1>5 DEF Crash
<1>6. CASE UNCHANGED vars
  BY <1>6 DEF vars
<1> QED BY <1>1, <1>2, <1>3, <1>4, <1>5, <1>6 DEF Next, Handler

\* Attempts are counted at every start, though they are read and written back by
\* two statements.
LEMMA NextRetryCounts ==
  ASSUME IInv, [Next]_vars
  PROVE  RetryCounts'
<1> USE DEF IInv
<1> SUFFICES ASSUME NEW t \in Tasks, PublishedOnce(t)'
             PROVE  /\ starts'[t] <= 3
                    /\ row'[t] # "deleted" => starts'[t] <= retry'[t]
                    /\ \A f \in Executors : \A n \in Published' :
                         job'[f][n] = "selected" /\ stream'[n] = t
                           => starts'[t] <= seen'[f]
  BY DEF RetryCounts
<1>1. PublishedOnce(t)
  BY StreamGrows
<1>2. /\ starts[t] <= 3
      /\ row[t] # "deleted" => starts[t] <= retry[t]
      /\ \A f \in Executors : \A n \in Published :
           job[f][n] = "selected" /\ stream[n] = t => starts[t] <= seen[f]
  BY <1>1 DEF RetryCounts
<1>3. Published' \subseteq MsgId /\ Published \subseteq MsgId
  <2>1. TypeOK'
    BY NextTypeOK
  <2>2. /\ Len(stream) \in Nat /\ Len(stream) <= MaxMessages
        /\ Len(stream') \in Nat /\ Len(stream') <= MaxMessages
    BY <2>1 DEF TypeOK
  <2> QED BY <2>2, QueueAssumption DEF Published, MsgId
<1>4. starts[t] \in Nat /\ retry[t] \in Nat /\ \A f \in Executors : seen[f] \in Nat
  BY DEF TypeOK
<1>5. ASSUME NEW f \in Executors, NEW n \in MsgId, job[f][n] = "selected"
      PROVE  n \in Published /\ stream'[n] = stream[n]
  <2>1. job[f][n] # Idle
    BY <1>5 DEF Idle
  <2> QED BY <2>1, InHandPublished, StreamGrows
<1>6. CASE QuietStep
  BY <1>2, <1>3, <1>5, <1>6 DEF QuietStep
<1>7. ASSUME NEW e \in Executors, NEW m \in MsgId, SelectTask(e, m)
      PROVE  /\ UNCHANGED <<starts, retry, row>>
             /\ \A f \in Executors : \A n \in Published' :
                  job'[f][n] = "selected" /\ stream'[n] = t => starts[t] <= seen'[f]
  <2>1. UNCHANGED <<starts, retry, row, stream>> /\ job[e][m] = "got"
    BY <1>7 DEF SelectTask, rowVars, redisVars
  <2>2. ASSUME NEW f \in Executors, NEW n \in Published',
               job'[f][n] = "selected", stream'[n] = t
        PROVE  starts[t] <= seen'[f]
    <3>1. CASE f # e
      <4>1. job[f][n] = "selected" /\ seen'[f] = seen[f] /\ n \in MsgId
        BY <1>3, <1>7, <2>2, <3>1 DEF SelectTask, SetJob, TypeOK
      <4> QED BY <1>2, <1>5, <2>2, <4>1
    <3>2. CASE f = e /\ n # m
      <4>1. job[e][n] = "selected" /\ n \in MsgId
        BY <1>3, <1>7, <2>2, <3>2 DEF SelectTask, SetJob, TypeOK
      <4> QED BY <2>1, <3>2, <4>1 DEF OneCollect, Collecting
    <3>3. CASE f = e /\ n = m
      <4>1. seen'[e] = retry[t] /\ row[t] # "deleted"
        BY <1>7, <2>1, <2>2, <3>3 DEF SelectTask, TypeOK
      <4> QED BY <1>2, <3>3, <4>1
    <3> QED BY <3>1, <3>2, <3>3
  <2> QED BY <2>1, <2>2
<1>8. ASSUME NEW e \in Executors, NEW m \in MsgId,
             Abandon(e, m) \/ DropCanceled(e, m) \/ Start(e, m)
      PROVE  /\ job[e][m] = "selected"
             /\ row' = row /\ seen' = seen /\ stream' = stream
             /\ m \in Published /\ stream[m] \in Tasks
             /\ \E p \in Progress : CountAttempt(e, stream[m], p)
             /\ \A f \in Executors : \A n \in MsgId : job'[f][n] = "selected" =>
                  job[f][n] = "selected" /\ ~(f = e /\ n = m)
  <2>1. job[e][m] = "selected" /\ row' = row /\ seen' = seen /\ stream' = stream
    BY <1>8 DEF Abandon, DropCanceled, Start, Ack, redisVars
  <2>2. \E p \in Progress : CountAttempt(e, stream[m], p)
    BY <1>8 DEF Abandon, DropCanceled, Start, Progress
  <2>3. ASSUME NEW s \in {Idle, "running"}, SetJob(e, m, s),
               NEW f \in Executors, NEW n \in MsgId, job'[f][n] = "selected"
        PROVE  job[f][n] = "selected" /\ ~(f = e /\ n = m)
    BY <2>3 DEF SetJob, TypeOK, Idle
  <2>4. \E s \in {Idle, "running"} : SetJob(e, m, s)
    BY <1>8 DEF Abandon, DropCanceled, Start
  <2>5. m \in Published /\ stream[m] \in Tasks
    BY <1>5, <2>1, InHandPublished DEF Idle
  <2> QED BY <2>1, <2>2, <2>3, <2>4, <2>5
<1>9. ASSUME NEW e \in Executors, NEW m \in MsgId, NEW p \in Progress,
              CountAttempt(e, stream[m], p), stream[m] \in Tasks
       PROVE  IF stream[m] = t /\ row[t] # "deleted"
                THEN retry'[t] = seen[e] + 1
                ELSE retry'[t] = retry[t]
  BY <1>9 DEF CountAttempt, TypeOK
<1>10. ASSUME NEW e \in Executors, NEW m \in MsgId, Abandon(e, m) \/ DropCanceled(e, m)
       PROVE  /\ starts'[t] = starts[t]
              /\ row'[t] # "deleted" => starts[t] <= retry'[t]
              /\ \A f \in Executors : \A n \in Published' :
                   job'[f][n] = "selected" /\ stream'[n] = t => starts[t] <= seen'[f]
  <2>1. starts' = starts
    BY <1>10 DEF Abandon, DropCanceled
  <2>2. row'[t] # "deleted" => starts[t] <= retry'[t]
    BY <1>2, <1>4, <1>8, <1>9, <1>10
  <2> QED BY <1>2, <1>3, <1>5, <1>8, <1>10, <2>1, <2>2
<1>11. ASSUME NEW e \in Executors, NEW m \in MsgId, Start(e, m)
       PROVE  /\ starts'[t] <= 3
              /\ row'[t] # "deleted" => starts'[t] <= retry'[t]
              /\ \A f \in Executors : \A n \in Published' :
                   job'[f][n] = "selected" /\ stream'[n] = t => starts'[t] <= seen'[f]
  <2>1. CASE stream[m] # t
    <3>1. starts'[t] = starts[t]
      BY <1>11, <2>1 DEF Start, TypeOK
    <3>2. retry'[t] = retry[t]
      BY <1>8, <1>9, <1>11, <2>1
    <3> QED BY <1>2, <1>3, <1>5, <1>8, <1>11, <3>1, <3>2
  <2>2. CASE stream[m] = t
    <3>1. starts'[t] = starts[t] + 1 /\ seen[e] < 3
      BY <1>11, <2>2 DEF Start, TypeOK
    <3>2. starts[t] <= seen[e]
      BY <1>2, <1>8, <1>11, <2>2
    <3>3. row'[t] # "deleted" => retry'[t] = seen[e] + 1
      BY <1>8, <1>9, <1>11, <2>2
    <3>4. ASSUME NEW f \in Executors, NEW n \in Published',
                 job'[f][n] = "selected", stream'[n] = t
          PROVE  FALSE
      <4>1. job[f][n] = "selected" /\ ~(f = e /\ n = m) /\ n \in Published
        BY <1>3, <1>5, <1>8, <1>11, <3>4
      <4>2. n = m
        BY <1>1, <1>8, <1>11, <2>2, <3>4, <4>1 DEF PublishedOnce
      <4>3. f = e
        BY <1>8, <1>11, <4>1, <4>2, OneHandler DEF Idle
      <4> QED BY <4>1, <4>2, <4>3
    <3> QED BY <1>4, <3>1, <3>2, <3>3, <3>4
  <2> QED BY <2>1, <2>2
<1> QED BY <1>2, <1>6, <1>7, <1>10, <1>11, QuietSteps

----------------------------------------------------------------------------

\* IInv is inductive.
LEMMA NextIInv == IInv /\ [Next]_vars => IInv'
<1> SUFFICES ASSUME IInv, [Next]_vars PROVE IInv'
  OBVIOUS
<1> QED BY NextTypeOK, NextDeliveredOnce, NextHandlerOwns, NextOneCollect,
           NextRetryCounts DEF IInv

\* Rows, stream, consumer group and handlers keep their types whatever
\* crashes or fails.
THEOREM QueueTypeCorrect == Spec => []TypeOK
<1>1. IInv => TypeOK
  BY DEF IInv
<1> QED BY InitIInv, NextIInv, <1>1, PTL DEF Spec

\* A delivered message is pending at exactly one consumer until it is
\* acknowledged.
THEOREM QueueDeliversOnce == Spec => []DeliveredOnce
<1>1. IInv => DeliveredOnce
  BY DEF IInv
<1> QED BY InitIInv, NextIInv, <1>1, PTL DEF Spec

\* Every message in an executor's hands is pending at that executor.
THEOREM QueueHandlerOwns == Spec => []HandlerOwnsMessage
<1>1. IInv => HandlerOwnsMessage
  BY DEF IInv
<1> QED BY InitIInv, NextIInv, <1>1, PTL DEF Spec

\* However often executors crash, a task published once is started at most
\* three times.
THEOREM QueueBoundsAttempts == Spec => []AttemptsBounded
<1>1. IInv => AttemptsBounded
  BY DEF IInv, RetryCounts, AttemptsBounded
<1> QED BY InitIInv, NextIInv, <1>1, PTL DEF Spec

----------------------------------------------------------------------------
(* The queue implements WorkQueue: a message waits when it is published,   *)
(* not acknowledged and in nobody's hands.                                 *)

Waiting == {m \in Published \ acked : \A e \in Executors : job[e][m] = Idle}
InHands == UNION {InHand(e) : e \in Executors}

\* A handler that takes a message, or goes on with it.
LEMMA TakeMessage ==
  ASSUME TypeOK, NEW e \in Executors, NEW m \in MsgId, NEW s \in Stages \ {Idle},
         SetJob(e, m, s), UNCHANGED <<stream, acked>>
  PROVE  Waiting' = Waiting \ {m} /\ InHands' = InHands \cup {m}
<1>1. /\ job'[e][m] = s
      /\ \A f \in Executors : \A n \in MsgId :
           f # e \/ n # m => job'[f][n] = job[f][n]
  BY DEF SetJob, TypeOK
<1>2. Published' = Published /\ Published \subseteq MsgId
  BY QueueAssumption DEF Published, MsgId, TypeOK
<1>3. Waiting' = Waiting \ {m}
  BY <1>1, <1>2 DEF Waiting
<1>4. InHands' = InHands \cup {m}
  BY <1>1 DEF InHands, InHand
<1> QED BY <1>3, <1>4

\* A handler that lets go of its message, acknowledged or not.
LEMMA LeaveMessage ==
  ASSUME TypeOK, DeliveredOnce, HandlerOwnsMessage,
         NEW e \in Executors, NEW m \in MsgId, job[e][m] # Idle,
         SetJob(e, m, Idle), UNCHANGED stream
  PROVE  /\ m \in InHands /\ InHands' = InHands \ {m}
         /\ acked' = acked => Waiting' = Waiting \cup {m}
         /\ acked' = acked \cup {m} => Waiting' = Waiting
<1>1. /\ job'[e][m] = Idle
      /\ \A f \in Executors : \A n \in MsgId :
           f # e \/ n # m => job'[f][n] = job[f][n]
  BY DEF SetJob, TypeOK
<1>2. Published' = Published /\ Published \subseteq MsgId
  BY QueueAssumption DEF Published, MsgId, TypeOK
<1>3. \A f \in Executors : f # e => job[f][m] = Idle
  BY OneHandler
<1>4. m \in Published \ acked
  BY InHandPublished DEF DeliveredOnce
<1>5. \A n \in MsgId : n \in InHands <=> \E f \in Executors : job[f][n] # Idle
  BY DEF InHands, InHand
<1>6. \A n \in MsgId : n \in InHands' <=> \E f \in Executors : job'[f][n] # Idle
  BY DEF InHands, InHand
<1>7. InHands \subseteq MsgId /\ InHands' \subseteq MsgId
  BY DEF InHands, InHand
<1>8. \A n \in MsgId : n \in InHands' <=> n \in InHands /\ n # m
  BY <1>1, <1>3, <1>5, <1>6
<1>9. m \in InHands /\ InHands' = InHands \ {m}
  BY <1>5, <1>7, <1>8
<1>10. \A n \in Published :
         (\A f \in Executors : job'[f][n] = Idle) <=> n = m \/ \A f \in Executors : job[f][n] = Idle
  BY <1>1, <1>2, <1>3
<1>11. ~(\A f \in Executors : job[f][m] = Idle)
  OBVIOUS
<1> QED BY <1>2, <1>4, <1>9, <1>10, <1>11 DEF Waiting

\* An empty stream is an empty WorkQueue.
LEMMA QueueInit ==
  ASSUME Init
  PROVE  Queue!Init
<1>1. Published = {} /\ \A e \in Executors : InHand(e) = {}
  BY DEF Init, Published, InHand
<1> QED BY <1>1 DEF Init, Queue!Init

\* A step of the queue, on what WorkQueue sees of it.
LEMMA QueueStep ==
  ASSUME TypeOK, DeliveredOnce, HandlerOwnsMessage, [Next]_vars
  PROVE  [Queue!Next]_Queue!vars
<1> DEFINE Leases(m) == /\ m \in Waiting /\ Waiting' = Waiting \ {m}
                        /\ InHands' = InHands \cup {m} /\ acked' = acked
           Returns(S) == /\ S \subseteq InHands /\ Waiting' = Waiting \cup S
                         /\ InHands' = InHands \ S /\ acked' = acked
           Completes(m) == /\ m \in InHands /\ Waiting' = Waiting
                           /\ InHands' = InHands \ {m} /\ acked' = acked \cup {m}
           Submits(S) == /\ S \cap (Waiting \cup InHands \cup acked) = {}
                         /\ Waiting' = Waiting \cup S
                         /\ InHands' = InHands /\ acked' = acked
           Stutters == Waiting' = Waiting /\ InHands' = InHands /\ acked' = acked
<1> SUFFICES \/ Stutters
             \/ \E S \in SUBSET MsgId : Submits(S) \/ Returns(S)
             \/ \E m \in MsgId : Leases(m) \/ Completes(m)
  BY DEF Queue!Next, Queue!vars, Queue!Submit, Queue!Return, Queue!Lease, Queue!Complete,
         Waiting, InHands
<1>1. Published \subseteq MsgId /\ Published = 1 .. Len(stream) /\ Len(stream) \in Nat
  BY QueueAssumption DEF Published, MsgId, TypeOK
<1>2. ASSUME UNCHANGED <<stream, acked, job>> PROVE Stutters
  BY <1>2 DEF Waiting, InHands, InHand, Published
<1>3. ASSUME NEW t \in Tasks, NEW s \in Seq(Tasks), Send(t, s)
      PROVE  \E S \in SUBSET MsgId : Submits(S)
  <2> DEFINE S == Published' \ Published
  <2>1. TypeOK'
    BY <1>3, SendTypeOK
  <2>2. Published' \subseteq MsgId
    BY <2>1, QueueAssumption DEF Published, MsgId, TypeOK
  <2>3. Published \subseteq Published' /\ UNCHANGED <<acked, job>>
    BY <1>1, <1>3 DEF Send, TypeOK, Published, procVars
  <2>4. \A m \in MsgId \ Published : m \notin acked /\ \A e \in Executors : job[e][m] = Idle
    <3>1. \A m \in MsgId \ Published : m \notin 1 .. lastId
      BY DEF TypeOK, Published
    <3> QED BY <3>1, InHandPublished DEF DeliveredOnce
  <2>5. Submits(S)
    BY <2>2, <2>3, <2>4 DEF Waiting, InHands, InHand
  <2> QED BY <2>2, <2>5
<1>4. ASSUME NEW t \in Tasks, Publish(t) \/ PublishTwice(t)
      PROVE  \E S \in SUBSET MsgId : Submits(S)
  <2>1. <<t>> \in Seq(Tasks) /\ <<t, t>> \in Seq(Tasks)
    OBVIOUS
  <2> HIDE DEF Submits
  <2> QED BY <1>3, <1>4, <2>1 DEF Publish, PublishTwice
<1>5. ASSUME NEW e \in Executors, CollectUnacked(e)
      PROVE  \E m \in MsgId : Leases(m)
  <2>1. PICK m \in replay[e] : SetJob(e, m, "got")
    BY <1>5 DEF CollectUnacked
  <2>2. m \in MsgId /\ UNCHANGED <<stream, acked>>
    BY <1>5 DEF TypeOK, CollectUnacked, redisVars
  <2>3. m \in Published \ acked /\ \A f \in Executors : job[f][m] = Idle
    <3>1. m \in pel[e] /\ job[e][m] = Idle
      BY <2>2 DEF HandlerOwnsMessage, InHand
    <3>2. m \in Published \ acked
      BY <2>2, <3>1 DEF DeliveredOnce, Published, TypeOK
    <3>3. \A f \in Executors : f # e => job[f][m] = Idle
      BY <2>2, <3>1, InHandPublished DEF DeliveredOnce
    <3> QED BY <3>1, <3>2, <3>3
  <2>4. "got" \in Stages \ {Idle}
    BY DEF Stages, Idle
  <2>5. m \in Waiting
    BY <2>3 DEF Waiting
  <2> QED BY <2>1, <2>2, <2>4, <2>5, TakeMessage
<1>6. ASSUME NEW e \in Executors, CollectNew(e)
      PROVE  \E m \in MsgId : Leases(m)
  <2> DEFINE m == lastId + 1
  <2>1. m \in MsgId /\ SetJob(e, m, "got") /\ UNCHANGED <<stream, acked>>
    BY <1>6, ReadNewType DEF CollectNew
  <2>2. m \in Published /\ m \notin 1 .. lastId
    BY <1>6 DEF CollectNew, ReadNew, TypeOK, Published
  <2>3. m \notin acked /\ \A f \in Executors : job[f][m] = Idle
    BY <2>1, <2>2, InHandPublished DEF DeliveredOnce
  <2>4. "got" \in Stages \ {Idle}
    BY DEF Stages, Idle
  <2>5. m \in Waiting
    BY <2>2, <2>3 DEF Waiting
  <2> HIDE DEF m
  <2> QED BY <2>1, <2>4, <2>5, TakeMessage
<1>7. ASSUME NEW e \in Executors, NEW m \in MsgId,
             Handler(e, m) \/ FaultyHandler(e, m)
      PROVE  Stutters \/ Completes(m) \/ Returns({m})
  <2>1. stream' = stream /\ (acked' = acked \/ Ack(e, m))
    BY <1>7 DEF Handler, FaultyHandler, SelectTask, DropUnknown, Abandon, DropCanceled,
      Start, LastCheck, Finish, Fail, Close, CollectRaises, ProgressLost, CloseRaises, Ack,
      redisVars
  <2>2. job[e][m] # Idle
    BY <1>7, HandlerStep
  <2>3. CASE SetJob(e, m, Idle)
    <3>1. acked' = acked \/ acked' = acked \cup {m}
      BY <2>1 DEF Ack
    <3> QED BY <2>1, <2>2, <2>3, <3>1, LeaveMessage
  <2>4. ASSUME NEW s \in {"selected", "running", "finishing", "closing"}, SetJob(e, m, s)
        PROVE  Stutters
    <3>1. s \in Stages \ {Idle}
      BY DEF Stages, Idle
    <3>2. acked' = acked
      BY <1>7, <2>4 DEF Handler, FaultyHandler, SelectTask, DropUnknown, Abandon,
        DropCanceled, Start, LastCheck, Finish, Fail, Close, CollectRaises, ProgressLost,
        CloseRaises, redisVars, SetJob, Idle, TypeOK
    <3>3. m \in InHands /\ m \notin Waiting
      BY <2>2 DEF InHands, InHand, Waiting
    <3> QED BY <2>1, <2>4, <3>1, <3>2, <3>3, TakeMessage
  <2> QED BY <1>7, <2>3, <2>4, HandlerStep
<1>8. ASSUME NEW e \in Executors, Crash(e)
      PROVE  Returns(InHand(e)) /\ InHand(e) \in SUBSET MsgId
  <2>1. /\ UNCHANGED <<stream, acked>>
        /\ \A m \in MsgId : job'[e][m] = Idle
        /\ \A f \in Executors : f # e => job'[f] = job[f]
    BY <1>8 DEF Crash, redisVars, TypeOK
  <2>2. \A m \in InHand(e) :
          m \in MsgId /\ m \in Published \ acked /\ \A f \in Executors : f # e => job[f][m] = Idle
    <3>1. ASSUME NEW m \in MsgId, job[e][m] # Idle
          PROVE  m \in Published \ acked /\ \A f \in Executors : f # e => job[f][m] = Idle
      BY <3>1, InHandPublished, OneHandler DEF DeliveredOnce
    <3> QED BY <3>1 DEF InHand
  <2>3. Published' = Published
    BY <2>1 DEF Published
  <2>4. Waiting' = Waiting \cup InHand(e)
    <3>1. \A m \in MsgId :
            (\A f \in Executors : job'[f][m] = Idle)
              <=> (\A f \in Executors : f # e => job[f][m] = Idle)
      BY <2>1
    <3>2. \A m \in MsgId : m \in InHand(e) <=> job[e][m] # Idle
      BY DEF InHand
    <3>3. \A m \in MsgId : m \in Waiting <=>
            m \in Published \ acked /\ \A f \in Executors : job[f][m] = Idle
      BY DEF Waiting
    <3>4. \A m \in MsgId : m \in Waiting' <=>
            m \in Published \ acked /\ \A f \in Executors : job'[f][m] = Idle
      BY <2>1, <2>3 DEF Waiting
    <3>5. \A m \in MsgId : m \in Waiting' <=> m \in Waiting \/ m \in InHand(e)
      BY <2>2, <3>1, <3>2, <3>3, <3>4
    <3>6. Waiting \subseteq MsgId /\ Waiting' \subseteq MsgId /\ InHand(e) \subseteq MsgId
      BY <1>1, <2>3 DEF Waiting, InHand
    <3> QED BY <3>5, <3>6
  <2>5. InHands' = InHands \ InHand(e)
    BY <2>1, <2>2 DEF InHands, InHand
  <2> QED BY <2>1, <2>4, <2>5 DEF InHands, InHand
<1>9. ASSUME NEW t \in Tasks, InsertTask(t) \/ Cancel(t) \/ DeleteTask(t)
      PROVE  Stutters
  BY <1>2, <1>9 DEF InsertTask, Cancel, DeleteTask, redisVars, procVars
<1>10. ASSUME NEW e \in Executors, CollectLost(e) \/ Restart(e)
       PROVE  Stutters
  BY <1>2, <1>10 DEF CollectLost, ReadNew, Restart, redisVars, procVars
<1>11. CASE UNCHANGED vars
  BY <1>2, <1>11 DEF vars, redisVars, procVars
<1> HIDE DEF Stutters, Leases, Returns, Completes, Submits
<1>12. \A m \in MsgId : {m} \in SUBSET MsgId
  OBVIOUS
<1> QED BY <1>4, <1>5, <1>6, <1>7, <1>8, <1>9, <1>10, <1>11, <1>12 DEF Next

\* Stream, consumer group and executors implement the abstract queue: every
\* step submits, leases, returns or completes jobs as WorkQueue allows, or is
\* invisible to it.
THEOREM QueueImplements == Spec => ImplementsWorkQueue
<1>1. IInv => TypeOK /\ DeliveredOnce /\ HandlerOwnsMessage
  BY DEF IInv
<1>2. IInv /\ [Next]_vars => [Queue!Next]_Queue!vars
  BY <1>1, QueueStep
<1>3. Init => Queue!Init
  BY QueueInit
<1> QED BY InitIInv, NextIInv, <1>2, <1>3, PTL DEF Spec, ImplementsWorkQueue, Queue!Spec

----------------------------------------------------------------------------
(* While no database or Redis call has failed: what NoStrandedTask rests   *)
(* on.                                                                     *)

\* The row is deleted, or shows 1 or -1.
Ended(t) == row[t] = "deleted" \/ progress[t] \in {Done, Failed}

\* A sent task has one message; a handler acknowledges it only when the task
\* has ended or was canceled.
StrandInv ==
  /\ faults \in Nat
  /\ faults = 0 =>
       /\ \A t \in Tasks : PublishedOnce(t)
       /\ \A m \in Published : stream[m] \in sent
       /\ \A t \in sent : row[t] # "absent" /\ \E m \in Published : stream[m] = t
       /\ \A e \in Executors : \A m \in MsgId : job[e][m] = "closing" => Ended(stream[m])
       /\ \A m \in acked : stream[m] \in flag \/ Ended(stream[m])

\* A failed call is counted.
LEMMA FaultsStep ==
  ASSUME faults \in Nat, [Next]_vars
  PROVE  /\ faults' \in Nat
         /\ faults' = 0 =>
              /\ faults = 0
              /\ \A t \in Tasks : ~PublishTwice(t)
              /\ \A e \in Executors : ~CollectLost(e) /\ \A m \in MsgId : ~FaultyHandler(e, m)
<1>1. Fault => faults' = faults + 1
  BY DEF Fault
<1>2. ASSUME NEW t \in Tasks,
             InsertTask(t) \/ Publish(t) \/ Cancel(t) \/ DeleteTask(t)
      PROVE  faults' = faults
  BY <1>2 DEF InsertTask, Publish, Cancel, DeleteTask
<1>3. ASSUME NEW e \in Executors,
             CollectUnacked(e) \/ CollectNew(e) \/ Crash(e) \/ Restart(e)
      PROVE  faults' = faults
  BY <1>3 DEF CollectUnacked, CollectNew, Crash, Restart
<1>4. ASSUME NEW e \in Executors, NEW m \in MsgId, Handler(e, m)
      PROVE  faults' = faults
  BY <1>4 DEF Handler, SelectTask, DropUnknown, Abandon, DropCanceled, Start, LastCheck,
              Finish, Fail, Close
<1>5. /\ \A t \in Tasks : PublishTwice(t) => Fault
      /\ \A e \in Executors : CollectLost(e) => Fault
      /\ \A e \in Executors : \A m \in MsgId : FaultyHandler(e, m) => Fault
  BY DEF PublishTwice, CollectLost, FaultyHandler, CollectRaises, ProgressLost, CloseRaises
<1>6. faults' = faults \/ Fault
  BY <1>2, <1>3, <1>4, <1>5 DEF Next, vars
<1> QED BY <1>1, <1>5, <1>6

\* An ended task stays ended, but for a handler that counts another attempt.
LEMMA EndedStays ==
  ASSUME TypeOK, NEW t \in Tasks, Ended(t), NEW u \in Tasks, NEW p \in Progress,
         row' = row, UpdateProgress(u, p)
  PROVE  Ended(t)'
BY DEF TypeOK, Ended, UpdateProgress, Progress, Queued, Started, Done, Failed

\* A handler lets go of a task only once it has ended or was canceled.
LEMMA HandlerStrands ==
  ASSUME IInv, StrandInv, faults = 0, NEW e \in Executors, NEW m \in MsgId, Handler(e, m)
  PROVE  /\ \A f \in Executors : \A n \in MsgId : job'[f][n] = "closing" => Ended(stream[n])'
         /\ \A n \in acked' : stream[n] \in flag \/ Ended(stream[n])'
         /\ UNCHANGED <<sent, flag, stream, row>>
<1>1. TypeOK /\ DeliveredOnce /\ HandlerOwnsMessage
  BY DEF IInv
<1>2. UNCHANGED <<sent, flag, stream, row>> /\ job[e][m] # Idle
  BY DEF Handler, SelectTask, DropUnknown, Abandon, DropCanceled, Start, LastCheck,
         Finish, Fail, Close, Ack, rowVars, redisVars, Idle
<1>3. m \in Published /\ m \notin acked /\ stream[m] \in Tasks
  BY <1>1, <1>2, InHandPublished DEF DeliveredOnce
<1>4. \A n \in acked : n \in Published /\ stream[n] \in Tasks /\ n # m /\ n \in MsgId
  BY <1>1, <1>3 DEF DeliveredOnce, TypeOK, Published
<1>5. \A f \in Executors : \A n \in MsgId :
        job[f][n] # Idle => n \in Published /\ stream[n] \in Tasks /\ (n = m => f = e)
  BY <1>1, <1>2, InHandPublished, OneHandler
<1>6. \A n \in Published : stream[n] = stream[m] => n = m
  BY <1>3 DEF StrandInv, PublishedOnce
<1>7. /\ \A f \in Executors : \A n \in MsgId : job[f][n] = "closing" => Ended(stream[n])
      /\ \A n \in acked : stream[n] \in flag \/ Ended(stream[n])
  BY DEF StrandInv
<1>8. "closing" # Idle
  BY DEF Idle
<1>9. ASSUME \A t \in Tasks : t # stream[m] /\ Ended(t) => Ended(t)',
             SetJob(e, m, "closing") => Ended(stream[m])',
             \E s \in Stages : SetJob(e, m, s),
             \/ acked' = acked
             \/ /\ acked' = acked \cup {m}
                /\ stream[m] \in flag \/ Ended(stream[m])'
      PROVE  /\ \A f \in Executors : \A n \in MsgId : job'[f][n] = "closing" => Ended(stream[n])'
             /\ \A n \in acked' : stream[n] \in flag \/ Ended(stream[n])'
  <2>1. \A n \in acked' : stream[n] \in flag \/ Ended(stream[n])'
    BY <1>2, <1>4, <1>6, <1>7, <1>9 DEF Ended
  <2>2. ASSUME NEW f \in Executors, NEW n \in MsgId, job'[f][n] = "closing"
        PROVE  Ended(stream[n])'
    <3>1. CASE f = e /\ n = m
      <4>1. PICK s \in Stages : SetJob(e, m, s)
        BY <1>9
      <4>2. s = "closing"
        BY <1>1, <2>2, <3>1, <4>1 DEF SetJob, TypeOK
      <4> QED BY <1>9, <3>1, <4>1, <4>2
    <3>2. CASE ~(f = e /\ n = m)
      <4>1. job[f][n] = "closing"
        BY <1>1, <1>9, <2>2, <3>2 DEF SetJob, TypeOK
      <4>2. n \in Published /\ stream[n] \in Tasks /\ stream[n] # stream[m]
        BY <1>5, <1>6, <1>8, <3>2, <4>1
      <4> QED BY <1>2, <1>7, <1>9, <4>1, <4>2 DEF Ended
    <3> QED BY <3>1, <3>2
  <2> QED BY <2>1, <2>2
<1>10. /\ Idle \in Stages /\ "selected" \in Stages /\ "running" \in Stages
       /\ "finishing" \in Stages /\ "closing" \in Stages
  BY DEF Stages
<1>11. ASSUME NEW s \in Stages \ {"closing"}, SetJob(e, m, s)
       PROVE  ~SetJob(e, m, "closing")
  BY <1>1, <1>11 DEF SetJob, TypeOK
<1>12. ASSUME progress' = progress
       PROVE  \A t \in Tasks : Ended(t) => Ended(t)'
  BY <1>2, <1>12 DEF Ended
<1>13. ASSUME NEW p \in Progress, CountAttempt(e, stream[m], p)
       PROVE  \A t \in Tasks : t # stream[m] /\ Ended(t) => Ended(t)'
  BY <1>1, <1>2, <1>13 DEF CountAttempt, Ended, TypeOK
<1>14. ASSUME NEW p \in Progress, UpdateProgress(stream[m], p)
       PROVE  \A t \in Tasks : Ended(t) => Ended(t)'
  BY <1>1, <1>2, <1>3, <1>14, EndedStays
<1>15. Started \in Progress /\ Done \in Progress /\ Failed \in Progress
  BY DEF Progress
<1>16. CASE SelectTask(e, m) \/ LastCheck(e, m)
  <2>1. progress' = progress /\ acked' = acked
    BY <1>16 DEF SelectTask, LastCheck, rowVars, redisVars
  <2>2. SetJob(e, m, "selected") \/ SetJob(e, m, "finishing")
    BY <1>16 DEF SelectTask, LastCheck
  <2>3. ~SetJob(e, m, "closing") /\ \E s \in Stages : SetJob(e, m, s)
    BY <1>10, <1>11, <2>2
  <2> QED BY <1>2, <1>9, <1>12, <2>1, <2>3
<1>17. CASE DropUnknown(e, m)
  <2>1. progress' = progress /\ acked' = acked \cup {m} /\ SetJob(e, m, Idle)
    BY <1>17 DEF DropUnknown, Ack, rowVars
  <2>2. Ended(stream[m])'
    BY <1>2, <1>17 DEF DropUnknown, Ended
  <2> QED BY <1>2, <1>8, <1>9, <1>10, <1>11, <1>12, <2>1, <2>2
<1>18. CASE Abandon(e, m)
  <2>1. acked' = acked \cup {m} /\ SetJob(e, m, Idle) /\ CountAttempt(e, stream[m], Failed)
    BY <1>18 DEF Abandon, Ack
  <2>2. Ended(stream[m])'
    BY <1>1, <1>2, <1>3, <2>1 DEF CountAttempt, Ended, TypeOK
  <2> QED BY <1>2, <1>8, <1>9, <1>10, <1>11, <1>13, <1>15, <2>1, <2>2
<1>19. CASE DropCanceled(e, m)
  <2>1. /\ acked' = acked \cup {m} /\ SetJob(e, m, Idle) /\ CountAttempt(e, stream[m], Started)
        /\ stream[m] \in flag
    BY <1>19 DEF DropCanceled, Ack
  <2> QED BY <1>2, <1>8, <1>9, <1>10, <1>11, <1>13, <1>15, <2>1
<1>20. CASE Start(e, m)
  <2>1. acked' = acked /\ SetJob(e, m, "running") /\ CountAttempt(e, stream[m], Started)
    BY <1>20 DEF Start, redisVars
  <2>2. ~SetJob(e, m, "closing") /\ \E s \in Stages : SetJob(e, m, s)
    BY <1>10, <1>11, <2>1
  <2> QED BY <1>2, <1>9, <1>13, <1>15, <2>1, <2>2
<1>21. CASE Finish(e, m) \/ Fail(e, m)
  <2>1. PICK p \in {Done, Failed} : UpdateProgress(stream[m], p)
    BY <1>21 DEF Finish, Fail
  <2>2. acked' = acked /\ SetJob(e, m, "closing")
    BY <1>21 DEF Finish, Fail, redisVars
  <2>3. Ended(stream[m])'
    <3>1. progress[stream[m]] \in {Queued, Started, Done, Failed}
      BY <1>1, <1>3 DEF TypeOK, Progress
    <3>2. row[stream[m]] # "deleted" => progress'[stream[m]] \in {Done, Failed}
      BY <1>1, <1>3, <2>1, <3>1
         DEF UpdateProgress, TypeOK, Queued, Started, Done, Failed
    <3> QED BY <1>2, <3>2 DEF Ended
  <2> QED BY <1>2, <1>9, <1>10, <1>14, <1>15, <2>1, <2>2, <2>3
<1>22. CASE Close(e, m)
  <2>1. /\ progress' = progress /\ acked' = acked \cup {m} /\ SetJob(e, m, Idle)
        /\ job[e][m] = "closing"
    BY <1>22 DEF Close, Ack, rowVars
  <2>2. Ended(stream[m])'
    BY <1>3, <1>7, <1>12, <1>2, <2>1
  <2> QED BY <1>2, <1>8, <1>9, <1>10, <1>11, <1>12, <2>1, <2>2
<1> QED BY <1>16, <1>17, <1>18, <1>19, <1>20, <1>21, <1>22 DEF Handler

\* StrandInv is inductive, given IInv.
LEMMA NextStrandInv ==
  ASSUME IInv, StrandInv, [Next]_vars
  PROVE  StrandInv'
<1> USE DEF rowVars, redisVars, procVars
<1>1. TypeOK /\ DeliveredOnce /\ HandlerOwnsMessage /\ faults' \in Nat
  BY FaultsStep DEF IInv, StrandInv
<1> SUFFICES ASSUME faults' = 0
             PROVE  /\ \A t \in Tasks : PublishedOnce(t)'
                    /\ \A m \in Published' : stream'[m] \in sent'
                    /\ \A t \in sent' : row'[t] # "absent" /\ \E m \in Published' : stream'[m] = t
                    /\ \A e \in Executors : \A m \in MsgId :
                         job'[e][m] = "closing" => Ended(stream[m])'
                    /\ \A m \in acked' : stream'[m] \in flag' \/ Ended(stream[m])'
  BY <1>1 DEF StrandInv
<1>2. /\ faults = 0
      /\ \A t \in Tasks : ~PublishTwice(t)
      /\ \A e \in Executors : ~CollectLost(e) /\ \A m \in MsgId : ~FaultyHandler(e, m)
  BY FaultsStep DEF StrandInv
<1>3. /\ \A t \in Tasks : PublishedOnce(t)
      /\ \A m \in Published : stream[m] \in sent
      /\ \A t \in sent : row[t] # "absent" /\ \E m \in Published : stream[m] = t
      /\ \A e \in Executors : \A m \in MsgId : job[e][m] = "closing" => Ended(stream[m])
      /\ \A m \in acked : stream[m] \in flag \/ Ended(stream[m])
  BY <1>2 DEF StrandInv
<1>4. \A m \in acked : m \in Published /\ stream[m] \in Tasks
  BY <1>1 DEF DeliveredOnce, TypeOK, Published
<1>5. \A e \in Executors : \A m \in MsgId :
        job[e][m] = "closing" => m \in Published /\ stream[m] \in Tasks
  BY <1>1, InHandPublished DEF Idle
<1>6. ASSUME UNCHANGED <<stream, sent, flag, row>>
      PROVE  /\ \A t \in Tasks : PublishedOnce(t)'
             /\ \A m \in Published' : stream'[m] \in sent'
             /\ \A t \in sent' : row'[t] # "absent" /\ \E m \in Published' : stream'[m] = t
  BY <1>3, <1>6 DEF Published, PublishedOnce
<1>7. ASSUME NEW t \in Tasks, InsertTask(t) \/ Cancel(t) \/ DeleteTask(t)
      PROVE  StrandInv'
  <2>1. /\ UNCHANGED <<stream, sent, acked, job, progress, faults>> /\ flag \subseteq flag'
        /\ \A u \in Tasks : row[u] = "deleted" => row'[u] = "deleted"
        /\ \A u \in Tasks : row[u] # "absent" => row'[u] # "absent"
    BY <1>1, <1>7 DEF InsertTask, Cancel, DeleteTask, TypeOK
  <2>2. \A u \in Tasks : Ended(u) => Ended(u)'
    BY <2>1 DEF Ended
  <2>3. (\A u \in Tasks : PublishedOnce(u)') /\ Published' = Published
    BY <1>3, <2>1 DEF Published, PublishedOnce
  <2>4. \A e \in Executors : \A m \in MsgId : job'[e][m] = "closing" => Ended(stream[m])'
    BY <1>3, <1>5, <2>1, <2>2 DEF Ended
  <2>5. \A m \in acked' : stream'[m] \in flag' \/ Ended(stream[m])'
    BY <1>3, <1>4, <2>1, <2>2 DEF Ended
  <2>6. sent \subseteq Tasks
    BY <1>1 DEF TypeOK
  <2> QED BY <1>1, <1>3, <2>1, <2>3, <2>4, <2>5, <2>6 DEF StrandInv
<1>8. ASSUME NEW t \in Tasks, Publish(t)
      PROVE  StrandInv'
  <2>1. /\ UNCHANGED <<acked, job, progress, row, flag>> /\ t \notin sent
        /\ sent' = sent \cup {t} /\ row[t] # "absent"
        /\ stream' = stream \o <<t>>
    BY <1>8 DEF Publish, Send
  <2>2. /\ Published' = Published \cup {Len(stream) + 1}
        /\ Len(stream) + 1 \notin Published
        /\ stream'[Len(stream) + 1] = t
        /\ \A m \in Published : stream'[m] = stream[m]
    BY <1>1, <2>1 DEF TypeOK, Published
  <2>3. ASSUME NEW u \in Tasks, NEW m \in Published', NEW n \in Published',
               stream'[m] = u, stream'[n] = u
        PROVE  m = n
    <3>1. CASE m \in Published /\ n \in Published
      BY <1>3, <2>2, <2>3, <3>1 DEF PublishedOnce
    <3>2. CASE m \notin Published \/ n \notin Published
      <4>1. \A k \in Published : stream[k] \in sent /\ stream'[k] = stream[k]
        BY <1>3, <2>2
      <4>2. \A k \in Published : stream'[k] # t
        BY <2>1, <4>1, Zenon
      <4> QED BY <2>2, <2>3, <3>2, <4>2
    <3> QED BY <3>1, <3>2
  <2>4. \A m \in Published : Ended(stream[m]) => Ended(stream[m])'
    BY <2>1, <2>2 DEF Ended
  <2>5. \A e \in Executors : \A m \in MsgId : job'[e][m] = "closing" => Ended(stream[m])'
    BY <1>3, <1>5, <2>1, <2>4
  <2>6. \A m \in acked' : stream'[m] \in flag' \/ Ended(stream[m])'
    BY <1>3, <1>4, <2>1, <2>2, <2>4
  <2>7. \A u \in Tasks : PublishedOnce(u)'
    BY <2>3 DEF PublishedOnce
  <2>8. \A m \in Published' : stream'[m] \in sent'
    BY <1>3, <2>1, <2>2
  <2>9. \A u \in sent' : row'[u] # "absent" /\ \E m \in Published' : stream'[m] = u
    <3>1. ASSUME NEW u \in sent PROVE \E m \in Published' : stream'[m] = u
      BY <1>3, <2>2
    <3>2. \E m \in Published' : stream'[m] = t
      BY <2>2
    <3> QED BY <1>3, <2>1, <3>1, <3>2
  <2> QED BY <1>1, <2>5, <2>6, <2>7, <2>8, <2>9 DEF StrandInv
<1>9. ASSUME NEW e \in Executors, NEW m \in MsgId, Handler(e, m)
      PROVE  StrandInv'
  <2>1. /\ \A f \in Executors : \A n \in MsgId : job'[f][n] = "closing" => Ended(stream[n])'
        /\ \A n \in acked' : stream[n] \in flag \/ Ended(stream[n])'
        /\ UNCHANGED <<sent, flag, stream, row>>
    BY <1>2, <1>9, HandlerStrands
  <2> QED BY <1>1, <1>6, <2>1 DEF StrandInv
<1>10. ASSUME NEW e \in Executors, CollectUnacked(e) \/ CollectNew(e) \/ Crash(e) \/ Restart(e)
       PROVE  StrandInv'
  <2>1. UNCHANGED <<stream, sent, flag, row, acked, progress>>
    BY <1>10 DEF CollectUnacked, CollectNew, ReadNew, Crash, Restart
  <2>2. \A f \in Executors : \A n \in MsgId : job'[f][n] = "closing" => job[f][n] = "closing"
    <3>1. CASE CollectUnacked(e)
      BY <1>1, <3>1 DEF CollectUnacked, SetJob, TypeOK
    <3>2. CASE CollectNew(e)
      <4>1. lastId + 1 \in MsgId
        BY <1>1, <3>2, ReadNewType DEF CollectNew
      <4> QED BY <1>1, <3>2, <4>1 DEF CollectNew, SetJob, TypeOK
    <3>3. CASE Crash(e)
      BY <1>1, <3>3 DEF Crash, TypeOK, Idle
    <3> QED BY <1>10, <3>1, <3>2, <3>3 DEF Restart
  <2>3. \A t \in Tasks : Ended(t) => Ended(t)'
    BY <2>1 DEF Ended
  <2>4. \A f \in Executors : \A n \in MsgId : job'[f][n] = "closing" => Ended(stream[n])'
    BY <1>3, <1>5, <2>1, <2>2, <2>3 DEF Ended
  <2>5. \A n \in acked' : stream'[n] \in flag' \/ Ended(stream[n])'
    BY <1>3, <1>4, <2>1, <2>3 DEF Ended
  <2> QED BY <1>1, <1>6, <2>1, <2>4, <2>5 DEF StrandInv
<1>11. ASSUME UNCHANGED vars PROVE StrandInv'
  BY <1>11 DEF vars, StrandInv, Published, PublishedOnce, Ended
<1>12. StrandInv'
  BY <1>2, <1>7, <1>8, <1>9, <1>10, <1>11 DEF Next
<1> QED BY <1>12 DEF StrandInv

\* While no database or Redis call has failed, no sent task that is neither
\* ended nor canceled is left without a message, wherever executors die: every
\* acknowledgement follows the write of 1 or -1, or the cancel flag.
THEOREM QueueStrandsNoTask == Spec => []NoStrandedTask
<1>1. Init => StrandInv
  BY DEF Init, StrandInv, Published, PublishedOnce, Idle
<1>2. IInv /\ StrandInv /\ [Next]_vars => StrandInv'
  BY NextStrandInv
<1>3. StrandInv => NoStrandedTask
  <2> SUFFICES ASSUME StrandInv, faults = 0, NEW t \in sent \ flag,
                      row[t] = "present", progress[t] \in {Queued, Started}
               PROVE  \E m \in Published \ acked : stream[m] = t
    BY DEF NoStrandedTask
  <2>1. PICK m \in Published : stream[m] = t
    BY DEF StrandInv
  <2>2. ~Ended(t)
    BY DEF Ended, Queued, Started, Done, Failed
  <2>3. m \notin acked
    BY <2>1, <2>2 DEF StrandInv
  <2> QED BY <2>1, <2>3
<1> QED BY InitIInv, NextIInv, <1>1, <1>2, <1>3, PTL DEF Spec
=============================================================================
