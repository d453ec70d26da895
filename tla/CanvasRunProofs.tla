--------------------------- MODULE CanvasRunProofs ---------------------------
(***************************************************************************)
(* For every set of DSLs: the types of CanvasRun, and that a component     *)
(* only runs behind everything it refers to.  For agents whose edges put   *)
(* no component into a batch behind one it refers to: that no batch holds  *)
(* such a pair, and that a component of a first run has read everything it *)
(* refers to; agents without forks are among these.  For agents whose      *)
(* fill-ups share a batch with fill-ups only: that an answer goes on from  *)
(* the fill-up.                                                            *)
(***************************************************************************)
EXTENDS CanvasShapes, SequenceTheorems, TLAPS

\* Tasks exist for positions that have been looked at, and only while they run.
Positions ==
  /\ phase # "idle" => idx <= to + 1
  /\ phase \in {"start", "post"} => idx <= pos /\ pos <= to + 1
  /\ phase = "start" => todo \subseteq 1 .. pos - 1
  /\ phase \in {"idle", "batch", "post"} => todo = {}

\* A path begins with Begin or with the fill-up it waits at.
Begins(p) == dsl.kind[p[1]] \in {"begin", "userfillup"}

Heads ==
  /\ stored # <<>> => Begins(stored)
  /\ phase # "idle" => Begins(path)

IInv == TypeOK /\ Positions /\ Heads /\ JoinWaits

----------------------------------------------------------------------------
(* Sequences.                                                              *)

\* The prefixes of a path.
LEMMA PrefixType ==
  ASSUME NEW S, NEW s \in Seq(S), NEW n \in 0 .. Len(s)
  PROVE  /\ Prefix(s, n) \in Seq(S)
         /\ Len(Prefix(s, n)) = n
         /\ \A k \in 1 .. n : Prefix(s, n)[k] = s[k]
  BY SubSeqProperties DEF Prefix

\* A path without one of its positions.
LEMMA RemoveAtType ==
  ASSUME NEW S, NEW s \in Seq(S), NEW n \in 1 .. Len(s)
  PROVE  /\ RemoveAt(s, n) \in Seq(S)
         /\ Len(RemoveAt(s, n)) = Len(s) - 1
         /\ \A k \in 1 .. n - 1 : RemoveAt(s, n)[k] = s[k]
<1> DEFINE r == [k \in 1 .. Len(s) - 1 |-> IF k < n THEN s[k] ELSE s[k + 1]]
<1>1. Len(s) - 1 \in Nat
  OBVIOUS
<1>2. \A k \in 1 .. Len(s) - 1 : (IF k < n THEN s[k] ELSE s[k + 1]) \in S
  OBVIOUS
<1>3. r \in Seq(S)
  BY <1>1, <1>2, IsASeq
<1>4. Len(r) = Len(s) - 1
  BY <1>1, <1>3
<1>5. \A k \in 1 .. n - 1 : r[k] = s[k]
  OBVIOUS
<1> QED
  BY <1>3, <1>4, <1>5 DEF RemoveAt

\* A path with components behind it.
LEMMA AppendedType ==
  ASSUME NEW S, NEW s \in Seq(S), NEW t \in Seq(S)
  PROVE  /\ s \o t \in Seq(S)
         /\ Len(s) <= Len(s \o t)
         /\ \A k \in 1 .. Len(s) : (s \o t)[k] = s[k]
  BY ConcatProperties

\* _extend_path only adds behind the path.
LEMMA ExtendType ==
  ASSUME NEW S, NEW s \in Seq(S), NEW t \in Seq(S)
  PROVE  /\ Extend(s, t) \in Seq(S)
         /\ Len(s) <= Len(Extend(s, t))
         /\ \A k \in 1 .. Len(s) : Extend(s, t)[k] = s[k]
<1>1. CASE t # <<>> /\ s # <<>> /\ s[Len(s)] = t[1]
  <2>1. Tail(t) \in Seq(S)
    BY <1>1
  <2> QED
    BY <1>1, <2>1, AppendedType DEF Extend
<1>2. CASE ~(t # <<>> /\ s # <<>> /\ s[Len(s)] = t[1])
  BY <1>2, AppendedType DEF Extend
<1> QED
  BY <1>1, <1>2

\* What precedes a position depends on the path up to it only.
LEMMA PrecededKept ==
  ASSUME NEW S, NEW p \in Seq(S), NEW q \in Seq(S),
         NEW n \in 1 .. Len(p), n <= Len(q),
         \A k \in 1 .. n : q[k] = p[k],
         Preceded(p, n)
  PROVE  Preceded(q, n)
<1>1. p[n] = q[n] /\ p[1] = q[1]
  OBVIOUS
<1>2. n - 1 \in 0 .. Len(p) /\ n - 1 \in 0 .. Len(q)
  OBVIOUS
<1>3. /\ Prefix(p, n - 1) \in Seq(S) /\ Len(Prefix(p, n - 1)) = n - 1
      /\ \A k \in 1 .. n - 1 : Prefix(p, n - 1)[k] = p[k]
  BY <1>2, PrefixType
<1>4. /\ Prefix(q, n - 1) \in Seq(S) /\ Len(Prefix(q, n - 1)) = n - 1
      /\ \A k \in 1 .. n - 1 : Prefix(q, n - 1)[k] = q[k]
  BY <1>2, PrefixType
<1>5. ASSUME NEW r, Occurs(r, Prefix(p, n - 1)) PROVE Occurs(r, Prefix(q, n - 1))
  BY <1>3, <1>4, <1>5 DEF Occurs
<1> QED
  BY <1>1, <1>5 DEF Preceded, Is

----------------------------------------------------------------------------
(* What a DSL gives.                                                       *)

\* The components of the DSL of this behaviour.
N == Nodes(dsl)

\* What a well-formed DSL gives for each of its components.
LEMMA DslType ==
  ASSUME TypeOK
  PROVE  /\ "begin" \in N /\ dsl.kind["begin"] = "begin"
         /\ dsl.kind \in [N -> Kinds]
         /\ dsl.downstream \in [N -> Seq(N)]
         /\ dsl.refs \in [N -> SUBSET N]
         /\ dsl.parent \in [N -> N \cup {Nothing}]
         /\ \A c \in N : dsl.kind[c] \in {"iterationitem", "loopitem"} => dsl.parent[c] \in N
         /\ dsl.start \in [N -> N]
         /\ \A c \in N : dsl.cases[c] \subseteq Seq(N)
         /\ dsl.goto \in [N -> Seq(N)]
         /\ dsl.count \in [N -> Nat]
         /\ dsl.collect \in [N -> N]
         /\ Nothing \notin N
<1>1. WellFormed(dsl) /\ Nothing \notin Nodes(dsl)
  BY CanvasAssumption DEF TypeOK, PathTypes
<1> QED
  BY <1>1 DEF WellFormed, N

----------------------------------------------------------------------------
(* The invariant.                                                          *)

\* An agent that has never run.
LEMMA InitInv == Init => IInv
<1> SUFFICES ASSUME Init PROVE IInv
  OBVIOUS
<1>1. PathTypes
  BY DEF Init, PathTypes
<1>2. ValueTypes
  BY DEF Init, ValueTypes, Outputs
<1>3. FlagTypes
  <2>1. 0 \in 0 .. MaxTurns /\ 0 \in 0 .. MaxFaults
    BY CanvasAssumption
  <2> QED
    BY <2>1 DEF Init, FlagTypes
<1>4. Positions /\ Heads /\ JoinWaits
  BY DEF Init, Positions, Heads, JoinWaits, Created
<1> QED
  BY <1>1, <1>2, <1>3, <1>4 DEF IInv, TypeOK

\* A message begins the workflow or answers its fill-up.
LEMMA RunInv == IInv /\ Run => IInv'
<1> SUFFICES ASSUME IInv, Run PROVE IInv'
  OBVIOUS
<1> USE DEF IInv, TypeOK
<1>1. stored \in Seq(N) /\ "begin" \in N /\ dsl.kind["begin"] = "begin"
  BY DslType DEF PathTypes, N
<1>2. path' \in Seq(N) /\ path' # <<>> /\ Len(path') > 0 /\ Begins(path')
  <2>1. CASE stored # <<>> /\ Is(stored[Len(stored)], "userfillup")
    <3>1. path' = stored
      BY <2>1 DEF Run, Resume
    <3>2. Len(stored) > 0 /\ Begins(stored)
      BY <1>1, <2>1 DEF Heads
    <3>3. Begins(path')
      BY <3>1, <3>2 DEF Begins
    <3>4. path' \in Seq(N) /\ path' # <<>> /\ Len(path') > 0
      BY <1>1, <2>1, <3>1, <3>2
    <3> QED
      BY <3>3, <3>4
  <2>2. CASE ~(stored # <<>> /\ Is(stored[Len(stored)], "userfillup"))
    <3>1. path' = Append(stored, "begin")
      BY <2>2 DEF Run, Resume
    <3>2. path' \in Seq(N) /\ path' # <<>> /\ Len(path') > 0
      BY <1>1, <3>1, AppendProperties
    <3>3. CASE stored = <<>>
      BY <1>1, <3>1, <3>2, <3>3 DEF Begins
    <3>4. CASE stored # <<>>
      <4>1. path'[1] = stored[1]
        BY <1>1, <3>1, <3>4, AppendProperties
      <4> QED
        BY <3>2, <3>4, <4>1 DEF Begins, Heads
    <3> QED
      BY <3>3, <3>4
  <2> QED
    BY <2>1, <2>2
<1>3. Len(path') \in Nat \ {0}
  BY <1>2
<1>4. N' = N /\ dsl' = dsl /\ stored' = stored
  BY DEF Run, N, Nodes
<1>5. todo = {} /\ todo' = {}
  BY DEF Positions, Run
<1>6. PathTypes'
  BY <1>1, <1>2, <1>3, <1>4, <1>5 DEF PathTypes, Run, N
<1>7. ValueTypes'
  BY <1>4 DEF ValueTypes, Run, N, Outputs
<1>8. FlagTypes'
  <2>1. turns' \in 0 .. MaxTurns
    BY CanvasAssumption DEF Run, FlagTypes
  <2> QED
    BY <2>1 DEF FlagTypes, Run
<1>9. Positions' /\ JoinWaits'
  BY <1>3, <1>5 DEF Run, Positions, JoinWaits, Created
<1>10. Heads'
  BY <1>2, <1>4 DEF Heads, Begins
<1> QED
  BY <1>6, <1>7, <1>8, <1>9, <1>10

\* Steps that leave the path and the values alone.
LEMMA StartBatchInv == IInv /\ StartBatch => IInv'
<1> SUFFICES ASSUME IInv, StartBatch PROVE IInv'
  OBVIOUS
<1> USE DEF IInv, TypeOK
<1>1. PathTypes'
  BY DEF PathTypes, StartBatch
<1>2. ValueTypes'
  BY DEF ValueTypes, StartBatch, values
<1>3. FlagTypes'
  BY DEF FlagTypes, StartBatch
<1>4. Positions' /\ JoinWaits'
  <2>1. Created' = {}
    BY DEF PathTypes, StartBatch, Created
  <2> QED
    BY <2>1 DEF PathTypes, StartBatch, Positions, JoinWaits
<1>5. Heads'
  BY DEF Heads, Begins, StartBatch
<1> QED
  BY <1>1, <1>2, <1>3, <1>4, <1>5

\* The steps that leave path and positions alone.
LEMMA QuietInv ==
  ASSUME IInv, Abandon \/ Cancel \/ Crash \/ Reset
  PROVE  IInv'
<1> USE DEF IInv, TypeOK
<1>1. PathTypes'
  <2>1. CASE Abandon \/ Cancel
    BY <2>1 DEF PathTypes, Abandon, Cancel, batch
  <2>2. CASE Crash
    BY <2>2 DEF PathTypes, Crash
  <2>3. CASE Reset
    <3>1. <<>> \in Seq(Nodes(dsl))
      OBVIOUS
    <3> QED
      BY <2>3, <3>1 DEF PathTypes, Reset, batch
  <2> QED
    BY <2>1, <2>2, <2>3
<1>2. ValueTypes'
  BY DEF ValueTypes, Abandon, Cancel, Crash, Reset, values
<1>3. FlagTypes'
  BY DEF FlagTypes, Abandon, Cancel, Crash, Reset
<1>4. Positions'
  BY DEF PathTypes, Positions, Abandon, Cancel, Crash, Reset, batch
<1>5. Heads'
  BY DEF Heads, Begins, Abandon, Cancel, Crash, Reset
<1>6. JoinWaits'
  BY DEF JoinWaits, Created, Preceded, Is, Abandon, Cancel, Crash, Reset, batch
<1> QED
  BY <1>1, <1>2, <1>3, <1>4, <1>5, <1>6

\* The steps around the tasks of a batch.
LEMMA GatherInv ==
  ASSUME IInv, Gather \/ Gathered
  PROVE  IInv'
<1> USE DEF IInv, TypeOK
<1>1. PathTypes'
  BY DEF PathTypes, Gather, Gathered, batch
<1>2. ValueTypes'
  BY DEF ValueTypes, Gather, Gathered, values
<1>3. FlagTypes'
  BY DEF FlagTypes, Gather, Gathered
<1>4. Positions'
  <2>1. CASE Gather
    BY <2>1 DEF Positions, Gather, batch
  <2>2. CASE Gathered
    BY <2>2 DEF PathTypes, Positions, Gathered
  <2> QED
    BY <2>1, <2>2
<1>5. Heads'
  BY DEF Heads, Begins, Gather, Gathered
<1>6. Created' = Created /\ path' = path /\ dsl' = dsl
  BY DEF PathTypes, Positions, Created, Gather, Gathered, batch
<1>7. JoinWaits'
  BY <1>6 DEF JoinWaits, Preceded, Is
<1> QED
  BY <1>1, <1>2, <1>3, <1>4, <1>5, <1>7

\* A step that keeps the path up to the positions it has created tasks for.
LEMMA JoinKept ==
  ASSUME IInv, dsl' = dsl, path' \in Seq(N), Created' \subseteq Created,
         \A n \in Created :
           /\ n \in 1 .. Len(path) /\ n <= Len(path')
           /\ \A k \in 1 .. n : path'[k] = path[k]
  PROVE  JoinWaits'
<1>1. path \in Seq(N)
  BY DEF IInv, TypeOK, PathTypes, N
<1>2. ASSUME NEW n \in Created' PROVE Preceded(path, n)'
  <2>1. n \in Created
    BY <1>2
  <2>2. Preceded(path, n)
    BY <2>1 DEF IInv, JoinWaits
  <2>3. n \in 1 .. Len(path) /\ n <= Len(path') /\ \A k \in 1 .. n : path'[k] = path[k]
    BY <2>1
  <2>4. Preceded(path', n)
    BY <1>1, <2>2, <2>3, PrecededKept
  <2> QED
    BY <2>4 DEF Preceded, Is
<1> QED
  BY <1>2 DEF JoinWaits

\* A component that waits leaves the path behind those that do not.
LEMMA DeferInv == IInv /\ Defer => IInv'
<1> SUFFICES ASSUME IInv, Defer PROVE IInv'
  OBVIOUS
<1> USE DEF IInv, TypeOK
<1>1. /\ path \in Seq(N) /\ path # <<>>
      /\ pos \in Nat \ {0} /\ to \in Nat /\ pos <= to /\ to <= Len(path)
      /\ idx \in Nat \ {0}
  BY DEF PathTypes, Defer, N
<1>2. pos \in 1 .. Len(path) /\ Len(path) \in Nat
  BY <1>1
<1>3. /\ path' \in Seq(N) /\ Len(path') = Len(path) - 1
      /\ \A k \in 1 .. pos - 1 : path'[k] = path[k]
  BY <1>1, <1>2, RemoveAtType DEF Defer
<1>4. dsl' = dsl /\ N' = N
  BY DEF Defer, N, Nodes
<1>5. pos # 1
  BY DEF Defer, Waits, Heads, Begins
<1>6. Len(path') > 0 /\ path' # <<>> /\ path'[1] = path[1]
  BY <1>2, <1>3, <1>5
<1>7. todo \subseteq 1 .. pos - 1 /\ idx <= pos /\ phase = "start"
  BY DEF Positions, Defer
<1>8. PathTypes'
  <2>1. to' \in Nat /\ to' <= Len(path')
    BY <1>1, <1>3 DEF Defer
  <2>2. todo' \subseteq 1 .. to'
    BY <1>1, <1>7 DEF Defer
  <2> QED
    BY <1>3, <1>4, <1>6, <2>1, <2>2 DEF Defer, PathTypes, N
<1>9. ValueTypes'
  BY <1>4 DEF ValueTypes, Defer, values
<1>10. FlagTypes'
  BY DEF FlagTypes, Defer
<1>11. Positions'
  BY <1>1, <1>7 DEF Positions, Defer
<1>12. Heads'
  BY <1>4, <1>6 DEF Heads, Begins, Defer
<1>13. JoinWaits'
  <2>1. Created = idx .. pos - 1 /\ Created' = Created
    BY <1>7 DEF Created, Defer
  <2>2. \A n \in Created : n \in 1 .. Len(path) /\ n <= Len(path') /\ n <= pos - 1
    BY <1>1, <1>2, <1>3, <2>1
  <2>3. \A n \in Created : \A k \in 1 .. n : path'[k] = path[k]
    BY <1>1, <1>3, <2>2
  <2> QED
    BY <1>3, <1>4, <2>1, <2>2, <2>3, JoinKept
<1> QED
  BY <1>8, <1>9, <1>10, <1>11, <1>12, <1>13

\* A component that need not wait gets a task.
LEMMA CreateTaskInv == IInv /\ CreateTask => IInv'
<1> SUFFICES ASSUME IInv, CreateTask PROVE IInv'
  OBVIOUS
<1> USE DEF IInv, TypeOK
<1>1. /\ pos \in Nat \ {0} /\ to \in Nat /\ pos <= to /\ idx \in Nat \ {0}
      /\ phase = "start" /\ idx <= pos
  BY DEF PathTypes, Positions, CreateTask
<1>2. PathTypes'
  BY <1>1 DEF PathTypes, CreateTask
<1>3. ValueTypes'
  BY DEF ValueTypes, CreateTask, values
<1>4. FlagTypes'
  BY DEF FlagTypes, CreateTask
<1>5. Positions'
  <2>1. todo' \subseteq 1 .. pos' - 1
    BY <1>1 DEF Positions, CreateTask
  <2> QED
    BY <1>1, <2>1 DEF Positions, CreateTask
<1>6. Heads'
  BY DEF Heads, Begins, CreateTask
<1>7. JoinWaits'
  <2>1. Created' = Created \cup {pos}
    BY <1>1 DEF Created, CreateTask
  <2>2. Preceded(path, pos)
    BY DEF CreateTask, Waits, Preceded
  <2>3. \A n \in Created' : Preceded(path, n)
    BY <2>1, <2>2 DEF JoinWaits
  <2> QED
    BY <2>3 DEF JoinWaits, Preceded, Is, CreateTask
<1> QED
  BY <1>2, <1>3, <1>4, <1>5, <1>6, <1>7

\* Invoking a component or failing keeps the values' types.
LEMMA InvokeType ==
  ASSUME TypeOK, NEW n \in todo, phase = "gather", Invoke(n), dsl' = dsl
  PROVE  ValueTypes' /\ faults' = faults
<1> DEFINE c == path[n]
<1>1. c \in N
  BY DEF TypeOK, PathTypes, N
<1>2. /\ outputs \in [N -> Outputs] /\ inputs \in [N -> SUBSET N] /\ failed \subseteq N
      /\ cursor \in [N -> Int] /\ results \in [N -> Seq(Outputs)]
  BY DEF TypeOK, ValueTypes, N
<1>3. /\ dsl.refs \in [N -> SUBSET N] /\ dsl.parent \in [N -> N \cup {Nothing}]
      /\ dsl.start \in [N -> N] /\ dsl.count \in [N -> Nat] /\ dsl.collect \in [N -> N]
      /\ IsItem(c) => Parent(c) \in N
  BY <1>1, DslType DEF IsItem, Parent
<1>4. N' = N
  BY DEF N, Nodes
<1>5. inputs' \in [N -> SUBSET N] /\ failed' = failed /\ faults' = faults
  <2>1. {r \in dsl.refs[c] : outputs[r] # Nothing} \in SUBSET N
    BY <1>1, <1>3
  <2>2. inputs' = [inputs EXCEPT ![c] = {r \in dsl.refs[c] : outputs[r] # Nothing}]
    BY DEF Invoke
  <2>3. failed' = failed /\ faults' = faults
    BY DEF Invoke
  <2> HIDE DEF c
  <2> QED
    BY <1>1, <1>2, <2>1, <2>2, <2>3
<1>6. CASE Is(c, "iterationitem")
  <2>1. NextItem(c)
    BY <1>6 DEF Invoke
  <2>2. Parent(c) \in N
    BY <1>3, <1>6 DEF Is, IsItem
  <2> HIDE DEF c
  <2> DEFINE it == Parent(c)
             m == dsl.count[it]
             k == cursor[c]
  <2>3. m \in Nat /\ k \in Int /\ outputs[dsl.collect[it]] \in Outputs
    BY <1>1, <1>2, <1>3, <2>2
  <2>4. ItemAt(k, m) \in Outputs
    BY <2>3 DEF ItemAt, Outputs
  <2>5. results' \in [N -> Seq(Outputs)]
    <3>1. Append(results[it], outputs[dsl.collect[it]]) \in Seq(Outputs)
      BY <1>2, <2>2, <2>3, AppendProperties
    <3> QED
      BY <1>2, <2>1, <2>2, <3>1 DEF NextItem
  <2>6. cursor' \in [N -> Int] /\ outputs' \in [N -> Outputs]
    <3>1. CASE k >= m
      <4>1. cursor' = [cursor EXCEPT ![c] = -1] /\ outputs' = outputs
        BY <2>1, <3>1 DEF NextItem
      <4> QED
        BY <1>1, <1>2, <4>1
    <3>2. CASE ~(k >= m)
      <4>1. /\ cursor' = [cursor EXCEPT ![c] = k + 1]
            /\ outputs' = [outputs EXCEPT ![c] = ItemAt(k, m)]
        BY <2>1, <3>2 DEF NextItem
      <4> HIDE DEF k, m
      <4> QED
        BY <1>1, <1>2, <2>3, <2>4, <4>1
    <3> QED
      BY <3>1, <3>2
  <2> QED
    BY <1>2, <1>4, <1>5, <2>5, <2>6 DEF ValueTypes, N
<1>7. CASE ~Is(c, "iterationitem") /\ Is(c, "loopitem")
  <2>1. NextRound(c)
    BY <1>7 DEF Invoke
  <2> HIDE DEF c
  <2>2. cursor' \in [N -> Int] /\ outputs' = outputs /\ results' = results
    BY <1>1, <1>2, <2>1 DEF NextRound
  <2> QED
    BY <1>2, <1>4, <1>5, <2>2 DEF ValueTypes, N
<1>8. CASE ~Is(c, "iterationitem") /\ ~Is(c, "loopitem")
  <2>1. outputs' = [outputs EXCEPT ![c] = Work(c)] /\ cursor' = cursor /\ results' = results
    BY <1>8 DEF Invoke
  <2> HIDE DEF c
  <2>2. Work(c) \in Outputs
    <3>1. CASE InGroup(c, "iteration")
      <4>1. Parent(c) \in N
        BY <1>1, <1>3, <3>1 DEF InGroup, Parent
      <4> QED
        BY <1>2, <1>3, <3>1, <4>1 DEF Work
    <3>2. CASE ~InGroup(c, "iteration")
      BY <3>2 DEF Work, Outputs
    <3> QED
      BY <3>1, <3>2
  <2>3. outputs' \in [N -> Outputs]
    BY <1>1, <1>2, <2>1, <2>2
  <2> QED
    BY <1>2, <1>4, <1>5, <2>1, <2>3 DEF ValueTypes, N
<1> QED
  BY <1>5, <1>6, <1>7, <1>8

\* A task runs or fails.
LEMMA RunTaskInv == IInv /\ RunTask => IInv'
<1> SUFFICES ASSUME IInv, RunTask PROVE IInv'
  OBVIOUS
<1> USE DEF IInv
<1>1. PICK n \in todo : todo' = todo \ {n} /\ (Invoke(n) \/ Fail(n))
  BY DEF RunTask
<1>2. /\ phase = "gather" /\ phase' = phase /\ dsl' = dsl /\ path' = path
      /\ stored' = stored /\ idx' = idx /\ to' = to /\ pos' = pos
  BY DEF RunTask
<1>3. PathTypes'
  BY <1>1, <1>2 DEF TypeOK, PathTypes
<1>4. ValueTypes' /\ faults' \in 0 .. MaxFaults
  <2>1. CASE Invoke(n)
    BY <1>2, <2>1, InvokeType DEF TypeOK, FlagTypes
  <2>2. CASE Fail(n)
    <3>1. faults' \in 0 .. MaxFaults
      BY <2>2, CanvasAssumption DEF Fail, TypeOK, FlagTypes
    <3>2. path[n] \in Nodes(dsl)
      BY <1>2 DEF TypeOK, PathTypes
    <3>3. failed' \subseteq Nodes(dsl)
      BY <2>2, <3>2 DEF Fail, TypeOK, ValueTypes
    <3> QED
      BY <1>2, <2>2, <3>1, <3>3 DEF Fail, TypeOK, ValueTypes
  <2> QED
    BY <1>1, <2>1, <2>2
<1>5. FlagTypes'
  BY <1>2, <1>4 DEF RunTask, TypeOK, FlagTypes
<1>6. Positions'
  BY <1>1, <1>2 DEF Positions
<1>7. Heads'
  BY <1>2 DEF Heads, Begins
<1>8. JoinWaits'
  BY <1>2 DEF JoinWaits, Created, Preceded, Is
<1> QED
  BY <1>3, <1>4, <1>5, <1>6, <1>7, <1>8 DEF TypeOK

\* Where a component leads: the path grows by components.
LEMMA OnwardType ==
  ASSUME TypeOK, NEW c \in N
  PROVE  Onward(c) \in Seq(N)
<1>1. /\ dsl.start \in [N -> N] /\ dsl.downstream \in [N -> Seq(N)]
      /\ Parent(c) # Nothing => Parent(c) \in N
  BY DslType DEF Parent
<1>2. \A x \in N : <<x>> \in Seq(N)
  OBVIOUS
<1> QED
  BY <1>1, <1>2 DEF Onward, InGroup

\* What a component leads to is put behind the path.
LEMMA LeadType ==
  ASSUME TypeOK, NEW c \in N, Lead(c)
  PROVE  /\ path' \in Seq(N)
         /\ Len(path) <= Len(path')
         /\ \A k \in 1 .. Len(path) : path'[k] = path[k]
         /\ cursor' \in [N -> Int]
<1>1. path \in Seq(N) /\ cursor \in [N -> Int]
  BY DEF TypeOK, PathTypes, ValueTypes, N
<1>2. CASE IsItem(c) /\ MayEnd(c) /\ path' = Extend(path, dsl.downstream[Parent(c)])
           /\ cursor' = [cursor EXCEPT ![c] = -1]
  <2>1. dsl.downstream[Parent(c)] \in Seq(N)
    BY <1>2, DslType DEF IsItem, Parent
  <2> QED
    BY <1>1, <1>2, <2>1, ExtendType
<1>3. CASE path' = Extend(path, Onward(c)) /\ cursor' = cursor
  BY <1>1, <1>3, OnwardType, ExtendType
<1>4. CASE /\ cursor' = cursor
           /\ \E s \in dsl.cases[c] \cup {t \in {<<>>} : c \in failed} :
                path' = Extend(path, s)
  <2>1. PICK s \in dsl.cases[c] \cup {t \in {<<>>} : c \in failed} : path' = Extend(path, s)
    BY <1>4
  <2>2. s \in Seq(N)
    <3>1. dsl.cases[c] \subseteq Seq(N)
      BY DslType
    <3>2. <<>> \in Seq(N)
      OBVIOUS
    <3> QED
      BY <2>1, <3>1, <3>2
  <2> QED
    BY <1>1, <1>4, <2>1, <2>2, ExtendType
<1> QED
  BY <1>2, <1>3, <1>4 DEF Lead

\* Post-processing only adds behind the path.
LEMMA PostGrows ==
  ASSUME IInv, Post
  PROVE  /\ path' \in Seq(N) /\ Len(path) <= Len(path')
         /\ \A k \in 1 .. Len(path) : path'[k] = path[k]
         /\ cursor' \in [N -> Int]
<1> USE DEF IInv
<1>1. path \in Seq(N) /\ path[pos] \in N /\ cursor \in [N -> Int]
  BY DEF Post, TypeOK, PathTypes, ValueTypes, Positions, N
<1>2. CASE path[pos] \in failed /\ dsl.goto[path[pos]] # <<>>
  <2>1. path' = path \o dsl.goto[path[pos]] /\ cursor' = cursor
    BY <1>2 DEF Post
  <2>2. dsl.goto[path[pos]] \in Seq(N)
    BY <1>1, DslType
  <2> QED
    BY <1>1, <2>1, <2>2, AppendedType
<1>3. CASE ~(path[pos] \in failed /\ dsl.goto[path[pos]] # <<>>)
  <2>1. Lead(path[pos])
    BY <1>3 DEF Post
  <2> QED
    BY <1>1, <2>1, LeadType
<1> QED
  BY <1>2, <1>3

\* The post-processing of one component.
LEMMA PostInv == IInv /\ Post => IInv'
<1> SUFFICES ASSUME IInv, Post PROVE IInv'
  OBVIOUS
<1> USE DEF IInv
<1>1. /\ path \in Seq(N) /\ path # <<>> /\ to <= Len(path) /\ to \in Nat
      /\ pos \in Nat \ {0} /\ pos <= to /\ idx \in Nat \ {0} /\ idx <= pos
      /\ phase = "post" /\ todo = {}
  BY DEF Post, TypeOK, PathTypes, Positions, N
<1>2. path[pos] \in N
  BY <1>1
<1>3. /\ dsl' = dsl /\ stored' = stored /\ idx' = idx /\ to' = to /\ phase' = phase
      /\ todo' = todo /\ pos' = pos + 1 /\ outputs' = outputs /\ inputs' = inputs
      /\ failed' = failed /\ results' = results /\ turns' = turns /\ faults' = faults
      /\ canceled' = canceled /\ asked' = asked
  BY DEF Post
<1>4. N' = N
  BY <1>3 DEF N, Nodes
<1>5. /\ path' \in Seq(N) /\ Len(path) <= Len(path')
      /\ \A k \in 1 .. Len(path) : path'[k] = path[k]
      /\ cursor' \in [N -> Int]
  BY PostGrows
<1>6. error' \in BOOLEAN
  <2>1. error \in BOOLEAN
    BY DEF TypeOK, FlagTypes
  <2>2. error' = error \/ error' = (error \/ (path[pos] \in failed /\ path[pos] \notin dsl.default))
    BY DEF Post
  <2> QED
    BY <2>1, <2>2
<1>7. path' # <<>> /\ path'[1] = path[1] /\ to <= Len(path')
  BY <1>1, <1>5
<1>8. PathTypes'
  BY <1>1, <1>3, <1>4, <1>5, <1>7 DEF TypeOK, PathTypes, N
<1>9. ValueTypes'
  BY <1>3, <1>4, <1>5 DEF TypeOK, ValueTypes, N
<1>10. FlagTypes'
  BY <1>3, <1>6 DEF TypeOK, FlagTypes
<1>11. Positions'
  BY <1>1, <1>3 DEF Positions
<1>12. Heads'
  BY <1>1, <1>3, <1>7 DEF Heads, Begins
<1>13. JoinWaits'
  <2>1. Created = idx .. to /\ Created' = Created
    BY <1>1, <1>3 DEF Created
  <2>2. \A n \in Created : n \in 1 .. Len(path) /\ n <= Len(path')
    BY <1>1, <1>5, <2>1
  <2>3. \A n \in Created : \A k \in 1 .. n : path'[k] = path[k]
    BY <1>1, <1>5, <2>2
  <2> QED
    BY <1>3, <1>5, <2>1, <2>2, <2>3, JoinKept
<1> QED
  BY <1>8, <1>9, <1>10, <1>11, <1>12, <1>13 DEF TypeOK

\* The end of a run: what is stored is a path that begins like a path.
LEMMA LeaveInv ==
  ASSUME IInv, NEW p \in Seq(N), Leave(p), phase = "post", asked' \in BOOLEAN,
         p # <<>> => Begins(p)
  PROVE  IInv'
<1> USE DEF IInv, TypeOK
<1>1. /\ path' = p /\ stored' = p /\ phase' = "idle" /\ dsl' = dsl
      /\ idx' = idx /\ to' = to /\ pos' = pos /\ todo' = todo
  BY DEF Leave, batch
<1>2. PathTypes'
  BY <1>1 DEF PathTypes, N
<1>3. ValueTypes'
  BY DEF ValueTypes, Leave, values
<1>4. FlagTypes'
  <2>1. /\ error' = error /\ canceled' = canceled /\ turns' = turns /\ faults' = faults
    BY DEF Leave
  <2> QED
    BY <1>1, <2>1 DEF FlagTypes
<1>5. Positions'
  BY <1>1 DEF Positions
<1>6. Heads'
  BY <1>1 DEF Heads, Begins
<1>7. JoinWaits'
  <2>1. Created' = {}
    BY <1>1 DEF Created
  <2> QED
    BY <2>1 DEF JoinWaits
<1> QED
  BY <1>2, <1>3, <1>4, <1>5, <1>6, <1>7

\* What lies ahead of the batch.
LEMMA AheadType ==
  ASSUME IInv, phase # "idle"
  PROVE  /\ Ahead \in Seq(N)
         /\ Ahead # <<>> => to < Len(path)
<1>1. path \in Seq(N) /\ to \in Nat /\ to <= Len(path) /\ Len(path) \in Nat
  BY DEF IInv, TypeOK, PathTypes, N
<1>2. to + 1 \in 1 .. Len(path) + 1
  BY <1>1
<1>3. Ahead \in Seq(N) /\ Len(Ahead) = Len(path) - to
  <2>1. SubSeq(path, to + 1, Len(path)) \in Seq(N)
    BY <1>1, <1>2, SubSeqProperties
  <2>2. Len(SubSeq(path, to + 1, Len(path))) = IF to + 1 <= Len(path) THEN Len(path) - (to + 1) + 1 ELSE 0
    BY <1>1, <1>2, SubSeqProperties
  <2> QED
    BY <1>1, <2>1, <2>2 DEF Ahead
<1> QED
  BY <1>1, <1>3

\* The ways a batch ends.
LEMMA EndInv ==
  ASSUME IInv, FailedRun \/ Pause \/ Finish \/ NextBatch
  PROVE  IInv'
<1>1. /\ path \in Seq(N) /\ path # <<>> /\ to \in Nat /\ to <= Len(path)
      /\ idx \in Nat \ {0} /\ idx <= to + 1 /\ phase = "post" /\ Begins(path)
  BY DEF IInv, TypeOK, PathTypes, Positions, Heads, N,
         FailedRun, Pause, Finish, NextBatch
<1>2. asked \in BOOLEAN
  BY DEF IInv, TypeOK, FlagTypes
<1>3. CASE FailedRun
  <2>1. idx - 1 \in 0 .. Len(path)
    BY <1>1
  <2>2. /\ Prefix(path, idx - 1) \in Seq(N) /\ Len(Prefix(path, idx - 1)) = idx - 1
        /\ \A k \in 1 .. idx - 1 : Prefix(path, idx - 1)[k] = path[k]
    BY <1>1, <2>1, PrefixType
  <2>3. Prefix(path, idx - 1) # <<>> => Begins(Prefix(path, idx - 1))
    <3>1. Prefix(path, idx - 1) # <<>> => 1 \in 1 .. idx - 1
      BY <1>1, <2>2
    <3> QED
      BY <1>1, <2>2, <3>1 DEF Begins
  <2> QED
    BY <1>1, <1>2, <1>3, <2>2, <2>3, LeaveInv DEF FailedRun
<1>4. CASE Pause
  <2>1. Ahead \in Seq(N)
    BY <1>1, AheadType
  <2>2. PICK q \in [DOMAIN Ahead -> DOMAIN Ahead] :
          /\ FillUpsFirst(Ahead, q)
          /\ Leave([k \in DOMAIN Ahead |-> Ahead[q[k]]])
    BY <1>4 DEF Pause
  <2> DEFINE p == [k \in DOMAIN Ahead |-> Ahead[q[k]]]
  <2>3. p \in Seq(N) /\ DOMAIN p = DOMAIN Ahead
    <3>1. DOMAIN Ahead = 1 .. Len(Ahead) /\ Len(Ahead) \in Nat
      BY <2>1
    <3>2. \A k \in 1 .. Len(Ahead) : Ahead[q[k]] \in N
      BY <2>1, <3>1
    <3> QED
      BY <3>1, <3>2, IsASeq
  <2>4. Begins(p)
    <3>1. PICK k \in DOMAIN Ahead : Is(Ahead[k], "userfillup")
      BY <1>4 DEF Pause, Asks
    <3>2. PICK j \in DOMAIN Ahead : q[j] = k
      BY <2>2 DEF FillUpsFirst
    <3>3. 1 \in DOMAIN Ahead /\ (j = 1 \/ 1 < j)
      BY <2>1
    <3>4. Is(Ahead[q[1]], "userfillup")
      BY <2>2, <3>1, <3>2, <3>3 DEF FillUpsFirst
    <3> QED
      BY <3>3, <3>4 DEF Begins, Is
  <2>5. asked' \in BOOLEAN
    BY <1>4 DEF Pause
  <2> HIDE DEF p
  <2>6. Leave(p)
    BY <2>2 DEF p
  <2> QED
    BY <1>1, <2>3, <2>4, <2>5, <2>6, LeaveInv
<1>5. CASE Finish
  BY <1>1, <1>2, <1>5, LeaveInv DEF Finish
<1>6. CASE NextBatch
  <2>1. to < Len(path) /\ Len(path) \in Nat
    BY <1>1, <1>6, AheadType DEF NextBatch
  <2>2. /\ idx' = to + 1 /\ to' = Len(path) /\ phase' = "batch" /\ path' = path
        /\ dsl' = dsl /\ stored' = stored /\ pos' = pos /\ todo' = todo
    BY <1>6 DEF NextBatch
  <2>3. todo = {}
    BY <1>1 DEF IInv, Positions
  <2>4. PathTypes'
    BY <1>1, <2>1, <2>2, <2>3 DEF IInv, TypeOK, PathTypes
  <2>5. ValueTypes'
    BY <1>6 DEF IInv, TypeOK, ValueTypes, NextBatch, values
  <2>6. FlagTypes'
    BY <1>6 DEF IInv, TypeOK, FlagTypes, NextBatch
  <2>7. Positions'
    BY <1>1, <2>1, <2>2, <2>3 DEF Positions
  <2>8. Heads'
    BY <1>1, <2>2 DEF IInv, Heads, Begins
  <2>9. JoinWaits'
    <3>1. Created' = {}
      BY <2>2 DEF Created
    <3> QED
      BY <3>1 DEF JoinWaits
  <2> QED
    BY <2>4, <2>5, <2>6, <2>7, <2>8, <2>9 DEF IInv, TypeOK
<1> QED
  BY <1>3, <1>4, <1>5, <1>6

----------------------------------------------------------------------------
(* The theorems.                                                           *)

\* Every step keeps the invariant.
LEMMA NextInv == IInv /\ [Next]_vars => IInv'
<1> SUFFICES ASSUME IInv, [Next]_vars PROVE IInv'
  OBVIOUS
<1>1. CASE Run
  BY <1>1, RunInv
<1>2. CASE StartBatch \/ Abandon
  BY <1>2, StartBatchInv, QuietInv
<1>3. CASE Defer \/ CreateTask \/ Gather
  BY <1>3, DeferInv, CreateTaskInv, GatherInv
<1>4. CASE RunTask \/ Gathered
  BY <1>4, RunTaskInv, GatherInv
<1>5. CASE Post
  BY <1>5, PostInv
<1>6. CASE FailedRun \/ Pause \/ Finish \/ NextBatch
  BY <1>6, EndInv
<1>7. CASE Cancel \/ Crash \/ Reset
  BY <1>7, QuietInv
<1>8. CASE UNCHANGED vars
  BY <1>8, SMTT(30) DEF vars, batch, values, IInv, TypeOK, PathTypes, ValueTypes, FlagTypes,
              Positions, Heads, Begins, JoinWaits, Created, Preceded, Is
<1> QED
  BY <1>1, <1>2, <1>3, <1>4, <1>5, <1>6, <1>7, <1>8 DEF Next, Step

\* The invariant holds for every set of DSLs, number of messages and faults.
THEOREM Inductive == Spec => []IInv
  BY InitInv, NextInv, PTL DEF Spec

\* Every variable of a run has its type, the batch always lies in the path.
THEOREM Typed == Spec => []TypeOK
<1>1. IInv => TypeOK
  BY DEF IInv
<1> QED
  BY <1>1, Inductive, PTL

\* In no agent does _run_batch start a component before what it refers to
\* is in the path ahead of it, unless the run answers a fill-up.
THEOREM ReferencesPrecede == Spec => []JoinWaits
<1>1. IInv => JoinWaits
  BY DEF IInv
<1> QED
  BY <1>1, Inductive, PTL

----------------------------------------------------------------------------
(* Where a run is.                                                         *)

\* No step changes the DSL.
LEMMA SameDsl == ASSUME [Next]_vars PROVE dsl' = dsl /\ N' = N
<1>1. dsl' = dsl
  BY DEF Next, Step, Run, StartBatch, Abandon, Defer, CreateTask, Gather, RunTask, Gathered,
         Post, FailedRun, Pause, Finish, NextBatch, Leave, Cancel, Crash, Reset, vars
<1> QED BY <1>1 DEF N, Nodes

\* Where the batch is in the path of a run.
LEMMA RunPlace ==
  ASSUME IInv, phase # "idle"
  PROVE  /\ path \in Seq(N) /\ path # <<>> /\ Len(path) \in Nat /\ DOMAIN path = 1 .. Len(path)
         /\ to \in Nat /\ to <= Len(path)
         /\ idx \in Nat \ {0} /\ idx <= to + 1 /\ pos \in Nat \ {0}
         /\ phase \in {"start", "post"} => idx <= pos /\ pos <= to + 1
         /\ phase # "gather" /\ phase # "start" => todo = {}
         /\ stored \in Seq(N) /\ Begins(path)
  BY DEF IInv, TypeOK, PathTypes, FlagTypes, Positions, Heads, N

\* A component that waits is not the path's first, and not Begin.
LEMMA DeferPlace ==
  ASSUME IInv, Defer
  PROVE  /\ pos \in 2 .. Len(path) /\ path[pos] # "begin" /\ ~Is(path[pos], "userfillup")
         /\ path' \in Seq(N) /\ Len(path') = Len(path) - 1 /\ path'[1] = path[1]
         /\ \A k \in 1 .. Len(path) - 1 : path'[k] = IF k < pos THEN path[k] ELSE path[k + 1]
<1>1. phase # "idle" /\ pos <= to /\ Waits(path, pos) /\ path' = RemoveAt(path, pos)
  BY DEF Defer
<1>2. pos \in 1 .. Len(path) /\ path \in Seq(N)
  BY <1>1, RunPlace
<1>3. dsl.kind["begin"] = "begin"
  BY DslType DEF IInv
<1>4. dsl.kind[path[pos]] \notin {"begin", "userfillup"}
  BY <1>1 DEF Waits
<1>5. pos # 1 /\ path[pos] # "begin"
  BY <1>1, <1>3, <1>4, RunPlace DEF Begins
<1>6. path' \in Seq(N) /\ Len(path') = Len(path) - 1
  BY <1>1, <1>2, RemoveAtType
<1>7. \A k \in 1 .. Len(path) - 1 : path'[k] = IF k < pos THEN path[k] ELSE path[k + 1]
  BY <1>1 DEF RemoveAt
<1>8. pos \in 2 .. Len(path) /\ Len(path) \in Nat
  BY <1>2, <1>5
<1>9. path'[1] = path[1]
  BY <1>7, <1>8
<1> QED BY <1>4, <1>5, <1>6, <1>7, <1>8, <1>9 DEF Is

\* What is ahead of the batch is the part of the path behind it.
LEMMA AheadPath ==
  ASSUME IInv, phase # "idle"
  PROVE  /\ Ahead = <<>> <=> Len(path) = to
         /\ \A k \in to + 1 .. Len(path) : k - to \in DOMAIN Ahead /\ Ahead[k - to] = path[k]
<1>1. path \in Seq(N) /\ to \in Nat /\ to <= Len(path) /\ Len(path) \in Nat
  BY DEF IInv, TypeOK, PathTypes, N
<1>2. to + 1 \in 1 .. Len(path) + 1
  BY <1>1
<1>3. Ahead \in Seq(N) /\ Len(Ahead) = Len(path) - to
  <2>1. Len(SubSeq(path, to + 1, Len(path))) = IF to + 1 <= Len(path) THEN Len(path) - (to + 1) + 1 ELSE 0
    BY <1>1, <1>2, SubSeqProperties
  <2> QED
    BY <1>1, <2>1, AheadType DEF Ahead
<1>4. \A i \in 1 .. Len(path) - to : Ahead[i] = path[to + i]
  BY <1>1, <1>2, SubSeqProperties DEF Ahead
<1> QED
  BY <1>1, <1>3, <1>4

----------------------------------------------------------------------------
(* The order of the components of a batch, of agents with forks.           *)

\* What has been put behind the batch comes from what is before pos in it.
InOrder(P) ==
  phase # "idle" =>
    /\ phase # "post" => Len(path) = to
    /\ \A k, l \in idx .. to : k < l => <<path[k], path[l]>> \in P
    /\ \A k, l \in to + 1 .. Len(path) : k < l => <<path[k], path[l]>> \in P
    /\ \A k \in to + 1 .. Len(path) :
         \E m \in idx .. pos - 1 : \E s \in Lists(dsl, path[m]) : Occurs(path[k], s)

\* Post-processing puts one of the lists of its component behind the path.
LEMMA PostPuts ==
  ASSUME IInv, Post
  PROVE  \/ UNCHANGED path
         \/ path' = path \o dsl.goto[path[pos]]
         \/ \E s \in Lists(dsl, path[pos]) \cap Seq(N) : path' = Extend(path, s)
<1>1. path \in Seq(N) /\ pos \in 1 .. Len(path) /\ TypeOK
  BY DEF IInv, TypeOK, PathTypes, N, Post
<1> DEFINE c == path[pos]
<1>2. c \in N
  BY <1>1
<1>3. /\ dsl.downstream[c] \in Seq(N) /\ dsl.cases[c] \subseteq Seq(N)
      /\ Parent(c) # Nothing => dsl.downstream[Parent(c)] \in Seq(N)
      /\ IsItem(c) => Parent(c) # Nothing
  BY <1>1, <1>2, DslType DEF Parent, IsItem
<1> HIDE DEF c
<1>4. ASSUME Lead(c)
      PROVE  path' = path \/ \E s \in Lists(dsl, c) \cap Seq(N) : path' = Extend(path, s)
  <2>1. CASE IsItem(c) /\ path' = Extend(path, dsl.downstream[Parent(c)])
    <3>1. dsl.downstream[Parent(c)] \in Lists(dsl, c)
      BY <1>3, <2>1 DEF Lists, Item, IsItem, Parent
    <3> QED BY <1>3, <2>1, <3>1
  <2>2. CASE path' = Extend(path, Onward(c))
    <3>1. Onward(c) \in Seq(N)
      BY <1>1, <1>2, OnwardType
    <3>2. Onward(c) \in Lists(dsl, c)
      BY DEF Onward, Lists, Group, Item, InGroup, Is, Parent
    <3> QED BY <2>2, <3>1, <3>2
  <2>3. CASE \E s \in dsl.cases[c] \cup {t \in {<<>>} : c \in failed} : path' = Extend(path, s)
    <3>1. PICK s \in dsl.cases[c] \cup {t \in {<<>>} : c \in failed} : path' = Extend(path, s)
      BY <2>3
    <3>2. CASE s \in dsl.cases[c]
      <4>1. s \in Lists(dsl, c)
        BY <3>2 DEF Lists
      <4> QED BY <1>3, <3>1, <3>2, <4>1
    <3>3. CASE s = <<>>
      <4>1. path \o <<>> = path
        BY <1>1, ConcatEmptySeq
      <4> QED BY <3>1, <3>3, <4>1 DEF Extend
    <3> QED BY <3>1, <3>2, <3>3
  <2> QED BY <1>4, <2>1, <2>2, <2>3 DEF Lead
<1>5. CASE path' = path \o dsl.goto[c]
  BY <1>5 DEF c
<1> QED BY <1>4, <1>5 DEF Post, c

\* q is p with the components of s behind it, from the i-th after the first.
Added(p, q, s, i) ==
  \A k \in Len(p) + 1 .. Len(q) : k - Len(p) + i \in DOMAIN s /\ q[k] = s[k - Len(p) + i]

\* What _extend_path adds: all of a list, or all but its first if that is the
\* last of the path already.
LEMMA ExtendFrom ==
  ASSUME NEW S, NEW p \in Seq(S), p # <<>>, NEW s \in Seq(S)
  PROVE  /\ Added(p, p \o s, s, 0)
         /\ s = <<>> \/ p[Len(p)] # s[1] => Extend(p, s) = p \o s
         /\ s # <<>> /\ p[Len(p)] = s[1] => Added(p, Extend(p, s), s, 1)
<1>1. \A u \in Seq(S) : Added(p, p \o u, u, 0)
  <2> SUFFICES ASSUME NEW u \in Seq(S), NEW k \in Len(p) + 1 .. Len(p \o u)
               PROVE  k - Len(p) + 0 \in DOMAIN u /\ (p \o u)[k] = u[k - Len(p) + 0]
    BY DEF Added
  <2> QED BY ConcatProperties
<1>2. ASSUME s # <<>>, p[Len(p)] = s[1] PROVE Added(p, Extend(p, s), s, 1)
  <2>1. /\ Tail(s) \in Seq(S) /\ Len(Tail(s)) = Len(s) - 1
        /\ \A j \in 1 .. Len(Tail(s)) : Tail(s)[j] = s[j + 1]
    BY <1>2, HeadTailProperties
  <2>2. Extend(p, s) = p \o Tail(s)
    BY <1>2 DEF Extend
  <2>3. \A j \in DOMAIN Tail(s) : j + 1 \in DOMAIN s /\ Tail(s)[j] = s[j + 1]
    BY <2>1
  <2>4. ASSUME NEW k \in Len(p) + 1 .. Len(p \o Tail(s))
        PROVE  k - Len(p) + 1 \in DOMAIN s /\ (p \o Tail(s))[k] = s[k - Len(p) + 1]
    <3>1. k - Len(p) + 0 \in DOMAIN Tail(s) /\ (p \o Tail(s))[k] = Tail(s)[k - Len(p) + 0]
      BY <1>1, <2>1, <2>4 DEF Added
    <3>2. k - Len(p) + 0 = k - Len(p)
      OBVIOUS
    <3> QED BY <2>3, <3>1, <3>2
  <2> QED BY <2>2, <2>4 DEF Added
<1> QED BY <1>1, <1>2 DEF Extend

\* Post-processing keeps the order: what it adds comes behind what the earlier
\* components of the batch have added.
LEMMA PostInOrder ==
  ASSUME IInv, NEW P, Together(dsl, P), InOrder(P), Post
  PROVE  InOrder(P)'
<1> DEFINE c == path[pos]
<1>1. /\ phase = "post" /\ pos \in idx .. to /\ dsl' = dsl
      /\ idx' = idx /\ to' = to /\ pos' = pos + 1 /\ phase' = "post"
  BY RunPlace DEF Post
<1>2. /\ path \in Seq(N) /\ path # <<>> /\ Len(path) \in Nat /\ to \in Nat /\ to <= Len(path)
      /\ idx \in Nat \ {0} /\ pos \in Nat \ {0} /\ DOMAIN path = 1 .. Len(path)
  BY <1>1, RunPlace
<1>3. /\ path' \in Seq(N) /\ Len(path') \in Nat /\ Len(path) <= Len(path')
      /\ \A k \in 1 .. Len(path) : path'[k] = path[k]
  BY PostGrows
<1>4. /\ \A k, l \in idx .. to : k < l => <<path[k], path[l]>> \in P
      /\ \A k, l \in to + 1 .. Len(path) : k < l => <<path[k], path[l]>> \in P
      /\ \A k \in to + 1 .. Len(path) :
           \E m \in idx .. pos - 1 : \E s \in Lists(dsl, path[m]) : Occurs(path[k], s)
  BY <1>1 DEF InOrder
<1>5. \A k, l \in idx .. to : k < l => <<path'[k], path'[l]>> \in P
  BY <1>2, <1>3, <1>4, SMTT(30)
<1>6. \A k, l \in to + 1 .. Len(path) : k < l => <<path'[k], path'[l]>> \in P
  BY <1>2, <1>3, <1>4
<1>7. ASSUME NEW k \in to + 1 .. Len(path)
      PROVE  \E m \in idx .. pos : \E s \in Lists(dsl, path'[m]) : Occurs(path'[k], s)
  <2>1. PICK m \in idx .. pos - 1 : \E s \in Lists(dsl, path[m]) : Occurs(path[k], s)
    BY <1>4
  <2>2. m \in idx .. pos /\ path'[m] = path[m] /\ path'[k] = path[k]
    BY <1>1, <1>2, <1>3
  <2> QED BY <2>1, <2>2
<1>8. CASE path' = path
  BY <1>1, <1>2, <1>5, <1>6, <1>7, <1>8 DEF InOrder
<1>9. ASSUME NEW s \in Lists(dsl, c) \cap Seq(N), NEW i \in {0, 1}, Added(path, path', s, i),
             i = 1 => s # <<>> /\ path[Len(path)] = s[1],
             i = 0 => s = <<>> \/ path[Len(path)] # s[1] \/ s = dsl.goto[c]
      PROVE  InOrder(P)'
  <2>1. c \in N /\ path'[pos] = c
    BY <1>1, <1>2, <1>3
  <2> HIDE DEF c
  <2>2. \A j, l \in DOMAIN s : j < l => <<s[j], s[l]>> \in P
    BY <1>9, <2>1 DEF Together, N
  <2>3. \A b \in P : b[1] # b[2] /\ <<b[2], b[1]>> \in P => <<b[1], b[1]>> \in P
    BY DEF Together
  <2>4. DOMAIN s = 1 .. Len(s) /\ Len(s) \in Nat
    BY <1>9
  <2>5. \A l \in Len(path) + 1 .. Len(path') :
          l - Len(path) + i \in DOMAIN s /\ path'[l] = s[l - Len(path) + i]
    BY <1>9 DEF Added
  <2>6. ASSUME NEW k \in to + 1 .. Len(path), NEW j \in DOMAIN s, path[k] # s[j] \/ s = dsl.goto[c]
        PROVE  <<path[k], s[j]>> \in P
    <3>1. PICK m \in idx .. pos - 1 : \E t \in Lists(dsl, path[m]) : Occurs(path[k], t)
      BY <1>4
    <3>2. PICK t \in Lists(dsl, path[m]) : Occurs(path[k], t)
      BY <3>1
    <3>3. PICK n \in DOMAIN t : t[n] = path[k]
      BY <3>2 DEF Occurs
    <3>4. <<path[m], c>> \in P
      BY <1>1, <1>2, <1>4 DEF c
    <3>5. <<path[m], c>>[1] = path[m] /\ <<path[m], c>>[2] = c
      OBVIOUS
    <3> QED BY <1>9, <2>6, <3>2, <3>3, <3>4, <3>5, SMTT(30) DEF Together
  <2>7. ASSUME NEW k \in to + 1 .. Len(path), NEW l \in Len(path) + 1 .. Len(path')
        PROVE  <<path[k], path'[l]>> \in P
    <3> DEFINE j == l - Len(path) + i
               y == path[k]
               z == path[Len(path)]
    <3>1. j \in DOMAIN s /\ path'[l] = s[j] /\ s # <<>> /\ 1 \in DOMAIN s /\ (i = 1 => j > 1)
      BY <1>2, <1>3, <2>4, <2>5
    <3>2. Len(path) \in to + 1 .. Len(path) /\ k <= Len(path)
      BY <1>2
    <3> HIDE DEF j
    <3>3. CASE y # s[j] \/ s = dsl.goto[c]
      BY <2>6, <3>1, <3>3
    <3>4. CASE y = s[j] /\ s # dsl.goto[c] /\ k < Len(path)
      <4>1. <<y, z>> \in P
        BY <1>4, <3>2, <3>4
      <4>2. z # y => <<z, y>> \in P
        BY <2>6, <3>1, <3>2, <3>4
      <4>3. <<y, z>>[1] = y /\ <<y, z>>[2] = z
        OBVIOUS
      <4>4. <<y, y>> \in P
        BY <2>3, <4>1, <4>2, <4>3
      <4> QED BY <3>1, <3>4, <4>4
    <3>5. CASE y = s[j] /\ s # dsl.goto[c] /\ k = Len(path) /\ i = 1
      <4>1. s[1] = y /\ 1 < j
        BY <1>9, <3>1, <3>5
      <4>2. <<s[1], s[j]>> \in P
        BY <2>2, <3>1, <4>1
      <4> QED BY <3>1, <4>1, <4>2
    <3>6. CASE y = s[j] /\ s # dsl.goto[c] /\ k = Len(path) /\ i = 0
      <4>1. s[1] # y /\ j # 1
        BY <1>9, <3>1, <3>6
      <4>2. <<s[1], s[j]>> \in P
        BY <2>2, <2>4, <3>1, <4>1
      <4>3. <<y, s[1]>> \in P
        BY <2>6, <3>1, <4>1
      <4>4. <<y, s[1]>>[1] = y /\ <<y, s[1]>>[2] = s[1]
        OBVIOUS
      <4>5. <<y, y>> \in P
        BY <2>3, <3>6, <4>1, <4>2, <4>3, <4>4
      <4> QED BY <3>1, <3>6, <4>5
    <3> QED BY <3>2, <3>3, <3>4, <3>5, <3>6
  <2>8. ASSUME NEW k \in Len(path) + 1 .. Len(path'), NEW l \in Len(path) + 1 .. Len(path'), k < l
        PROVE  <<path'[k], path'[l]>> \in P
    <3>1. k - Len(path) + i < l - Len(path) + i
      BY <1>2, <1>3, <2>8
    <3> QED BY <2>2, <2>5, <3>1
  <2>9. ASSUME NEW k \in Len(path) + 1 .. Len(path')
        PROVE  \E m \in idx .. pos : \E u \in Lists(dsl, path'[m]) : Occurs(path'[k], u)
    <3>1. Occurs(path'[k], s)
      BY <2>5 DEF Occurs
    <3> QED BY <1>1, <1>2, <1>9, <2>1, <3>1
  <2>10. \A k \in to + 1 .. Len(path') : k \in to + 1 .. Len(path) \/ k \in Len(path) + 1 .. Len(path')
    BY <1>2, <1>3
  <2>11. \A k, l \in to + 1 .. Len(path') : k < l => <<path'[k], path'[l]>> \in P
    <3> SUFFICES ASSUME NEW k \in to + 1 .. Len(path'), NEW l \in to + 1 .. Len(path'), k < l
                 PROVE  <<path'[k], path'[l]>> \in P
      OBVIOUS
    <3>1. CASE l \in to + 1 .. Len(path)
      <4>1. k \in to + 1 .. Len(path)
        BY <1>2, <1>3, <3>1
      <4> QED BY <1>6, <3>1, <4>1
    <3>2. CASE l \in Len(path) + 1 .. Len(path') /\ k \in to + 1 .. Len(path)
      <4>1. path'[k] = path[k]
        BY <1>2, <1>3, <3>2
      <4> QED BY <2>7, <3>2, <4>1
    <3>3. CASE l \in Len(path) + 1 .. Len(path') /\ k \in Len(path) + 1 .. Len(path')
      BY <2>8, <3>3
    <3> QED BY <2>10, <3>1, <3>2, <3>3
  <2>12. \A k \in to + 1 .. Len(path') :
           \E m \in idx .. pos : \E u \in Lists(dsl, path'[m]) : Occurs(path'[k], u)
    BY <1>7, <2>9, <2>10
  <2>13. pos' - 1 = pos
    BY <1>1, <1>2
  <2> QED BY <1>1, <1>5, <2>11, <2>12, <2>13 DEF InOrder
<1> HIDE DEF c
<1>10. CASE path' = path \o dsl.goto[c]
  <2>1. c \in N /\ dsl.goto[c] \in Seq(N) /\ dsl.goto[c] \in Lists(dsl, c)
    BY <1>1, <1>2, DslType, SMTT(30) DEF Lists, c, IInv
  <2>2. Added(path, path', dsl.goto[c], 0)
    BY <1>2, <1>10, <2>1, ExtendFrom
  <2> QED BY <1>9, <2>1, <2>2
<1>11. ASSUME NEW s \in Lists(dsl, c) \cap Seq(N), path' = Extend(path, s) PROVE InOrder(P)'
  <2>1. CASE s = <<>> \/ path[Len(path)] # s[1]
    <3>1. Added(path, path', s, 0)
      BY <1>2, <1>11, <2>1, ExtendFrom
    <3> QED BY <1>9, <2>1, <3>1
  <2>2. CASE s # <<>> /\ path[Len(path)] = s[1]
    BY <1>2, <1>9, <1>11, <2>2, ExtendFrom
  <2> QED BY <2>1, <2>2
<1> QED BY <1>8, <1>10, <1>11, PostPuts DEF c

\* InOrder is inductive.
LEMMA NextInOrder ==
  ASSUME IInv, NEW P, Together(dsl, P), InOrder(P), [Next]_vars
  PROVE  InOrder(P)'
<1> USE SameDsl
<1>1. CASE phase' = "idle"
  BY <1>1 DEF InOrder
<1>2. CASE Run
  <2>1. path' \in Seq(N) /\ idx' = Len(path') /\ to' = Len(path') /\ phase' = "batch"
    BY <1>2, NextInv DEF IInv, TypeOK, PathTypes, N, Run
  <2> QED BY <2>1 DEF InOrder
<1>3. CASE phase # "idle" /\ phase' # "idle"
  <2>1. /\ path \in Seq(N) /\ Len(path) \in Nat /\ to \in Nat /\ idx \in Nat \ {0}
        /\ pos \in Nat \ {0} /\ DOMAIN path = 1 .. Len(path)
    BY <1>3, RunPlace
  <2>2. /\ phase # "post" => Len(path) = to
        /\ \A k, l \in idx .. to : k < l => <<path[k], path[l]>> \in P
        /\ \A k, l \in to + 1 .. Len(path) : k < l => <<path[k], path[l]>> \in P
    BY <1>3 DEF InOrder
  <2>3. CASE StartBatch \/ CreateTask \/ Gather \/ RunTask \/ Gathered
    <3>1. /\ UNCHANGED <<path, idx, to>> /\ Len(path) = to
      BY <2>2, <2>3 DEF StartBatch, CreateTask, Gather, RunTask, Gathered, batch
    <3>2. to + 1 .. Len(path) = {}
      BY <2>1, <3>1
    <3> QED BY <2>2, <3>1, <3>2 DEF InOrder
  <2>4. CASE Defer
    <3>1. /\ Len(path) = to /\ to' = to - 1 /\ idx' = idx /\ phase' = "start"
          /\ Len(path') = Len(path) - 1 /\ pos \in 2 .. Len(path)
          /\ \A k \in 1 .. Len(path) - 1 : path'[k] = IF k < pos THEN path[k] ELSE path[k + 1]
      BY <2>2, <2>4, DeferPlace DEF Defer
    <3>2. ASSUME NEW k \in idx .. to', NEW l \in idx .. to', k < l
          PROVE  <<path'[k], path'[l]>> \in P
      <4>1. \E n \in idx .. to, m \in idx .. to : n < m /\ path'[k] = path[n] /\ path'[l] = path[m]
        <5>1. CASE l < pos
          BY <2>1, <3>1, <3>2, <5>1
        <5>2. CASE k < pos /\ pos <= l
          BY <2>1, <3>1, <3>2, <5>2, SMTT(30)
        <5>3. CASE pos <= k
          BY <2>1, <3>1, <3>2, <5>3
        <5> QED BY <2>1, <3>1, <3>2, <5>1, <5>2, <5>3
      <4> QED BY <2>2, <4>1
    <3>3. to' + 1 .. Len(path') = {} /\ Len(path') = to'
      BY <2>1, <3>1
    <3> QED BY <3>1, <3>2, <3>3 DEF InOrder
  <2>5. CASE Post
    BY <2>5, PostInOrder
  <2>6. CASE NextBatch
    <3>1. idx' = to + 1 /\ to' = Len(path) /\ path' = path /\ phase' = "batch"
      BY <2>6 DEF NextBatch
    <3>2. to' + 1 .. Len(path') = {}
      BY <2>1, <3>1
    <3> QED BY <2>2, <3>1, <3>2 DEF InOrder
  <2>7. CASE Cancel \/ Reset \/ UNCHANGED vars
    BY <1>3, <2>7 DEF Cancel, Reset, vars, batch, InOrder
  <2> QED BY <1>3, <2>3, <2>4, <2>5, <2>6, <2>7
          DEF Next, Step, Run, Abandon, FailedRun, Pause, Finish, Leave, Crash
<1> QED BY <1>1, <1>2, <1>3
        DEF Next, Step, StartBatch, Abandon, Defer, CreateTask, Gather, RunTask, Gathered, Post,
            FailedRun, Pause, Finish, NextBatch, Leave, Cancel, Crash, Reset, vars

\* In the order that a DSL gives rise to, no batch holds a component behind one
\* that it refers to.
LEMMA OrderApart ==
  ASSUME IInv, NEW P, Apart(dsl, P), InOrder(P)
  PROVE  BatchesApart
<1> SUFFICES ASSUME FirstRun, phase = "gather", NEW n \in idx .. to, NEW r \in dsl.refs[path[n]],
                    Occurs(r, Prefix(path, n - 1))
             PROVE  Occurs(r, Prefix(path, idx - 1))
  BY DEF BatchesApart
<1>1. /\ path \in Seq(N) /\ Len(path) \in Nat /\ to \in Nat /\ to <= Len(path)
      /\ idx \in Nat \ {0} /\ DOMAIN path = 1 .. Len(path)
  BY RunPlace
<1>2. \A m \in 1 .. Len(path) + 1 :
        /\ DOMAIN Prefix(path, m - 1) = 1 .. m - 1
        /\ \A k \in 1 .. m - 1 : Prefix(path, m - 1)[k] = path[k]
  <2> SUFFICES ASSUME NEW m \in 1 .. Len(path) + 1
               PROVE  /\ DOMAIN Prefix(path, m - 1) = 1 .. m - 1
                      /\ \A k \in 1 .. m - 1 : Prefix(path, m - 1)[k] = path[k]
    OBVIOUS
  <2>1. m - 1 \in 0 .. Len(path)
    BY <1>1
  <2>2. /\ Prefix(path, m - 1) \in Seq(N) /\ Len(Prefix(path, m - 1)) = m - 1
        /\ \A k \in 1 .. m - 1 : Prefix(path, m - 1)[k] = path[k]
    BY <1>1, <2>1, PrefixType
  <2> QED BY <2>2
<1>3. n \in 1 .. Len(path) + 1 /\ idx \in 1 .. Len(path) + 1 /\ n \in DOMAIN path
  BY <1>1
<1>4. PICK k \in 1 .. n - 1 : path[k] = r
  BY <1>2, <1>3 DEF Occurs
<1>5. CASE k < idx
  <2>1. k \in 1 .. idx - 1
    BY <1>1, <1>5
  <2> QED BY <1>2, <1>3, <1>4, <2>1 DEF Occurs
<1>6. CASE k >= idx
  <2>1. k \in idx .. to /\ k < n
    BY <1>1, <1>6
  <2>2. <<r, path[n]>> \in P
    BY <1>4, <2>1 DEF InOrder
  <2>3. path[n] \in N
    BY <1>1, <1>3
  <2> QED BY <2>2, <2>3 DEF Apart, N
<1> QED BY <1>1, <1>5, <1>6

\* When the edges of no agent put a component behind one it refers to into the
\* same batch, no component of a first run starts beside one it refers to that
\* has not run before: forks whose branches differ in length included.
THEOREM StaysApart ==
  ASSUME \A d \in Canvases : Ordered(d)
  PROVE  Spec => []BatchesApart
<1> DEFINE P == CHOOSE Q : Together(dsl, Q) /\ Apart(dsl, Q)
<1>1. IInv => Together(dsl, P) /\ Apart(dsl, P)
  BY DEF Ordered, IInv, TypeOK, PathTypes
<1>2. ASSUME [Next]_vars PROVE P' = P
  BY <1>2, SameDsl
<1> DEFINE Inv == InOrder(P)
<1>3. Init => Inv
  BY DEF Init, InOrder
<1>4. ASSUME IInv, Inv, [Next]_vars PROVE Inv'
  BY <1>1, <1>2, <1>4, NextInOrder
<1>5. IInv /\ Inv => BatchesApart
  BY <1>1, OrderApart
<1> HIDE DEF Inv
<1> QED BY Inductive, <1>3, <1>4, <1>5, PTL DEF Spec

----------------------------------------------------------------------------
(* Answers to a fill-up, of agents that run nothing else beside one.       *)

\* What is stored for an answer is fill-ups, and nothing else.
FillUpStored ==
  asked =>
    /\ phase = "idle"
    /\ stored # <<>> /\ \A k \in DOMAIN stored : Is(stored[k], "userfillup")

\* A run that stops for the user leaves fill-ups only.
LEMMA PauseStores ==
  ASSUME IInv, NEW P, AsksAlone(dsl, P), InOrder(P), Pause
  PROVE  stored' # <<>> /\ \A k \in DOMAIN stored' : Is(stored'[k], "userfillup")
<1>1. /\ phase # "idle" /\ Ahead \in Seq(N) /\ DOMAIN Ahead = 1 .. Len(path) - to
      /\ \A k \in DOMAIN Ahead : Ahead[k] = path[to + k]
      /\ to \in Nat /\ Len(path) \in Nat
  <2>1. path \in Seq(N) /\ Len(path) \in Nat /\ to \in Nat /\ to <= Len(path)
    BY RunPlace DEF Pause
  <2>2. to + 1 \in 1 .. Len(path) + 1
    BY <2>1
  <2>3. Len(Ahead) = Len(path) - to /\ \A k \in 1 .. Len(path) - to : Ahead[k] = path[to + k]
    BY <2>1, <2>2, SubSeqProperties DEF Ahead
  <2>4. Ahead \in Seq(N)
    BY AheadType DEF Pause
  <2>5. DOMAIN Ahead = 1 .. Len(Ahead)
    BY <2>4
  <2> QED BY <2>1, <2>3, <2>4, <2>5 DEF Pause
<1>2. PICK k \in DOMAIN Ahead : Is(Ahead[k], "userfillup")
  BY DEF Pause, Asks
<1>3. ASSUME NEW j \in DOMAIN Ahead PROVE Is(Ahead[j], "userfillup")
  <2>1. /\ to + k \in to + 1 .. Len(path) /\ to + j \in to + 1 .. Len(path)
        /\ Ahead[k] = path[to + k] /\ Ahead[j] = path[to + j]
    BY <1>1, <1>2, <1>3
  <2>2. j = k \/ <<Ahead[j], Ahead[k]>> \in P \/ <<Ahead[k], Ahead[j]>> \in P
    <3>1. j < k => to + j < to + k
      BY <1>1
    <3>2. k < j => to + k < to + j
      BY <1>1
    <3> QED BY <1>1, <2>1, <3>1, <3>2, SMTT(30) DEF InOrder
  <2> QED BY <1>2, <2>2 DEF AsksAlone, Is
<1>4. PICK q \in [DOMAIN Ahead -> DOMAIN Ahead] : stored' = [j \in DOMAIN Ahead |-> Ahead[q[j]]]
  BY DEF Pause, Leave
<1>5. DOMAIN stored' = DOMAIN Ahead /\ \A j \in DOMAIN Ahead : stored'[j] = Ahead[q[j]] /\ q[j] \in DOMAIN Ahead
  BY <1>4
<1>6. DOMAIN <<>> = {}
  OBVIOUS
<1> QED BY <1>2, <1>3, <1>5, <1>6

\* FillUpStored is inductive in such an agent.
LEMMA NextFillUpStored ==
  ASSUME IInv, NEW P, AsksAlone(dsl, P), InOrder(P), FillUpStored, [Next]_vars
  PROVE  FillUpStored'
<1>1. CASE Pause
  BY <1>1, SameDsl, PauseStores DEF Pause, Leave, FillUpStored, Is
<1>2. CASE Run \/ Reset
  BY <1>2 DEF Run, Reset, FillUpStored
<1>3. CASE asked' = asked /\ (phase # "idle" \/ (phase' = phase /\ stored' = stored))
  BY <1>3, SameDsl DEF FillUpStored, Is
<1> QED BY <1>1, <1>2, <1>3
        DEF Next, Step, StartBatch, Abandon, Defer, CreateTask, Gather, RunTask, Gathered,
            Post, FailedRun, Finish, NextBatch, Cancel, Crash, vars

\* When every agent asks for nothing but fill-ups at a time, every answer
\* continues the run that asked for it, after failures, cancellations and crashes
\* too: a run that stops at fill-ups stores them and nothing else.
THEOREM AnswersContinue ==
  ASSUME \A d \in Canvases : Asking(d)
  PROVE  Spec => AwaitContinues
<1> DEFINE P == CHOOSE Q : Together(dsl, Q) /\ AsksAlone(dsl, Q)
           Inv == InOrder(P) /\ FillUpStored
<1>1. IInv => Together(dsl, P) /\ AsksAlone(dsl, P)
  BY DEF Asking, IInv, TypeOK, PathTypes
<1>2. Init => Inv
  BY DEF Init, InOrder, FillUpStored
<1>3. ASSUME IInv, Inv, [Next]_vars PROVE Inv'
  <2>1. P' = P
    BY <1>3, SameDsl
  <2> QED BY <1>1, <1>3, <2>1, NextInOrder, NextFillUpStored
<1>4. IInv /\ FillUpStored /\ [Next]_vars
        => [asked /\ turns' # turns => ~Occurs("begin", path')]_vars
  <2> SUFFICES ASSUME IInv, FillUpStored, [Next]_vars, asked, turns' # turns
               PROVE  ~Occurs("begin", path')
    OBVIOUS
  <2>1. Run
    BY DEF Next, Step, StartBatch, Abandon, Defer, CreateTask, Gather, RunTask, Gathered,
           Post, FailedRun, Pause, Finish, NextBatch, Leave, Cancel, Crash, Reset, vars
  <2>2. stored \in Seq(N) /\ stored # <<>>
        /\ \A k \in DOMAIN stored : Is(stored[k], "userfillup")
    BY DEF FillUpStored, IInv, TypeOK, PathTypes, N
  <2>3. Len(stored) \in DOMAIN stored
    BY <2>2
  <2>4. path' = stored
    BY <2>1, <2>2, <2>3 DEF Run, Resume
  <2>5. dsl.kind["begin"] = "begin"
    BY DslType DEF IInv
  <2> QED BY <2>2, <2>4, <2>5 DEF Occurs, Is
<1>5. Inv => FillUpStored
  OBVIOUS
<1> HIDE DEF Inv
<1> QED BY Inductive, <1>2, <1>3, <1>4, <1>5, PTL DEF Spec, AwaitContinues

----------------------------------------------------------------------------
(* Joins: what a component of a first run finds of what it refers to.       *)

\* Tasks are those of the batch: of what has been looked at, then of all.
Tasked ==
  /\ phase = "start" => todo = idx .. pos - 1
  /\ phase = "gather" => todo \subseteq idx .. to

\* Runs that begin anew have no fill-up behind them.
FillUpFirst ==
  /\ stored # <<>> /\ stored[1] = "begin" =>
       \A k \in DOMAIN stored : ~Is(stored[k], "userfillup")
  /\ phase # "idle" /\ path[1] = "begin" =>
       \A k \in 1 .. to : ~Is(path[k], "userfillup")

\* A run that has just begun has run nothing but Begin.
Fresh ==
  phase # "idle" =>
    \A k \in DOMAIN path :
      k >= idx /\ path[k] = "begin" =>
        k = idx /\ idx = to /\ \A c \in N : outputs[c] # Nothing => c = "begin"

InBody(c) == InGroup(c, "iteration") /\ ~IsItem(c)

\* The item of an Iteration is at one of its items, or never will be.
Started(i) == outputs[i] # Nothing \/ (canceled /\ i \in failed)

\* c has left an output, or none that anything that runs refers to.
Settled(c) ==
  \/ outputs[c] # Nothing \/ c \in failed
  \/ Is(c, "loopitem")
  \/ Is(c, "iterationitem") /\ cursor[c] = -1
  \/ InBody(c) /\ outputs[dsl.start[Parent(c)]] = Nothing

BodiesStarted ==
  \A n \in DOMAIN path : InBody(path[n]) => Started(dsl.start[Parent(path[n])])

HasRun(n) == n < idx \/ (n <= to /\ (phase = "post" \/ (phase = "gather" /\ n \notin todo)))

RanSettled == \A n \in DOMAIN path : HasRun(n) => Settled(path[n])

Cursors ==
  \A c \in N : Is(c, "iterationitem") =>
    /\ cursor[c] >= -1
    /\ cursor[c] > 0 => outputs[c] # Nothing
    /\ cursor[c] = -1 => outputs[c] # Nothing \/ dsl.count[Parent(c)] = 0
    /\ c \in failed => canceled

ReadInv ==
  /\ Tasked /\ FillUpFirst /\ Fresh /\ JoinReads
  /\ phase # "idle" /\ FirstRun => BodiesStarted /\ RanSettled /\ Cursors

\* Tasked is inductive.
LEMMA NextTasked ==
  ASSUME IInv, Tasked, [Next]_vars
  PROVE  Tasked'
<1>1. CASE phase = "idle"
  BY <1>1 DEF Next, Step, Run, StartBatch, Abandon, Defer, CreateTask, Gather, RunTask, Gathered, Post,
              FailedRun, Pause, Finish, NextBatch, Cancel, Crash, Reset, vars, Tasked
<1>2. CASE phase # "idle"
  <2> USE <1>2, RunPlace
  <2>1. CASE StartBatch
    <3>1. idx .. idx - 1 = {} /\ todo = {}
      BY <2>1 DEF StartBatch
    <3> QED BY <2>1, <3>1 DEF StartBatch, Tasked
  <2>2. CASE Defer
    BY <2>2 DEF Defer, Tasked
  <2>3. CASE CreateTask
    BY <2>3 DEF CreateTask, Tasked
  <2>4. CASE Gather
    BY <2>4 DEF Gather, batch, Tasked
  <2>5. CASE RunTask
    BY <2>5 DEF RunTask, Tasked
  <2>6. CASE phase' \notin {"start", "gather"}
    BY <2>6 DEF Tasked
  <2>7. CASE UNCHANGED <<phase, todo, idx, pos, to>>
    BY <2>7 DEF Tasked
  <2> QED BY <2>1, <2>2, <2>3, <2>4, <2>5, <2>6, <2>7
          DEF Next, Step, Run, Abandon, Gathered, Post, FailedRun, Pause, Finish, Leave, NextBatch,
              Cancel, Crash, Reset, vars, batch
<1> QED BY <1>1, <1>2

\* What a run leaves that stops for the user begins with a fill-up.
LEMMA PauseHead ==
  ASSUME IInv, Pause
  PROVE  Is(stored'[1], "userfillup") /\ path' = stored'
<1>1. Ahead \in Seq(N)
  BY RunPlace, AheadType DEF Pause
<1>2. PICK q \in [DOMAIN Ahead -> DOMAIN Ahead] :
        /\ FillUpsFirst(Ahead, q)
        /\ Leave([k \in DOMAIN Ahead |-> Ahead[q[k]]])
  BY DEF Pause
<1>3. PICK k \in DOMAIN Ahead : Is(Ahead[k], "userfillup")
  BY DEF Pause, Asks
<1>4. PICK j \in DOMAIN Ahead : q[j] = k
  BY <1>2 DEF FillUpsFirst
<1>5. 1 \in DOMAIN Ahead /\ (j = 1 \/ 1 < j)
  BY <1>1
<1>6. Is(Ahead[q[1]], "userfillup")
  BY <1>2, <1>3, <1>4, <1>5 DEF FillUpsFirst
<1> QED BY <1>2, <1>5, <1>6 DEF Leave

\* What a step may put behind or take out of the path.
LEMMA ExtendNew ==
  ASSUME NEW S, NEW s \in Seq(S), NEW t \in Seq(S)
  PROVE  /\ \A k \in Len(s) + 1 .. Len(s \o t) : Occurs((s \o t)[k], t)
         /\ \A k \in Len(s) + 1 .. Len(Extend(s, t)) : Occurs(Extend(s, t)[k], t)
<1>1. \A u \in Seq(S) : \A k \in Len(s) + 1 .. Len(s \o u) :
        k - Len(s) \in DOMAIN u /\ (s \o u)[k] = u[k - Len(s)]
  BY ConcatProperties
<1>2. \A k \in Len(s) + 1 .. Len(s \o t) : Occurs((s \o t)[k], t)
  BY <1>1 DEF Occurs
<1>3. CASE t # <<>> /\ s # <<>> /\ s[Len(s)] = t[1]
  <2>1. /\ Tail(t) \in Seq(S) /\ Len(Tail(t)) = Len(t) - 1
        /\ \A j \in 1 .. Len(Tail(t)) : Tail(t)[j] = t[j + 1]
    BY <1>3, HeadTailProperties
  <2>2. \A k \in Len(s) + 1 .. Len(s \o Tail(t)) : Occurs((s \o Tail(t))[k], t)
    <3>1. \A j \in DOMAIN Tail(t) : j + 1 \in DOMAIN t /\ Tail(t)[j] = t[j + 1]
      BY <2>1
    <3> QED BY <1>1, <2>1, <3>1 DEF Occurs
  <2> QED BY <1>2, <1>3, <2>2 DEF Extend
<1>4. CASE ~(t # <<>> /\ s # <<>> /\ s[Len(s)] = t[1])
  BY <1>2, <1>4 DEF Extend
<1> QED BY <1>3, <1>4

\* A path with one more component.
LEMMA Longer ==
  ASSUME NEW S, NEW p \in Seq(S), NEW x \in S
  PROVE  /\ Append(p, x) \in Seq(S) /\ Append(p, x) # <<>>
         /\ Len(p) \in Nat /\ Len(Append(p, x)) = Len(p) + 1
         /\ Append(p, x)[Len(p) + 1] = x
         /\ \A k \in 1 .. Len(p) : Append(p, x)[k] = p[k]
         /\ DOMAIN p = 1 .. Len(p) /\ DOMAIN Append(p, x) = 1 .. Len(p) + 1
         /\ \A c : Occurs(c, Append(p, x)) <=> Occurs(c, p) \/ c = x
<1>1. /\ Append(p, x) \in Seq(S) /\ Append(p, x) # <<>>
      /\ Len(p) \in Nat /\ Len(Append(p, x)) = Len(p) + 1
      /\ Append(p, x)[Len(p) + 1] = x
      /\ \A k \in 1 .. Len(p) : Append(p, x)[k] = p[k]
  BY AppendProperties
<1>2. DOMAIN p = 1 .. Len(p) /\ DOMAIN Append(p, x) = 1 .. Len(p) + 1
  BY <1>1
<1> QED BY <1>1, <1>2 DEF Occurs

\* FillUpFirst is inductive.
LEMMA NextFillUpFirst ==
  ASSUME IInv, FillUpFirst, [Next]_vars
  PROVE  FillUpFirst'
<1> USE SameDsl
<1>1. "begin" \in N /\ dsl.kind["begin"] = "begin" /\ stored \in Seq(N)
  BY DslType DEF IInv, TypeOK, PathTypes, N
<1>2. CASE Run
  <2>1. stored' = stored /\ path' = Resume(stored) /\ to' = Len(path') /\ phase' = "batch"
    BY <1>2 DEF Run
  <2>2. CASE path' = stored
    <3>1. stored # <<>> /\ Is(stored[Len(stored)], "userfillup") /\ Len(stored) \in 1 .. Len(stored)
      BY <1>1, <2>1, <2>2, Longer DEF Resume
    <3>2. stored[1] # "begin"
      BY <3>1, <1>1 DEF FillUpFirst
    <3> QED BY <2>1, <2>2, <3>2 DEF FillUpFirst
  <2>3. CASE path' = Append(stored, "begin")
    <3>1. CASE stored = <<>>
      <4>1. Len(path') = 1 /\ path'[1] = "begin"
        BY <2>3, <3>1
      <4> QED BY <1>1, <2>1, <3>1, <4>1 DEF FillUpFirst, Is
    <3>2. CASE stored # <<>>
      <4>1. path'[1] = stored[1]
        BY <1>1, <2>3, <3>2, Longer
      <4>2. ASSUME stored[1] = "begin", NEW k \in 1 .. to' PROVE dsl.kind[path'[k]] # "userfillup"
        BY <1>1, <2>1, <2>3, <3>2, <4>2, Longer DEF FillUpFirst, Is
      <4> QED BY <1>1, <2>1, <3>2, <4>1, <4>2 DEF FillUpFirst, Is
    <3> QED BY <3>1, <3>2
  <2> QED BY <2>1, <2>2, <2>3 DEF Resume
<1>3. CASE phase # "idle" /\ ~Run
  <2> USE RunPlace
  <2>1. path[1] = "begin" => \A k \in 1 .. to : dsl.kind[path[k]] # "userfillup"
    BY <1>3 DEF FillUpFirst, Is
  <2>2. CASE Reset
    BY <1>1, <1>3, <2>1, <2>2 DEF Reset, batch, FillUpFirst, Is
  <2>3. CASE Defer
    <3>1. path'[1] = path[1] /\ pos \in 2 .. Len(path)
      BY <2>3, DeferPlace
    <3>2. path'[1] = "begin" => \A k \in 1 .. to' : dsl.kind[path'[k]] # "userfillup"
      <4> SUFFICES ASSUME path'[1] = "begin", NEW k \in 1 .. to - 1
                   PROVE  dsl.kind[path'[k]] # "userfillup"
        BY <2>3 DEF Defer
      <4>1. path'[k] = IF k < pos THEN path[k] ELSE path[k + 1]
        BY <1>3, <2>3, DeferPlace
      <4> QED BY <1>3, <2>1, <3>1, <4>1
    <3> QED BY <1>3, <2>3, <3>2 DEF Defer, FillUpFirst, Is
  <2>4. CASE Post
    <3>1. \A k \in 1 .. to : path'[k] = path[k]
      BY <1>3, <2>4, PostGrows
    <3>2. path'[1] = path[1]
      BY <1>3, <2>4, PostGrows
    <3>3. path'[1] = "begin" => \A k \in 1 .. to' : dsl.kind[path'[k]] # "userfillup"
      BY <2>1, <2>4, <3>1, <3>2 DEF Post
    <3> QED BY <2>4, <3>3 DEF Post, FillUpFirst, Is
  <2>5. CASE NextBatch
    <3>1. \A k \in to + 1 .. Len(path) : dsl.kind[path[k]] # "userfillup"
      BY <1>3, <2>5, AheadPath DEF NextBatch, Asks, Is
    <3>2. path[1] = "begin" => \A k \in 1 .. Len(path) : dsl.kind[path[k]] # "userfillup"
      BY <1>3, <2>1, <3>1
    <3> QED BY <2>5, <3>2 DEF NextBatch, FillUpFirst, Is
  <2>6. CASE FailedRun
    <3>1. idx - 1 \in 0 .. Len(path)
      BY <1>3
    <3>2. stored' = Prefix(path, idx - 1) /\ phase' = "idle"
      BY <2>6 DEF FailedRun, Leave
    <3>3. stored' \in Seq(N) /\ Len(stored') = idx - 1 /\ \A k \in 1 .. idx - 1 : stored'[k] = path[k]
      BY <1>3, <3>1, <3>2, PrefixType
    <3>4. DOMAIN stored' = 1 .. idx - 1 /\ idx - 1 <= to /\ (stored' # <<>> => stored'[1] = path[1])
      BY <1>3, <3>3
    <3>5. stored' # <<>> /\ stored'[1] = "begin" =>
            \A k \in DOMAIN stored' : dsl.kind[stored'[k]] # "userfillup"
      <4> SUFFICES ASSUME stored' # <<>>, stored'[1] = "begin", NEW k \in DOMAIN stored'
                   PROVE  dsl.kind[stored'[k]] # "userfillup"
        OBVIOUS
      <4>1. k \in 1 .. idx - 1 /\ k \in 1 .. to
        BY <1>3, <3>4
      <4> QED BY <2>1, <3>3, <3>4, <4>1
    <3> QED BY <3>2, <3>5 DEF FillUpFirst, Is
  <2>7. CASE Finish
    <3>1. stored' = path /\ phase' = "idle" /\ DOMAIN path = 1 .. to
      BY <1>3, <2>7, AheadPath DEF Finish, Leave
    <3> QED BY <1>3, <2>1, <3>1 DEF FillUpFirst, Is
  <2>8. CASE Pause
    <3>1. stored'[1] # "begin" /\ phase' = "idle"
      BY <1>1, <2>8, PauseHead DEF Pause, Leave, Is
    <3> QED BY <3>1 DEF FillUpFirst
  <2>9. CASE UNCHANGED <<path, to, stored>> /\ phase' # "idle"
    BY <1>3, <2>9 DEF FillUpFirst, Is
  <2>10. CASE UNCHANGED stored /\ phase' = "idle"
    BY <2>10 DEF FillUpFirst, Is
  <2> QED BY <1>3, <2>2, <2>3, <2>4, <2>5, <2>6, <2>7, <2>8, <2>9, <2>10
          DEF Next, Step, StartBatch, Abandon, CreateTask, Gather, RunTask, Gathered, Cancel, Crash,
              vars, batch
<1>4. CASE phase = "idle" /\ ~Run
  <2>1. phase' = "idle" /\ stored' \in {stored, <<>>}
    BY <1>4 DEF Next, Step, StartBatch, Abandon, Defer, CreateTask, Gather, RunTask, Gathered, Post,
                FailedRun, Pause, Finish, NextBatch, Cancel, Crash, Reset, vars
  <2> QED BY <2>1 DEF FillUpFirst, Is
<1> QED BY <1>2, <1>3, <1>4

----------------------------------------------------------------------------
(* What groups give.                                                       *)

\* What DSLs with groups give.
LEMMA GroupFacts ==
  ASSUME IInv, Grouped(dsl)
  PROVE  /\ "begin" \in N /\ Parent("begin") = Nothing
         /\ \A c \in N : Is(c, "iteration") \/ Is(c, "loop") =>
              /\ Parent(c) = Nothing /\ dsl.start[c] \in N
              /\ IsItem(dsl.start[c]) /\ Parent(dsl.start[c]) = c
         /\ \A c \in N : Parent(c) # Nothing =>
              Parent(c) \in N /\ (Is(Parent(c), "iteration") \/ Is(Parent(c), "loop"))
         /\ \A c \in N : Parent(c) # Nothing /\ Is(Parent(c), "iteration") =>
              /\ dsl.start[Parent(c)] \in N /\ Is(dsl.start[Parent(c)], "iterationitem")
              /\ IsItem(c) => c = dsl.start[Parent(c)]
         /\ \A c \in N : IsItem(c) =>
              dsl.goto[c] = <<>> /\ c # "begin" /\ Parent(c) \in N /\ c = dsl.start[Parent(c)]
         /\ \A c, x \in N : LeadsTo(dsl, c, x) =>
              Parent(x) = Parent(c) /\ ~IsItem(x) /\ x # "begin"
<1> USE DEF IInv, N
<1>1. /\ "begin" \in N /\ dsl.kind["begin"] = "begin"
      /\ dsl.parent \in [N -> N \cup {Nothing}] /\ dsl.start \in [N -> N]
      /\ \A c \in N : IsItem(c) => Parent(c) \in N
      /\ Nothing \notin N
  BY DslType, CanvasAssumption DEF IsItem, Parent, TypeOK, PathTypes
<1>2. \A c \in N : IsItem(c) => c # "begin"
  BY <1>1 DEF IsItem
<1>3. \A c \in N : Item(dsl, c) <=> IsItem(c)
  BY DEF Item, IsItem
<1>4. \A c \in N : Group(dsl, c) <=> Is(c, "iteration") \/ Is(c, "loop")
  BY DEF Group, Is
<1>5. /\ Parent("begin") = Nothing
      /\ \A c \in N :
           /\ Parent(c) # Nothing => Group(dsl, Parent(c))
           /\ Group(dsl, c) =>
                /\ Parent(c) = Nothing /\ Parent(dsl.start[c]) = c
                /\ dsl.kind[dsl.start[c]] = IF Is(c, "loop") THEN "loopitem" ELSE "iterationitem"
           /\ IsItem(c) => c = dsl.start[Parent(c)] /\ dsl.goto[c] = <<>>
           /\ \A x \in N : LeadsTo(dsl, c, x) =>
                Parent(x) = Parent(c) /\ ~IsItem(x) /\ x # "begin"
  BY <1>3 DEF Grouped, Parent, Is
<1>6. \A c \in N : Parent(c) # Nothing => Parent(c) \in N
  BY <1>1 DEF Parent
<1>7. \A c \in N : Is(c, "iteration") => ~Is(c, "loop")
  BY DEF Is
<1>8. \A c \in N : Is(c, "iteration") \/ Is(c, "loop") => IsItem(dsl.start[c])
  BY <1>4, <1>5 DEF IsItem
<1>9. \A c \in N : Is(c, "iteration") => Is(dsl.start[c], "iterationitem")
  BY <1>4, <1>5, <1>7 DEF Is
<1> QED BY <1>1, <1>2, <1>4, <1>5, <1>6, <1>8, <1>9

\* The item of an Iteration is in one.
LEMMA GroupItem ==
  ASSUME IInv, Grouped(dsl), NEW c \in N, Is(c, "iterationitem")
  PROVE  Is(Parent(c), "iteration")
<1>1. IsItem(c)
  BY DEF IsItem, Is
<1>2. Parent(c) \in N /\ Parent(c) # Nothing /\ c = dsl.start[Parent(c)]
  BY <1>1, GroupFacts, CanvasAssumption DEF IInv, TypeOK, PathTypes, N
<1>3. Is(Parent(c), "iteration") \/ Is(Parent(c), "loop")
  BY <1>2, GroupFacts
<1>4. Is(Parent(c), "loop") => dsl.kind[dsl.start[Parent(c)]] = "loopitem"
  BY <1>2 DEF Grouped, Group, Is, N
<1> QED BY <1>2, <1>3, <1>4 DEF Is

\* Post-processing never leads to Begin, and into the body of an Iteration
\* only from there or from its item while that is not through.
LEMMA Follows ==
  ASSUME IInv, Grouped(dsl), Post, NEW k \in Len(path) + 1 .. Len(path')
  PROVE  /\ path'[k] \in N /\ path'[k] # "begin"
         /\ InBody(path'[k]) =>
              /\ Parent(path'[k]) = Parent(path[pos])
              /\ IsItem(path[pos]) => cursor[path[pos]] # -1
<1> DEFINE c == path[pos]
<1>1. path \in Seq(N) /\ pos \in DOMAIN path /\ c \in N
  BY RunPlace DEF Post
<1>2. /\ dsl.downstream \in [N -> Seq(N)] /\ dsl.goto \in [N -> Seq(N)]
      /\ \A x \in N : dsl.cases[x] \subseteq Seq(N)
  BY DslType DEF IInv
<1>3. path' \in Seq(N) /\ path'[k] \in N
  BY PostGrows
<1> HIDE DEF c
<1>4. CASE c \in failed /\ dsl.goto[c] # <<>> /\ path' = path \o dsl.goto[c]
  <2>1. Occurs(path'[k], dsl.goto[c])
    BY <1>1, <1>2, <1>4, ExtendNew
  <2>2. LeadsTo(dsl, c, path'[k])
    BY <2>1 DEF LeadsTo
  <2> QED BY <1>1, <1>3, <1>4, <2>2, GroupFacts DEF c
<1>5. CASE Lead(c)
  <2>1. CASE IsItem(c) /\ path' = Extend(path, dsl.downstream[Parent(c)])
    <3>1. Parent(c) \in N /\ Parent(Parent(c)) = Nothing
      BY <1>1, <2>1, GroupFacts, CanvasAssumption DEF IInv, TypeOK, PathTypes, N
    <3>2. Occurs(path'[k], dsl.downstream[Parent(c)])
      BY <1>1, <1>2, <2>1, <3>1, ExtendNew
    <3>3. LeadsTo(dsl, Parent(c), path'[k])
      BY <3>2 DEF LeadsTo
    <3> QED BY <1>3, <3>1, <3>3, GroupFacts DEF InBody, InGroup
  <2>2. CASE path' = Extend(path, Onward(c)) /\ (IsItem(c) => MayContinue(c))
    <3>1. Occurs(path'[k], Onward(c))
      BY <1>1, <2>2, OnwardType, ExtendNew DEF IInv
    <3>2. \A x, y : Occurs(y, <<x>>) => y = x
      BY DEF Occurs
    <3>3. CASE Occurs(path'[k], dsl.downstream[c])
      <4>1. LeadsTo(dsl, c, path'[k])
        BY <3>3 DEF LeadsTo
      <4> QED BY <1>1, <1>3, <2>2, <4>1, GroupFacts DEF c, MayContinue
    <3>4. CASE \E g \in N : (Is(g, "iteration") \/ Is(g, "loop")) /\ path'[k] = dsl.start[g]
      <4>1. IsItem(path'[k])
        BY <3>4, GroupFacts
      <4> QED BY <1>3, <4>1, GroupFacts DEF InBody
    <3>5. CASE InGroup(c, "loop") /\ Occurs(path'[k], dsl.downstream[Parent(c)])
      <4>1. Parent(c) \in N /\ Parent(Parent(c)) = Nothing
        BY <1>1, <3>5, GroupFacts DEF InGroup
      <4>2. LeadsTo(dsl, Parent(c), path'[k])
        BY <3>5 DEF LeadsTo
      <4> QED BY <1>3, <4>1, <4>2, GroupFacts DEF InBody, InGroup
    <3> QED BY <1>1, <3>1, <3>2, <3>3, <3>4, <3>5, GroupFacts DEF Onward
  <2>3. CASE \E s \in dsl.cases[c] \cup {t \in {<<>>} : c \in failed} :
               ~IsItem(c) /\ path' = Extend(path, s)
    <3>1. PICK s \in dsl.cases[c] \cup {t \in {<<>>} : c \in failed} :
            ~IsItem(c) /\ path' = Extend(path, s)
      BY <2>3
    <3>2. s \in Seq(N)
      <4>1. <<>> \in Seq(N) /\ (s \in dsl.cases[c] \/ s = <<>>)
        BY <3>1
      <4> QED BY <1>1, <1>2, <4>1
    <3>3. Occurs(path'[k], s)
      BY <1>1, <3>1, <3>2, ExtendNew
    <3>4. s \in dsl.cases[c]
      BY <3>1, <3>3 DEF Occurs
    <3>5. LeadsTo(dsl, c, path'[k])
      BY <3>3, <3>4 DEF LeadsTo
    <3> QED BY <1>1, <1>3, <3>1, <3>5, GroupFacts DEF c
  <2> QED BY <1>5, <2>1, <2>2, <2>3 DEF Lead, Is, IsItem
<1> QED BY <1>4, <1>5 DEF Post, c

\* Fresh is inductive.
LEMMA NextFresh ==
  ASSUME IInv, Grouped(dsl), Tasked, Fresh, [Next]_vars
  PROVE  Fresh'
<1> USE SameDsl
<1>1. CASE phase' = "idle"
  BY <1>1 DEF Fresh
<1>2. CASE Run
  <2>1. /\ outputs' = [c \in N |-> Nothing] /\ idx' = Len(path') /\ to' = Len(path')
        /\ path' = Resume(stored)
    BY <1>2 DEF Run, N
  <2>2. path' \in Seq(N)
    BY NextInv DEF IInv, TypeOK, PathTypes, N
  <2>3. \A k \in DOMAIN path' : k <= Len(path')
    BY <2>2
  <2>4. \A k \in DOMAIN path' : k >= idx' => k = idx'
    BY <2>1, <2>2
  <2> QED BY <2>1, <2>4 DEF Fresh
<1>3. CASE phase # "idle" /\ phase' # "idle"
  <2> USE <1>3, RunPlace
  <2>1. CASE Defer
    <3>1. idx <= pos /\ pos <= to /\ idx' = idx /\ to' = to - 1 /\ outputs' = outputs
      <4>1. phase = "start" /\ pos <= to /\ to' = to - 1 /\ UNCHANGED <<idx, outputs>>
        BY <2>1 DEF Defer, values
      <4> QED BY <4>1
    <3>2. /\ pos \in 2 .. Len(path) /\ path[pos] # "begin" /\ DOMAIN path' = 1 .. Len(path) - 1
          /\ \A k \in 1 .. Len(path) - 1 : path'[k] = IF k < pos THEN path[k] ELSE path[k + 1]
      BY <2>1, DeferPlace
    <3>3. ASSUME NEW k \in 1 .. Len(path) - 1, k >= idx, path'[k] = "begin" PROVE FALSE
      <4>1. path'[k] = IF k < pos THEN path[k] ELSE path[k + 1]
        BY <3>2
      <4>2. PICK j \in {k, k + 1} : path[j] = "begin"
        BY <3>3, <4>1
      <4>3. j \in DOMAIN path /\ j >= idx
        BY <3>3
      <4>4. j = idx /\ idx = to
        BY <4>2, <4>3 DEF Fresh
      <4>5. pos = idx
        BY <3>1, <4>4
      <4> QED BY <3>2, <4>2, <4>4, <4>5
    <3> QED BY <3>1, <3>2, <3>3 DEF Fresh
  <2>2. CASE Post
    <3>1. idx' = idx /\ to' = to /\ outputs' = outputs
      BY <2>2 DEF Post
    <3>2. ASSUME NEW k \in DOMAIN path', k >= idx', path'[k] = "begin"
          PROVE  k \in DOMAIN path /\ path[k] = "begin"
      <4>1. path' \in Seq(N) /\ Len(path) <= Len(path') /\ \A j \in 1 .. Len(path) : path'[j] = path[j]
        BY <2>2, PostGrows
      <4>2. k \notin Len(path) + 1 .. Len(path')
        BY <2>2, <3>2, Follows
      <4>3. k \in 1 .. Len(path)
        BY <4>1, <4>2
      <4> QED BY <3>2, <4>1, <4>3
    <3> QED BY <3>1, <3>2 DEF Fresh
  <2>3. CASE RunTask
    <3>1. path' = path /\ idx' = idx /\ to' = to
      BY <2>3 DEF RunTask
    <3>2. ASSUME NEW k \in DOMAIN path, k >= idx, path[k] = "begin"
          PROVE  \A c \in N : outputs'[c] # Nothing => c = "begin"
      <4>1. k = idx /\ idx = to /\ \A c \in N : outputs[c] # Nothing => c = "begin"
        BY <3>2 DEF Fresh
      <4>2. PICK n \in todo : Invoke(n) \/ Fail(n)
        BY <2>3 DEF RunTask
      <4>3. n = idx /\ path[n] = "begin"
        BY <2>3, <3>2, <4>1, <4>2 DEF Tasked, RunTask
      <4>4. \A c \in N : c # "begin" => outputs'[c] = outputs[c]
        <5>1. outputs \in [N -> Outputs]
          BY DEF IInv, TypeOK, ValueTypes, N
        <5>2. dsl.kind["begin"] = "begin"
          BY DslType DEF IInv
        <5> QED BY <4>2, <4>3, <5>1, <5>2 DEF Invoke, Fail, Is
      <4> QED BY <4>1, <4>4
    <3>3. ASSUME NEW k \in DOMAIN path, k >= idx, path[k] = "begin"
          PROVE  k = idx /\ idx = to
      BY <3>3 DEF Fresh
    <3> QED BY <3>1, <3>2, <3>3 DEF Fresh
  <2>4. CASE NextBatch
    <3>1. idx' = to + 1 /\ path' = path
      BY <2>4 DEF NextBatch
    <3>2. ASSUME NEW k \in DOMAIN path, k >= to + 1, path[k] = "begin" PROVE FALSE
      <4>1. k \in Nat /\ k >= idx
        BY <3>2
      <4> QED BY <3>2, <4>1 DEF Fresh
    <3> QED BY <3>1, <3>2 DEF Fresh
  <2>5. CASE UNCHANGED <<path, idx, to, outputs>>
    BY <2>5 DEF Fresh
  <2> QED BY <2>1, <2>2, <2>3, <2>4, <2>5
          DEF Next, Step, Run, StartBatch, Abandon, CreateTask, Gather, Gathered, FailedRun, Pause,
              Finish, Leave, Cancel, Crash, Reset, vars, batch, values
<1>4. CASE phase = "idle" /\ ~Run
  <2>1. phase' = "idle"
    BY <1>4 DEF Next, Step, StartBatch, Abandon, Defer, CreateTask, Gather, RunTask, Gathered, Post,
                FailedRun, Pause, Finish, NextBatch, Cancel, Crash, Reset, vars
  <2> QED BY <2>1 DEF Fresh
<1> QED BY <1>1, <1>2, <1>3, <1>4

----------------------------------------------------------------------------
(* The first run.                                                          *)

\* A step of a run makes no path that of a first message.
LEMMA FirstRunStep ==
  ASSUME IInv, Grouped(dsl), [Next]_vars, phase # "idle", phase' # "idle", FirstRun'
  PROVE  FirstRun
<1> USE RunPlace
<1>1. path' # <<>> /\ path'[1] = "begin" /\ path' \in Seq(N)
      /\ \A k \in 2 .. Len(path') : path'[k] # "begin"
  BY NextInv, SameDsl DEF FirstRun, IInv, TypeOK, PathTypes, N
<1>2. CASE Defer
  <2>1. /\ pos \in 2 .. Len(path) /\ path[pos] # "begin" /\ path'[1] = path[1]
        /\ Len(path') = Len(path) - 1
        /\ \A k \in 1 .. Len(path) - 1 : path'[k] = IF k < pos THEN path[k] ELSE path[k + 1]
    BY <1>2, DeferPlace
  <2>2. ASSUME NEW k \in 2 .. Len(path), path[k] = "begin" PROVE FALSE
    <3>1. CASE k < pos
      <4>1. k \in 2 .. Len(path') /\ path'[k] = path[k]
        BY <2>1, <3>1
      <4> QED BY <1>1, <2>2, <4>1
    <3>2. CASE k > pos
      <4>1. k - 1 \in 2 .. Len(path') /\ path'[k - 1] = path[k]
        BY <2>1, <3>2
      <4> QED BY <1>1, <2>2, <4>1
    <3> QED BY <2>1, <2>2, <3>1, <3>2
  <2> QED BY <1>1, <2>1, <2>2 DEF FirstRun
<1>3. CASE Post
  <2>1. Len(path) <= Len(path') /\ \A k \in 1 .. Len(path) : path'[k] = path[k]
    BY <1>3, PostGrows
  <2>2. \A k \in 2 .. Len(path) : k \in 2 .. Len(path') /\ path'[k] = path[k]
    BY <1>1, <2>1
  <2>3. path[1] = "begin"
    BY <1>1, <2>1
  <2> QED BY <1>1, <2>2, <2>3 DEF FirstRun
<1>4. CASE path' = path
  BY <1>4 DEF FirstRun
<1> QED BY <1>2, <1>3, <1>4
        DEF Next, Step, Run, StartBatch, Abandon, CreateTask, Gather, RunTask, Gathered, FailedRun, Pause,
            Finish, Leave, NextBatch, Cancel, Crash, Reset, vars

\* A first message is answered from Begin alone.
LEMMA BeginAlone ==
  ASSUME IInv, FillUpFirst, Run, FirstRun'
  PROVE  Len(path') = 1 /\ path'[1] = "begin" /\ idx' = 1 /\ to' = 1
<1>1. path' = Resume(stored) /\ idx' = Len(path') /\ to' = Len(path')
  BY DEF Run
<1>2. stored \in Seq(N) /\ "begin" \in N
  BY DslType DEF IInv, TypeOK, PathTypes, N
<1>3. path'[1] = "begin" /\ \A k \in 2 .. Len(path') : path'[k] # "begin"
  BY DEF FirstRun
<1>4. CASE stored # <<>> /\ path' = stored /\ Is(stored[Len(stored)], "userfillup")
  <2>1. Len(stored) \in DOMAIN stored
    BY <1>2, <1>4
  <2> QED BY <1>3, <1>4, <2>1 DEF FillUpFirst
<1>5. CASE path' = Append(stored, "begin")
  <2>1. Len(path') = Len(stored) + 1 /\ path'[Len(stored) + 1] = "begin" /\ Len(stored) \in Nat
    BY <1>2, <1>5
  <2>2. Len(stored) + 1 \notin 2 .. Len(path')
    BY <1>3, <2>1
  <2> QED BY <1>1, <1>3, <2>1, <2>2
<1> QED BY <1>1, <1>4, <1>5 DEF Resume

\* What the invocation of an Iteration's item does to it.
LEMMA ItemEffect ==
  ASSUME IInv, Grouped(dsl), Cursors, NEW n \in todo, phase = "gather", Invoke(n),
         Is(path[n], "iterationitem")
  PROVE  LET c == path[n] IN
         /\ ~canceled /\ (outputs[c] # Nothing => outputs'[c] # Nothing)
         /\ outputs'[c] # Nothing \/ cursor'[c] = -1
         /\ cursor'[c] >= -1 /\ (cursor'[c] > 0 => outputs'[c] # Nothing)
         /\ cursor'[c] = -1 => outputs'[c] # Nothing \/ dsl.count[Parent(c)] = 0
<1> DEFINE c == path[n]
           k == cursor[c]
           m == dsl.count[Parent(c)]
<1>1. c \in N
  BY DEF IInv, TypeOK, PathTypes, N
<1>2. /\ outputs \in [N -> Outputs] /\ cursor \in [N -> Int] /\ k \in Int
      /\ dsl.count \in [N -> Nat] /\ Nothing \notin Int
  BY <1>1, DslType, CanvasAssumption DEF IInv, TypeOK, ValueTypes, N
<1>3. Parent(c) \in N /\ m \in Nat
  BY <1>1, <1>2, GroupFacts DEF IsItem, Is
<1>4. /\ k >= -1 /\ (k > 0 => outputs[c] # Nothing)
      /\ (k = -1 => outputs[c] # Nothing \/ m = 0)
  BY <1>1 DEF Cursors
<1>5. NextItem(c) /\ ~canceled
  BY DEF Invoke, Is
<1>6. k >= 0 \/ m > 0
  BY <1>5 DEF NextItem
<1> HIDE DEF c, k, m
<1>7. CASE k >= m
  <2>1. outputs' = outputs /\ cursor'[c] = -1
    BY <1>1, <1>2, <1>5, <1>7 DEF NextItem, k, m
  <2> QED BY <1>2, <1>3, <1>4, <1>5, <1>6, <1>7, <2>1 DEF c, m
<1>8. CASE ~(k >= m)
  <2>1. outputs'[c] = ItemAt(k, m) /\ cursor'[c] = k + 1
    BY <1>1, <1>2, <1>5, <1>8 DEF NextItem, k, m
  <2>2. outputs'[c] \in Int
    BY <1>2, <1>3, <2>1 DEF ItemAt
  <2> QED BY <1>2, <1>4, <1>5, <2>1, <2>2 DEF c
<1> QED BY <1>7, <1>8

\* What running a task does to a component.
LEMMA TaskEffect ==
  ASSUME IInv, Grouped(dsl), Cursors, NEW n \in todo, RunTask, Invoke(n) \/ Fail(n)
  PROVE  LET c == path[n] IN
         /\ c \in N /\ failed \subseteq failed' /\ failed' \subseteq failed \cup {c}
         /\ \A x \in N : x # c => /\ outputs'[x] = outputs[x] /\ cursor'[x] = cursor[x]
                                  /\ inputs'[x] = inputs[x]
         /\ \/ /\ Fail(n) /\ c \in failed' /\ UNCHANGED <<outputs, inputs, cursor>>
               /\ Is(c, "iterationitem") => canceled
            \/ /\ Invoke(n) /\ failed' = failed
               /\ inputs'[c] = {r \in dsl.refs[c] : outputs[r] # Nothing}
               /\ ~IsItem(c) => outputs'[c] = Work(c)
<1> DEFINE c == path[n]
<1>1. c \in N
  BY DEF RunTask, IInv, TypeOK, PathTypes, N
<1>2. /\ outputs \in [N -> Outputs] /\ cursor \in [N -> Int] /\ inputs \in [N -> SUBSET N]
  BY DEF IInv, TypeOK, ValueTypes, N
<1>3. CASE Fail(n)
  BY <1>1, <1>3 DEF Fail, Is
<1>4. CASE Invoke(n)
  <2>1. failed' = failed /\ inputs' = [inputs EXCEPT ![c] = {r \in dsl.refs[c] : outputs[r] # Nothing}]
    BY <1>4 DEF Invoke
  <2>2. CASE Is(c, "iterationitem")
    <3>1. NextItem(c)
      BY <1>4, <2>2 DEF Invoke
    <3>2. \A x \in N : x # c => outputs'[x] = outputs[x] /\ cursor'[x] = cursor[x]
      BY <1>2, <3>1 DEF NextItem
    <3> QED BY <1>1, <1>2, <1>4, <2>1, <2>2, <3>2 DEF Is, IsItem
  <2>3. CASE ~Is(c, "iterationitem") /\ Is(c, "loopitem")
    <3>1. NextRound(c)
      BY <1>4, <2>3 DEF Invoke
    <3>2. \A x \in N : x # c => outputs'[x] = outputs[x] /\ cursor'[x] = cursor[x]
      BY <1>2, <3>1 DEF NextRound
    <3> QED BY <1>1, <1>2, <1>4, <2>1, <2>3, <3>2 DEF Is, IsItem
  <2>4. CASE ~Is(c, "iterationitem") /\ ~Is(c, "loopitem")
    <3>1. outputs' = [outputs EXCEPT ![c] = Work(c)] /\ cursor' = cursor
      BY <1>4, <2>4 DEF Invoke
    <3> QED BY <1>1, <1>2, <1>4, <2>1, <3>1
  <2> QED BY <2>2, <2>3, <2>4
<1> QED BY <1>3, <1>4

\* A first run in whose DSL groups are entered by their items.
Reading ==
  /\ IInv /\ Grouped(dsl) /\ InScope(dsl) /\ phase # "idle" /\ FirstRun
  /\ Tasked /\ JoinReads /\ BodiesStarted /\ RanSettled /\ Cursors

\* Tasks keep what the invariant says of Iterations.
LEMMA TaskItems ==
  ASSUME Reading, RunTask
  PROVE  Cursors' /\ BodiesStarted'
<1>1. PICK n \in todo : Invoke(n) \/ Fail(n)
  BY DEF RunTask
<1> DEFINE c == path[n]
<1>2. /\ c \in N /\ failed \subseteq failed' /\ failed' \subseteq failed \cup {c}
      /\ \A x \in N : x # c => outputs'[x] = outputs[x] /\ cursor'[x] = cursor[x]
      /\ \/ /\ c \in failed' /\ UNCHANGED <<outputs, inputs, cursor>>
            /\ Is(c, "iterationitem") => canceled
         \/ Invoke(n) /\ failed' = failed
  BY <1>1, TaskEffect DEF Reading
<1>3. /\ path' = path /\ dsl' = dsl /\ N' = N /\ canceled' = canceled /\ phase = "gather"
  BY SameDsl DEF RunTask, Next, Step
<1>4. ASSUME Invoke(n), Is(c, "iterationitem")
      PROVE  /\ outputs[c] # Nothing => outputs'[c] # Nothing
             /\ cursor'[c] >= -1 /\ (cursor'[c] > 0 => outputs'[c] # Nothing)
             /\ cursor'[c] = -1 => outputs'[c] # Nothing \/ dsl.count[Parent(c)] = 0
  BY <1>1, <1>3, <1>4, ItemEffect DEF Reading
<1> HIDE DEF c
<1>5. Cursors'
  <2> SUFFICES ASSUME NEW x \in N, Is(x, "iterationitem")
               PROVE  /\ cursor'[x] >= -1
                      /\ cursor'[x] > 0 => outputs'[x] # Nothing
                      /\ cursor'[x] = -1 => outputs'[x] # Nothing \/ dsl.count[Parent(x)] = 0
                      /\ x \in failed' => canceled
    BY <1>3 DEF Cursors, Is, Parent
  <2>1. /\ cursor[x] >= -1
        /\ cursor[x] > 0 => outputs[x] # Nothing
        /\ cursor[x] = -1 => outputs[x] # Nothing \/ dsl.count[Parent(x)] = 0
        /\ x \in failed => canceled
    BY DEF Reading, Cursors
  <2>2. CASE x # c
    BY <1>2, <2>1, <2>2
  <2>3. CASE x = c /\ Invoke(n) /\ failed' = failed
    BY <1>4, <2>1, <2>3
  <2>4. CASE x = c /\ UNCHANGED <<outputs, inputs, cursor>> /\ (Is(c, "iterationitem") => canceled)
    BY <2>1, <2>4
  <2> QED BY <1>2, <2>2, <2>3, <2>4
<1>6. BodiesStarted'
  <2> SUFFICES ASSUME NEW k \in DOMAIN path, InBody(path[k])
               PROVE  LET i == dsl.start[Parent(path[k])] IN
                      outputs'[i] # Nothing \/ (canceled /\ i \in failed')
    BY <1>3 DEF BodiesStarted, Started, InBody, InGroup, IsItem, Is, Parent
  <2> DEFINE i == dsl.start[Parent(path[k])]
  <2>1. path[k] \in N
    BY RunPlace DEF Reading
  <2>2. i \in N /\ Is(i, "iterationitem")
    BY <2>1, GroupFacts DEF Reading, InBody, InGroup
  <2>3. outputs[i] # Nothing \/ (canceled /\ i \in failed)
    BY DEF Reading, BodiesStarted, Started
  <2> HIDE DEF i
  <2>4. outputs[i] # Nothing => outputs'[i] # Nothing
    BY <1>2, <1>4, <2>2
  <2> QED BY <1>2, <2>3, <2>4 DEF i
<1> QED BY <1>5, <1>6

\* A component whose task has run is settled, and stays so.
LEMMA TaskSettles ==
  ASSUME Reading, RunTask
  PROVE  RanSettled'
<1>1. PICK n \in todo : todo' = todo \ {n} /\ (Invoke(n) \/ Fail(n))
  BY DEF RunTask
<1> DEFINE c == path[n]
<1>2. /\ c \in N /\ failed \subseteq failed'
      /\ \A x \in N : x # c => outputs'[x] = outputs[x] /\ cursor'[x] = cursor[x]
      /\ \/ c \in failed' /\ UNCHANGED <<outputs, inputs, cursor>>
         \/ Invoke(n) /\ (~IsItem(c) => outputs'[c] = Work(c))
  BY <1>1, TaskEffect DEF Reading
<1>3. /\ path' = path /\ dsl' = dsl /\ idx' = idx /\ to' = to /\ phase = "gather" /\ phase' = "gather"
  BY DEF RunTask
<1>4. ASSUME Invoke(n), Is(c, "iterationitem")
      PROVE  ~canceled /\ (outputs'[c] # Nothing \/ cursor'[c] = -1)
  BY <1>1, <1>3, <1>4, ItemEffect DEF Reading
<1> HIDE DEF c
<1> DEFINE Left(x) ==
             \/ outputs'[x] # Nothing \/ x \in failed'
             \/ Is(x, "loopitem")
             \/ Is(x, "iterationitem") /\ cursor'[x] = -1
             \/ InBody(x) /\ outputs'[dsl.start[Parent(x)]] = Nothing
<1>5. \A x : Left(x) => Settled(x)'
  BY <1>3 DEF Settled, InBody, InGroup, Is, IsItem, Parent
<1> HIDE DEF Left
<1>6. Left(c)
  <2>1. CASE c \in failed' \/ Is(c, "loopitem")
    BY <2>1 DEF Left
  <2>2. CASE Invoke(n) /\ Is(c, "iterationitem")
    BY <1>4, <2>2 DEF Left
  <2>3. CASE ~IsItem(c) /\ outputs'[c] = Work(c)
    <3>1. CASE InGroup(c, "iteration")
      <4>1. outputs'[c] = outputs[dsl.start[Parent(c)]]
        BY <1>2, <2>3, <3>1 DEF Work
      <4>2. dsl.start[Parent(c)] \in N /\ dsl.start[Parent(c)] # c
        BY <1>2, <2>3, <3>1, GroupFacts DEF Reading, InGroup, IsItem, Is
      <4>3. outputs'[dsl.start[Parent(c)]] = outputs[dsl.start[Parent(c)]]
        BY <1>2, <4>2
      <4> QED BY <2>3, <3>1, <4>1, <4>3 DEF Left, InBody
    <3>2. CASE ~InGroup(c, "iteration")
      <4>1. outputs'[c] = 0
        BY <1>2, <2>3, <3>2 DEF Work
      <4>2. 0 # Nothing
        BY CanvasAssumption
      <4> QED BY <4>1, <4>2 DEF Left
    <3> QED BY <3>1, <3>2
  <2> QED BY <1>2, <2>1, <2>2, <2>3 DEF IsItem, Is
<1>7. ASSUME NEW k \in DOMAIN path, HasRun(k) PROVE Left(path[k])
  <2> DEFINE x == path[k]
  <2>1. x \in N /\ Settled(x)
    BY <1>7, RunPlace DEF Reading, RanSettled
  <2>2. InBody(x) => /\ dsl.start[Parent(x)] \in N /\ Is(dsl.start[Parent(x)], "iterationitem")
                     /\ Started(dsl.start[Parent(x)])
    BY <2>1, GroupFacts DEF Reading, InBody, InGroup, BodiesStarted
  <2> HIDE DEF x
  <2>3. CASE x = c
    BY <1>6, <2>3 DEF x
  <2>4. CASE x # c /\ InBody(x) /\ outputs[dsl.start[Parent(x)]] = Nothing
    <3>1. canceled
      BY <2>2, <2>4 DEF Started
    <3>2. outputs'[dsl.start[Parent(x)]] = Nothing
      BY <1>2, <1>4, <2>2, <2>4, <3>1
    <3> QED BY <2>4, <3>2 DEF Left, x
  <2>5. CASE x # c /\ ~(InBody(x) /\ outputs[dsl.start[Parent(x)]] = Nothing)
    BY <1>2, <2>1, <2>5 DEF Settled, Left, x
  <2> QED BY <2>3, <2>4, <2>5
<1>8. ASSUME NEW k \in DOMAIN path, HasRun(k)' PROVE Left(path[k])
  <2>1. HasRun(k) \/ k = n
    BY <1>1, <1>3, <1>8 DEF HasRun
  <2> QED BY <1>6, <1>7, <2>1 DEF c
<1> QED BY <1>3, <1>5, <1>8 DEF RanSettled

\* A component finds the outputs of what it refers to, if all of that ran in
\* earlier batches.
LEMMA TaskReads ==
  ASSUME Reading, BatchesApart, RunTask
  PROVE  JoinReads'
<1>1. PICK n \in todo : Invoke(n) \/ Fail(n)
  BY DEF RunTask
<1> DEFINE c == path[n]
<1>2. /\ c \in N /\ failed \subseteq failed'
      /\ \A x \in N : x # c => outputs'[x] = outputs[x] /\ inputs'[x] = inputs[x]
      /\ \/ UNCHANGED <<outputs, inputs>>
         \/ /\ Invoke(n) /\ failed' = failed
            /\ inputs'[c] = {r \in dsl.refs[c] : outputs[r] # Nothing}
            /\ ~IsItem(c) => outputs'[c] = Work(c)
  BY <1>1, TaskEffect DEF Reading
<1>3. /\ path' = path /\ dsl' = dsl /\ phase = "gather" /\ n \in idx .. to
  BY <1>1 DEF RunTask, Reading, Tasked
<1>4. /\ path \in Seq(N) /\ idx \in Nat \ {0} /\ to \in Nat /\ to <= Len(path)
      /\ n \in DOMAIN path /\ idx - 1 \in 0 .. Len(path)
  BY <1>3, RunPlace DEF Reading
<1>5. dsl.refs \in [N -> SUBSET N]
  BY DslType DEF Reading, IInv
<1>6. /\ dsl.kind[c] \in {"begin", "userfillup"} \/ IsItem(c) => dsl.refs[c] = {}
      /\ \A r \in dsl.refs[c] : ~Is(r, "loopitem") /\ (Parent(r) # Nothing => Parent(r) = Parent(c))
  BY <1>2 DEF Reading, InScope, Item, IsItem, Is, Parent, N
<1>7. FirstRun /\ path[1] = "begin" /\ dsl.kind["begin"] = "begin"
  BY DslType DEF Reading, FirstRun, IInv
<1>8. ASSUME NEW r \in dsl.refs[c] PROVE Settled(r)
  <2>1. Occurs(r, Prefix(path, n - 1))
    <3>1. Preceded(path, n)
      BY <1>3 DEF Reading, IInv, JoinWaits, Created
    <3> QED BY <1>6, <1>7, <1>8, <3>1 DEF Preceded, Is
  <2>2. Occurs(r, Prefix(path, idx - 1))
    BY <1>3, <1>7, <1>8, <2>1 DEF BatchesApart
  <2>3. /\ DOMAIN Prefix(path, idx - 1) = 1 .. idx - 1
        /\ \A j \in 1 .. idx - 1 : Prefix(path, idx - 1)[j] = path[j]
    BY <1>4, PrefixType
  <2>4. PICK j \in 1 .. idx - 1 : path[j] = r
    BY <2>2, <2>3 DEF Occurs
  <2>5. j \in DOMAIN path /\ HasRun(j)
    BY <1>4 DEF HasRun
  <2> QED BY <2>4, <2>5 DEF Reading, RanSettled
<1> HIDE DEF c
<1>9. ASSUME Invoke(n), ~IsItem(c), outputs'[c] = Work(c), outputs'[c] # Nothing, NEW r \in dsl.refs[c]
      PROVE  outputs[r] # Nothing \/ r \in failed
  <2>1. r \in N
    BY <1>2, <1>5
  <2>2. Settled(r) /\ ~Is(r, "loopitem") /\ (Parent(r) # Nothing => Parent(r) = Parent(c))
    BY <1>6, <1>8
  <2>3. InGroup(c, "iteration") => outputs[dsl.start[Parent(c)]] # Nothing
    BY <1>9 DEF Work
  <2>4. CASE Is(r, "iterationitem")
    <3>1. Parent(r) \in N /\ Parent(r) # Nothing /\ r = dsl.start[Parent(r)]
      BY <2>1, <2>4, GroupFacts, CanvasAssumption DEF Reading, IInv, TypeOK, PathTypes, IsItem, Is, N
    <3>2. Is(Parent(r), "iteration")
      BY <2>1, <2>4, <3>1, GroupItem DEF Reading
    <3> QED BY <2>2, <2>3, <3>1, <3>2 DEF InGroup
  <2>5. CASE InBody(r) /\ outputs[dsl.start[Parent(r)]] = Nothing
    BY <2>2, <2>3, <2>5 DEF InBody, InGroup
  <2> QED BY <2>2, <2>4, <2>5 DEF Settled
<1>10. ASSUME NEW x \in N, outputs'[x] # Nothing
       PROVE  dsl.refs[x] \subseteq inputs'[x] \cup failed'
  <2>1. outputs[x] # Nothing => dsl.refs[x] \subseteq inputs[x] \cup failed
    BY <1>7 DEF Reading, JoinReads, N
  <2>2. CASE x # c \/ UNCHANGED <<outputs, inputs>>
    BY <1>2, <1>10, <2>1, <2>2
  <2>3. CASE x = c /\ IsItem(c)
    BY <1>6, <2>3
  <2>4. CASE /\ x = c /\ ~IsItem(c) /\ Invoke(n) /\ failed' = failed
             /\ inputs'[c] = {r \in dsl.refs[c] : outputs[r] # Nothing} /\ outputs'[c] = Work(c)
    BY <1>9, <1>10, <2>4
  <2> QED BY <1>2, <2>2, <2>3, <2>4
<1> QED BY <1>3, <1>10, SameDsl DEF JoinReads, N, Nodes

\* A component that waits leaves everything behind it as it was.
LEMMA DeferReads ==
  ASSUME Reading, Defer
  PROVE  BodiesStarted' /\ RanSettled' /\ Cursors'
<1>1. /\ phase = "start" /\ phase' = "start" /\ dsl' = dsl /\ N' = N /\ idx' = idx /\ canceled' = canceled
      /\ UNCHANGED <<outputs, failed, cursor>>
  BY SameDsl DEF Defer, values, Next, Step
<1>2. /\ pos \in 2 .. Len(path) /\ DOMAIN path' = 1 .. Len(path) - 1
      /\ \A k \in 1 .. Len(path) - 1 : path'[k] = IF k < pos THEN path[k] ELSE path[k + 1]
  BY DeferPlace DEF Reading
<1>3. /\ DOMAIN path = 1 .. Len(path) /\ Len(path) \in Nat /\ idx \in Nat /\ idx <= pos
  BY <1>1, RunPlace DEF Reading
<1>4. \A k \in DOMAIN path' : \E j \in DOMAIN path : path'[k] = path[j] /\ (k < idx => j = k)
  <2> SUFFICES ASSUME NEW k \in 1 .. Len(path) - 1
               PROVE  \E j \in 1 .. Len(path) : path'[k] = path[j] /\ (k < idx => j = k)
    BY <1>2, <1>3
  <2>1. CASE k < pos
    BY <1>2, <2>1
  <2>2. CASE ~(k < pos)
    <3>1. path'[k] = path[k + 1] /\ k + 1 \in 1 .. Len(path) /\ ~(k < idx)
      BY <1>2, <1>3, <2>2
    <3> QED BY <3>1
  <2> QED BY <2>1, <2>2
<1>5. BodiesStarted'
  <2>1. \A k \in DOMAIN path' : InBody(path'[k]) => Started(dsl.start[Parent(path'[k])])
    BY <1>4 DEF Reading, BodiesStarted
  <2> QED BY <1>1, <2>1 DEF BodiesStarted, Started, InBody, InGroup, IsItem, Is, Parent
<1>6. RanSettled'
  <2>1. \A k \in DOMAIN path' : k < idx => Settled(path'[k])
    BY <1>4 DEF Reading, RanSettled, HasRun
  <2> QED BY <1>1, <2>1 DEF RanSettled, HasRun, Settled, InBody, InGroup, IsItem, Is, Parent
<1>7. Cursors'
  BY <1>1 DEF Reading, Cursors, Is, Parent
<1> QED BY <1>5, <1>6, <1>7

\* The cursor of an Iteration's item is no matter of post-processing.
LEMMA PostCursor ==
  ASSUME IInv, Post, NEW x \in N, Is(x, "iterationitem")
  PROVE  cursor'[x] = cursor[x]
<1>1. cursor \in [N -> Int] /\ path[pos] \in N
  BY RunPlace DEF Post, IInv, TypeOK, ValueTypes, N
<1>2. CASE UNCHANGED cursor
  BY <1>2
<1>3. CASE IsItem(path[pos]) /\ MayEnd(path[pos]) /\ cursor' = [cursor EXCEPT ![path[pos]] = -1]
  <2>1. CASE x = path[pos]
    <3>1. cursor[x] = -1
      BY <1>3, <2>1 DEF MayEnd, Is
    <3> QED BY <1>1, <1>3, <2>1, <3>1
  <2>2. CASE x # path[pos]
    BY <1>1, <1>3, <2>2
  <2> QED BY <2>1, <2>2
<1> QED BY <1>2, <1>3 DEF Post, Lead

\* Post-processing leads into the body of an Iteration that is at an item.
LEMMA PostReads ==
  ASSUME Reading, Post
  PROVE  BodiesStarted' /\ RanSettled' /\ Cursors'
<1>1. /\ phase = "post" /\ phase' = "post" /\ dsl' = dsl /\ N' = N /\ idx' = idx /\ to' = to
      /\ canceled' = canceled /\ UNCHANGED <<outputs, failed>> /\ pos <= to
  BY SameDsl DEF Post, Next, Step
<1>2. /\ path' \in Seq(N) /\ Len(path) <= Len(path')
      /\ \A k \in 1 .. Len(path) : path'[k] = path[k]
  BY PostGrows DEF Reading
<1>3. /\ DOMAIN path = 1 .. Len(path) /\ Len(path) \in Nat /\ idx \in Nat /\ to \in Nat
      /\ to <= Len(path) /\ idx <= to + 1 /\ pos \in DOMAIN path /\ path[pos] \in N
  BY <1>1, RunPlace DEF Reading
<1>4. \A x \in N : Is(x, "iterationitem") => cursor'[x] = cursor[x]
  BY PostCursor DEF Reading
<1>5. BodiesStarted'
  <2> SUFFICES ASSUME NEW k \in DOMAIN path', InBody(path'[k])
               PROVE  Started(dsl.start[Parent(path'[k])])
    BY <1>1 DEF BodiesStarted, Started, InBody, InGroup, IsItem, Is, Parent
  <2>1. CASE k \in 1 .. Len(path)
    BY <1>2, <1>3, <2>1 DEF Reading, BodiesStarted
  <2>2. CASE k \in Len(path) + 1 .. Len(path')
    <3> DEFINE c == path[pos]
               i == dsl.start[Parent(c)]
    <3>1. Parent(path'[k]) = Parent(c) /\ (IsItem(c) => cursor[c] # -1)
      BY <2>2, Follows DEF Reading
    <3>2. InGroup(c, "iteration")
      BY <3>1 DEF InBody, InGroup
    <3>3. CASE ~IsItem(c)
      BY <1>3, <3>1, <3>2, <3>3 DEF Reading, BodiesStarted, InBody
    <3>4. CASE IsItem(c)
      <4>1. c = i /\ Is(c, "iterationitem")
        BY <1>3, <3>2, <3>4, GroupFacts DEF Reading, InGroup
      <4>2. Settled(c)
        BY <1>1, <1>3 DEF Reading, RanSettled, HasRun
      <4>3. outputs[c] # Nothing \/ c \in failed
        BY <3>1, <3>4, <4>1, <4>2 DEF Settled, InBody, Is
      <4>4. c \in failed => canceled
        BY <1>3, <4>1 DEF Reading, Cursors
      <4> QED BY <3>1, <4>1, <4>3, <4>4 DEF Started
    <3> QED BY <3>3, <3>4
  <2> QED BY <1>2, <1>3, <2>1, <2>2
<1>6. RanSettled'
  <2> SUFFICES ASSUME NEW k \in DOMAIN path', HasRun(k)'
               PROVE  Settled(path[k])'
    BY DEF RanSettled
  <2>1. k \in 1 .. Len(path) /\ HasRun(k)
    BY <1>1, <1>2, <1>3 DEF HasRun
  <2>2. path'[k] = path[k] /\ path[k] \in N /\ Settled(path[k])
    BY <1>2, <1>3, <2>1, RunPlace DEF Reading, RanSettled
  <2> QED BY <1>1, <1>4, <2>2 DEF Settled, InBody, InGroup, IsItem, Is, Parent
<1>7. Cursors'
  BY <1>1, <1>4 DEF Reading, Cursors, Is, Parent
<1> QED BY <1>5, <1>6, <1>7

\* The steps that leave the path and the components as they are.
LEMMA QuietReads ==
  ASSUME Reading, [Next]_vars, phase' # "idle",
         StartBatch \/ CreateTask \/ Gather \/ Gathered \/ NextBatch \/ Cancel \/ Reset \/ UNCHANGED vars
  PROVE  BodiesStarted' /\ RanSettled' /\ Cursors'
<1>1. /\ dsl' = dsl /\ N' = N /\ path' = path /\ UNCHANGED <<outputs, failed, cursor>>
      /\ canceled => canceled'
  BY SameDsl DEF StartBatch, CreateTask, Gather, Gathered, NextBatch, Cancel, Reset, vars, values
<1>2. /\ DOMAIN path = 1 .. Len(path) /\ Len(path) \in Nat /\ idx \in Nat /\ to \in Nat
      /\ to <= Len(path) /\ idx <= to + 1 /\ pos \in Nat
      /\ phase # "gather" /\ phase # "start" => todo = {}
  BY RunPlace DEF Reading
<1>3. \A k \in DOMAIN path : HasRun(k)' => HasRun(k)
  <2>1. CASE StartBatch \/ CreateTask
    BY <2>1 DEF StartBatch, CreateTask, HasRun
  <2>2. CASE Gather
    <3>1. todo = idx .. pos - 1 /\ pos > to /\ todo' = todo /\ idx' = idx /\ to' = to /\ phase' = "gather"
      BY <2>2 DEF Gather, batch, Reading, Tasked
    <3> QED BY <1>2, <3>1 DEF HasRun
  <2>3. CASE Gathered
    BY <2>3 DEF Gathered, HasRun
  <2>4. CASE NextBatch
    BY <1>2, <2>4 DEF NextBatch, HasRun
  <2>5. CASE UNCHANGED <<idx, to, phase, todo>>
    BY <2>5 DEF HasRun
  <2> QED BY <2>1, <2>2, <2>3, <2>4, <2>5 DEF Cancel, Reset, vars, batch
<1>4. BodiesStarted'
  BY <1>1 DEF Reading, BodiesStarted, Started, InBody, InGroup, IsItem, Is, Parent
<1>5. RanSettled'
  BY <1>1, <1>3 DEF Reading, RanSettled, Settled, InBody, InGroup, IsItem, Is, Parent
<1>6. Cursors'
  BY <1>1 DEF Reading, Cursors, Is, Parent
<1> QED BY <1>4, <1>5, <1>6

\* A run that fails cuts the path back to what had run before: a first run's
\* path comes of a first run, or of Begin alone.
LEMMA LeaveReads ==
  ASSUME IInv, Grouped(dsl), InScope(dsl), Fresh, JoinReads, phase # "idle", phase' = "idle", [Next]_vars
  PROVE  JoinReads'
<1> SUFFICES ASSUME FirstRun', NEW c \in N, outputs[c] # Nothing
             PROVE  dsl.refs[c] \subseteq inputs[c] \cup failed
  <2>1. UNCHANGED <<outputs, inputs, failed>>
    BY DEF Next, Step, Run, StartBatch, Abandon, Defer, CreateTask, Gather, RunTask, Gathered, Post,
           FailedRun, Pause, Finish, NextBatch, Leave, Cancel, Crash, Reset, vars, values
  <2> QED BY <2>1, SameDsl DEF JoinReads, N
<1>1. CASE path' = path
  BY <1>1 DEF FirstRun, JoinReads, N
<1>2. CASE Pause
  <2>1. Is(path'[1], "userfillup")
    BY <1>2, PauseHead
  <2>2. dsl.kind["begin"] = "begin"
    BY DslType DEF IInv
  <2> QED BY <2>1, <2>2 DEF FirstRun, Is
<1>3. CASE FailedRun
  <2>1. path' = Prefix(path, idx - 1) /\ idx - 1 \in 0 .. Len(path) /\ path \in Seq(N) /\ idx \in Nat
    BY <1>3, RunPlace DEF FailedRun, Leave
  <2>2. Len(path') = idx - 1 /\ path' \in Seq(N) /\ \A k \in 1 .. idx - 1 : path'[k] = path[k]
    BY <2>1, PrefixType
  <2>3. path' # <<>> /\ path'[1] = "begin" /\ \A k \in 2 .. idx - 1 : path'[k] # "begin"
    BY <2>2 DEF FirstRun
  <2>4. path[1] = "begin" /\ \A k \in 2 .. idx - 1 : path[k] # "begin"
    BY <2>1, <2>2, <2>3
  <2>5. CASE FirstRun
    BY <2>5 DEF JoinReads, N
  <2>6. CASE ~FirstRun
    <3>1. PICK k \in 2 .. Len(path) : path[k] = "begin"
      BY <2>4, <2>6, RunPlace DEF FirstRun
    <3>2. k \in DOMAIN path /\ k >= idx
      BY <2>1, <2>4, <3>1
    <3>3. c = "begin"
      BY <3>1, <3>2 DEF Fresh
    <3>4. dsl.refs["begin"] = {}
      BY DslType DEF IInv, InScope, N
    <3> QED BY <3>3, <3>4
  <2> QED BY <2>5, <2>6
<1> QED BY <1>1, <1>2, <1>3
        DEF Next, Step, Run, StartBatch, Abandon, Defer, CreateTask, Gather, RunTask, Gathered, Post,
            Finish, NextBatch, Leave, Cancel, Crash, Reset, vars, batch

\* ReadInv is inductive, given IInv, as long as batches are apart.
LEMMA NextRead ==
  ASSUME Wired, IInv, ReadInv, BatchesApart, [Next]_vars
  PROVE  ReadInv'
<1>1. Grouped(dsl) /\ InScope(dsl)
  BY DEF Wired, IInv, TypeOK, PathTypes
<1>2. /\ Tasked /\ FillUpFirst /\ Fresh /\ JoinReads
      /\ phase # "idle" /\ FirstRun => Reading
  BY <1>1 DEF ReadInv, Reading
<1>3. Tasked' /\ FillUpFirst' /\ Fresh'
  BY <1>1, <1>2, NextTasked, NextFillUpFirst, NextFresh
<1>4. CASE phase' = "idle"
  <2>1. CASE phase # "idle"
    BY <1>1, <1>2, <1>3, <1>4, <2>1, LeaveReads DEF ReadInv
  <2>2. CASE phase = "idle"
    <3>1. UNCHANGED <<path, values>>
      BY <1>4, <2>2 DEF Next, Step, Run, StartBatch, Abandon, Defer, CreateTask, Gather, RunTask, Gathered,
              Post, FailedRun, Pause, Finish, NextBatch, Leave, Cancel, Crash, Reset, vars
    <3>2. JoinReads'
      BY <1>2, <3>1, SameDsl DEF JoinReads, FirstRun, values, N
    <3> QED BY <1>3, <1>4, <3>2 DEF ReadInv
  <2> QED BY <2>1, <2>2
<1>5. CASE Run
  <2>1. JoinReads'
    BY <1>5, SameDsl DEF Run, JoinReads, N
  <2>2. ASSUME FirstRun' PROVE BodiesStarted' /\ RanSettled' /\ Cursors'
    <3>1. Len(path') = 1 /\ path'[1] = "begin" /\ idx' = 1 /\ to' = 1
      BY <1>2, <1>5, <2>2, BeginAlone
    <3>2. path' \in Seq(N)
      BY NextInv, SameDsl DEF IInv, TypeOK, PathTypes, N
    <3>3. DOMAIN path' = {1}
      BY <3>1, <3>2
    <3>4. phase' = "batch" /\ cursor' = [c \in N |-> 0] /\ failed' = {}
      BY <1>5 DEF Run, N
    <3>5. BodiesStarted'
      BY <1>1, <3>1, <3>3, GroupFacts, SameDsl DEF BodiesStarted, InBody, InGroup, Parent
    <3>6. RanSettled'
      BY <3>1, <3>3, <3>4 DEF RanSettled, HasRun
    <3>7. Cursors'
      BY <3>4, SameDsl DEF Cursors
    <3> QED BY <3>5, <3>6, <3>7
  <2> QED BY <1>3, <2>1, <2>2 DEF ReadInv
<1>6. CASE phase # "idle" /\ phase' # "idle"
  <2>1. FirstRun' => Reading
    BY <1>1, <1>2, <1>6, FirstRunStep
  <2>2. CASE RunTask
    <3>1. FirstRun' => BodiesStarted' /\ RanSettled' /\ Cursors'
      BY <2>1, <2>2, TaskItems, TaskSettles
    <3>2. JoinReads'
      <4>1. FirstRun' => JoinReads'
        BY <2>1, <2>2, TaskReads
      <4> QED BY <4>1 DEF JoinReads
    <3> QED BY <1>3, <3>1, <3>2 DEF ReadInv
  <2>3. CASE ~RunTask
    <3>1. FirstRun' => BodiesStarted' /\ RanSettled' /\ Cursors'
      BY <1>6, <2>1, <2>3, DeferReads, PostReads, QuietReads
         DEF Next, Step, Run, Abandon, FailedRun, Pause, Finish, Leave, Crash
    <3>2. UNCHANGED <<outputs, inputs, failed>>
      BY <1>6, <2>3 DEF Next, Step, Run, StartBatch, Abandon, Defer, CreateTask, Gather, Gathered, Post,
             FailedRun, Pause, Finish, NextBatch, Leave, Cancel, Crash, Reset, vars, values
    <3>3. JoinReads'
      BY <2>1, <3>2, SameDsl DEF Reading, JoinReads, N
    <3> QED BY <1>3, <3>1, <3>3 DEF ReadInv
  <2> QED BY <2>2, <2>3
<1> QED BY <1>4, <1>5, <1>6
        DEF Next, Step, StartBatch, Abandon, Defer, CreateTask, Gather, RunTask, Gathered, Post,
            FailedRun, Pause, Finish, NextBatch, Cancel, Crash, Reset, vars

\* For all agents that follow the rules for groups and for the scope of
\* references: in a first run every component has read everything it refers to,
\* however its forks interleave, when no batch can hold a component behind one it
\* refers to.
THEOREM JoinsRead ==
  ASSUME Wired, \A d \in Canvases : Ordered(d)
  PROVE  Spec => []JoinReads
<1>1. Init => ReadInv
  <2>1. Init => ~FirstRun
    BY DEF Init, FirstRun
  <2> QED BY <2>1 DEF Init, ReadInv, Tasked, FillUpFirst, Fresh, JoinReads
<1>2. IInv /\ ReadInv /\ BatchesApart /\ [Next]_vars => ReadInv'
  BY NextRead
<1>3. ReadInv => JoinReads
  BY DEF ReadInv
<1> QED BY Inductive, StaysApart, <1>1, <1>2, <1>3, PTL DEF Spec

\* An agent without forks never runs two components at a time.
LEMMA ChainsTogether ==
  ASSUME NEW d \in Canvases, Unforked(d)
  PROVE  Together(d, {})
<1>1. /\ \A c \in Nodes(d) : d.parent[c] # Nothing => d.parent[c] \in Nodes(d)
      /\ d.downstream \in [Nodes(d) -> Seq(Nodes(d))] /\ d.goto \in [Nodes(d) -> Seq(Nodes(d))]
      /\ d.start \in [Nodes(d) -> Nodes(d)]
      /\ \A c \in Nodes(d) : d.cases[c] \subseteq Seq(Nodes(d))
  BY CanvasAssumption DEF WellFormed
<1>2. ASSUME NEW c \in Nodes(d), NEW s \in Lists(d, c), NEW k \in DOMAIN s, NEW l \in DOMAIN s, k < l
      PROVE  FALSE
  <2>1. s \in Seq(Nodes(d)) /\ Len(s) <= 1
    <3>1. \A x : Len(<<x>>) = 1
      OBVIOUS
    <3>2. \A x \in Nodes(d) : <<d.start[x]>> \in Seq(Nodes(d)) /\ Len(<<d.start[x]>>) <= 1
      BY <1>1, <3>1
    <3> QED BY <1>1, <1>2, <3>2 DEF Lists, Unforked
  <2> QED BY <1>2, <2>1
<1> QED BY <1>2 DEF Together

\* Agents without forks are a special case.
THEOREM ChainsRead ==
  ASSUME Wired, \A d \in Canvases : Unforked(d)
  PROVE  Spec => []JoinReads
<1>1. \A d \in Canvases : Together(d, {}) /\ Apart(d, {})
  BY ChainsTogether DEF Apart
<1> QED BY <1>1, JoinsRead DEF Ordered
=============================================================================
