----------------------------- MODULE CanvasRun -----------------------------
(***************************************************************************)
(* The execution of an agent on the server: Canvas.run of agent/canvas.py, *)
(* the components that steer it (Begin, UserFillUp, Iteration, Loop, their *)
(* items, ExitLoop, Switch and Categorize) and the handlers of             *)
(* canvas_app.py that start, cancel and reset it.                          *)
(*                                                                         *)
(* A run appends to the agent's path; the part from idx on is the batch    *)
(* whose components run at the same time.  The path is stored with the     *)
(* agent when a run ends, so that the next message goes on from it.        *)
(*                                                                         *)
(* Positions count from 1 and "to" is the last of the batch (in the code,  *)
(* from 0 and the first behind it).  "work" stands for every component     *)
(* that only computes its outputs, "switch" for Categorize as well.        *)
(***************************************************************************)
EXTENDS Integers, FiniteSets, Sequences

CONSTANTS
  Canvases,   \* the DSLs of this instance
  Nothing,    \* None: no parent, no output
  MaxTurns,   \* messages the user sends
  MaxFaults   \* invocations that fail

Kinds == {"begin", "userfillup", "work", "switch", "iteration",
          "iterationitem", "loop", "loopitem", "exitloop"}

Nodes(d) == DOMAIN d.kind

\* What Graph.load reads of a DSL.  start is get_start() of a group, cases
\* the lists a Switch may put into _next, default the components whose
\* exception method is a default value, count the items of an Iteration and
\* the maximum_loop_count of a Loop, collect the component an Iteration's
\* output refers to, guarded the Loops with a termination condition.
WellFormed(d) ==
  /\ "begin" \in Nodes(d)
  /\ d.kind \in [Nodes(d) -> Kinds] /\ d.kind["begin"] = "begin"
  /\ d.downstream \in [Nodes(d) -> Seq(Nodes(d))]
  /\ d.refs \in [Nodes(d) -> SUBSET Nodes(d)]
  /\ d.parent \in [Nodes(d) -> Nodes(d) \cup {Nothing}]
  /\ \A c \in Nodes(d) :
       d.kind[c] \in {"iterationitem", "loopitem"} => d.parent[c] # Nothing
  /\ d.start \in [Nodes(d) -> Nodes(d)]
  /\ \A c \in Nodes(d) : d.cases[c] \subseteq Seq(Nodes(d))
  /\ d.goto \in [Nodes(d) -> Seq(Nodes(d))]
  /\ d.default \subseteq Nodes(d)
  /\ d.count \in [Nodes(d) -> Nat]
  /\ d.collect \in [Nodes(d) -> Nodes(d)]
  /\ d.guarded \subseteq Nodes(d)

ASSUME CanvasAssumption ==
  /\ \A d \in Canvases : WellFormed(d) /\ Nothing \notin Nodes(d)
  /\ Nothing \notin Int
  /\ MaxTurns \in Nat
  /\ MaxFaults \in Nat

VARIABLES
  dsl,       \* the agent's DSL
  stored,    \* dsl["path"] in the database
  path,      \* self.path of the run
  idx, to,   \* the batch is path[idx..to]
  pos,       \* the position _run_batch or the post-processing is at
  phase,     \* where the run is; "idle" between two runs
  todo,      \* the positions whose task has not run
  outputs,   \* the output of every component, of this run
  inputs,    \* the references of a component that had a value when it ran
  failed,    \* the components with an output _ERROR
  cursor,    \* _idx of the items
  results,   \* the list an Iteration collects
  error,     \* self.error is set
  canceled,  \* "<task_id>-cancel" in Redis
  asked,     \* the last the user has seen is a user_inputs event
  turns,     \* runs started
  faults     \* invocations that failed

batch == <<idx, to, pos, todo>>

values == <<outputs, inputs, failed, cursor, results>>

vars == <<dsl, stored, path, batch, phase, values, error, canceled, asked, turns, faults>>

Outputs == Int \cup {Nothing}

Prefix(s, n) == SubSeq(s, 1, n)

RemoveAt(s, n) == [k \in 1 .. Len(s) - 1 |-> IF k < n THEN s[k] ELSE s[k + 1]]

Occurs(c, s) == \E k \in DOMAIN s : s[k] = c

Is(c, kind) == dsl.kind[c] = kind

IsItem(c) == dsl.kind[c] \in {"iterationitem", "loopitem"}

Parent(c) == dsl.parent[c]

InGroup(c, kind) == Parent(c) # Nothing /\ Is(Parent(c), kind)

Init ==
  /\ dsl \in Canvases
  /\ stored = <<>>
  /\ path = <<>>
  /\ idx = 1 /\ to = 0 /\ pos = 1 /\ todo = {}
  /\ phase = "idle"
  /\ outputs = [c \in Nodes(dsl) |-> Nothing]
  /\ inputs = [c \in Nodes(dsl) |-> {}]
  /\ failed = {}
  /\ cursor = [c \in Nodes(dsl) |-> 0]
  /\ results = [c \in Nodes(dsl) |-> <<>>]
  /\ error = FALSE
  /\ canceled = FALSE
  /\ asked = FALSE
  /\ turns = 0
  /\ faults = 0

----------------------------------------------------------------------------
(* Starting a run.                                                         *)

\* Mutant: the end of the stored path is not looked at.
ResumeAnew(p) == Append(p, "begin")

\* The path the next message goes on from: a fill-up at its end waits for
\* the message, anything else begins the workflow anew.
Resume(p) ==
  IF p # <<>> /\ Is(p[Len(p)], "userfillup") THEN p ELSE Append(p, "begin")

\* Canvas(dsl) makes new components, run() clears the outputs they had.
Run ==
  /\ phase = "idle"
  /\ turns < MaxTurns
  /\ turns' = turns + 1
  /\ path' = Resume(stored)
  /\ idx' = Len(path')
  /\ to' = Len(path')
  /\ pos' = Len(path')
  /\ phase' = "batch"
  /\ outputs' = [c \in Nodes(dsl) |-> Nothing]
  /\ cursor' = [c \in Nodes(dsl) |-> 0]
  /\ results' = [c \in Nodes(dsl) |-> <<>>]
  /\ failed' = {}
  /\ error' = FALSE
  /\ canceled' = FALSE
  /\ asked' = FALSE
  /\ UNCHANGED <<dsl, stored, todo, inputs, faults>>

----------------------------------------------------------------------------
(* _run_batch: one task for every component of the batch that is ready.    *)

StartBatch ==
  /\ phase = "batch"
  /\ ~canceled
  /\ phase' = "start"
  /\ pos' = idx
  /\ UNCHANGED <<dsl, stored, path, idx, to, todo, values, error, canceled, asked, turns, faults>>

\* TaskCanceledException: canvas_app.run answers with it and stores nothing.
Abandon ==
  /\ phase = "batch"
  /\ canceled
  /\ phase' = "idle"
  /\ UNCHANGED <<dsl, stored, path, batch, values, error, canceled, asked, turns, faults>>

\* Mutant: the whole path is searched, the batch behind n included.
WaitsInAll(p, n) ==
  /\ dsl.kind[p[n]] \notin {"begin", "userfillup"}
  /\ ~Is(p[1], "userfillup")
  /\ \E r \in dsl.refs[p[n]] : ~Occurs(r, p)

\* Mutant: one reference that has run is enough.
WaitsForAny(p, n) ==
  /\ dsl.kind[p[n]] \notin {"begin", "userfillup"}
  /\ ~Is(p[1], "userfillup")
  /\ dsl.refs[p[n]] # {} /\ \A r \in dsl.refs[p[n]] : ~Occurs(r, Prefix(p, n - 1))

\* A component waits while one it refers to is not in the path before it,
\* unless the run answers a fill-up: the path then starts with that.
Waits(p, n) ==
  /\ dsl.kind[p[n]] \notin {"begin", "userfillup"}
  /\ ~Is(p[1], "userfillup")
  /\ \E r \in dsl.refs[p[n]] : ~Occurs(r, Prefix(p, n - 1))

\* Mutant: the end of the batch stays where it was.
DeferKeepsEnd ==
  /\ phase = "start"
  /\ pos <= to
  /\ Waits(path, pos)
  /\ path' = RemoveAt(path, pos)
  /\ UNCHANGED <<dsl, stored, batch, phase, values, error, canceled, asked, turns, faults>>

\* Mutant: a component that waits goes to the end of its batch.
DeferToEnd ==
  /\ phase = "start"
  /\ pos <= to
  /\ Waits(path, pos)
  /\ path' = Append(RemoveAt(path, pos), path[pos])
  /\ UNCHANGED <<dsl, stored, batch, phase, values, error, canceled, asked, turns, faults>>

\* A component that waits leaves the path; what it waits for leads to it.
Defer ==
  /\ phase = "start"
  /\ pos <= to
  /\ Waits(path, pos)
  /\ path' = RemoveAt(path, pos)
  /\ to' = to - 1
  /\ UNCHANGED <<dsl, stored, idx, pos, phase, todo, values, error, canceled, asked, turns, faults>>

CreateTask ==
  /\ phase = "start"
  /\ pos <= to
  /\ ~Waits(path, pos)
  /\ todo' = todo \cup {pos}
  /\ pos' = pos + 1
  /\ UNCHANGED <<dsl, stored, path, idx, to, phase, values, error, canceled, asked, turns, faults>>

\* Mutant: a batch whose components all wait is waited for.
GatherSome ==
  /\ phase = "start"
  /\ pos > to
  /\ todo # {}
  /\ phase' = "gather"
  /\ UNCHANGED <<dsl, stored, path, batch, values, error, canceled, asked, turns, faults>>

Gather ==
  /\ phase = "start"
  /\ pos > to
  /\ phase' = "gather"
  /\ UNCHANGED <<dsl, stored, path, batch, values, error, canceled, asked, turns, faults>>

----------------------------------------------------------------------------
(* The components of the batch, in any order.                              *)

\* A component inside an Iteration computes on the item it is at.
Work(c) ==
  IF InGroup(c, "iteration") THEN outputs[dsl.start[Parent(c)]] ELSE 0

\* arr[_idx]: the index -1 of an ended Iteration is Python's last item.
ItemAt(k, n) == IF k < 0 THEN n - 1 ELSE k

\* Mutant: the first item collects as well.
NextItemCollects(c) ==
  LET it == Parent(c)
      n == dsl.count[it]
      k == cursor[c]
  IN  /\ k >= 0 \/ n > 0
      /\ results' = [results EXCEPT ![it] = Append(@, outputs[dsl.collect[it]])]
      /\ IF k >= n
           THEN /\ cursor' = [cursor EXCEPT ![c] = -1]
                /\ outputs' = outputs
           ELSE /\ cursor' = [cursor EXCEPT ![c] = k + 1]
                /\ outputs' = [outputs EXCEPT ![c] = ItemAt(k, n)]

\* IterationItem._invoke: the first item collects nothing.
NextItem(c) ==
  LET it == Parent(c)
      n == dsl.count[it]
      k == cursor[c]
  IN  /\ k >= 0 \/ n > 0
      /\ results' = IF k > 0
                      THEN [results EXCEPT ![it] =
                              Append(@, outputs[dsl.collect[it]])]
                      ELSE results
      /\ IF k >= n
           THEN /\ cursor' = [cursor EXCEPT ![c] = -1]
                /\ outputs' = outputs
           ELSE /\ cursor' = [cursor EXCEPT ![c] = k + 1]
                /\ outputs' = [outputs EXCEPT ![c] = ItemAt(k, n)]

\* Mutant: one round too many.
NextRoundLate(c) ==
  /\ cursor' = [cursor EXCEPT ![c] = IF @ > dsl.count[Parent(c)] THEN -1 ELSE @ + 1]
  /\ UNCHANGED <<outputs, results>>

\* LoopItem._invoke.
NextRound(c) ==
  /\ cursor' = [cursor EXCEPT ![c] = IF @ >= dsl.count[Parent(c)] THEN -1 ELSE @ + 1]
  /\ UNCHANGED <<outputs, results>>

\* A component reads the references it finds and computes its outputs; a
\* default value that invoke() puts in the place of an exception is one.
Invoke(n) ==
  LET c == path[n] IN
  /\ inputs' = [inputs EXCEPT ![c] = {r \in dsl.refs[c] : outputs[r] # Nothing}]
  /\ IF Is(c, "iterationitem") THEN NextItem(c)
     ELSE IF Is(c, "loopitem") THEN NextRound(c)
     ELSE /\ outputs' = [outputs EXCEPT ![c] = Work(c)]
          /\ UNCHANGED <<cursor, results>>
  /\ canceled => dsl.kind[c] \in {"work", "exitloop"}
  /\ UNCHANGED <<failed, faults>>

\* An error, or check_if_canceled of a canceled task: _ERROR is set and the
\* outputs stay as they were.
Fail(n) ==
  LET c == path[n] IN
  /\ \/ /\ canceled
        /\ ~Is(c, "exitloop")
        /\ faults' = faults
     \/ /\ dsl.kind[c] \in {"work", "switch", "iteration", "loop"}
        /\ faults < MaxFaults
        /\ faults' = faults + 1
  /\ failed' = failed \cup {c}
  /\ UNCHANGED <<outputs, inputs, cursor, results>>

RunTask ==
  /\ phase = "gather"
  /\ \E n \in todo :
       /\ todo' = todo \ {n}
       /\ Invoke(n) \/ Fail(n)
  /\ UNCHANGED <<dsl, stored, path, idx, to, pos, phase, error, canceled, asked, turns>>

\* gather() returns.
Gathered ==
  /\ phase = "gather"
  /\ todo = {}
  /\ phase' = "post"
  /\ pos' = idx
  /\ UNCHANGED <<dsl, stored, path, idx, to, todo, values, error, canceled, asked, turns, faults>>

----------------------------------------------------------------------------
(* Post-processing: where each component of the batch leads.               *)

\* _extend_path leaves out what already is the last of the path.
Extend(p, s) ==
  IF s # <<>> /\ p # <<>> /\ p[Len(p)] = s[1] THEN p \o Tail(s) ELSE p \o s

\* The item of a Loop ends when the condition of the Loop holds; all([]) of
\* a Loop without one is true.
MayEnd(c) == cursor[c] = -1 \/ Is(c, "loopitem")

MayContinue(c) == cursor[c] # -1 /\ (Is(c, "loopitem") => Parent(c) \in dsl.guarded)

\* Mutant: an ExitLoop is a leaf like any other.
OnwardNoExit(c) ==
  IF Is(c, "iteration") \/ Is(c, "loop")
    THEN <<dsl.start[c]>>
  ELSE IF dsl.downstream[c] = <<>> /\ Parent(c) # Nothing
    THEN <<dsl.start[Parent(c)]>>
  ELSE dsl.downstream[c]

\* What a component without an end of its own leads to: a leaf of a group
\* leads back to the group's item.
Onward(c) ==
  IF Is(c, "iteration") \/ Is(c, "loop")
    THEN <<dsl.start[c]>>
  ELSE IF Is(c, "exitloop") /\ InGroup(c, "loop")
    THEN dsl.downstream[Parent(c)]
  ELSE IF dsl.downstream[c] = <<>> /\ Parent(c) # Nothing
    THEN <<dsl.start[Parent(c)]>>
  ELSE dsl.downstream[c]

Lead(c) ==
  \/ /\ IsItem(c) /\ MayEnd(c)
     /\ path' = Extend(path, dsl.downstream[Parent(c)])
     /\ cursor' = [cursor EXCEPT ![c] = -1]
  \/ /\ IsItem(c) /\ MayContinue(c)
     /\ path' = Extend(path, Onward(c))
     /\ UNCHANGED cursor
  \/ /\ Is(c, "switch")
     /\ \E s \in dsl.cases[c] \cup {t \in {<<>>} : c \in failed} :
          path' = Extend(path, s)
     /\ UNCHANGED cursor
  \/ /\ ~IsItem(c) /\ ~Is(c, "switch")
     /\ path' = Extend(path, Onward(c))
     /\ UNCHANGED cursor

\* The exception branch replaces the normal one; without it and without a
\* default value the run has failed.
Post ==
  /\ phase = "post"
  /\ pos <= to
  /\ LET c == path[pos] IN
     IF c \in failed /\ dsl.goto[c] # <<>>
       THEN /\ path' = path \o dsl.goto[c]
            /\ UNCHANGED <<cursor, error>>
       ELSE /\ error' = (error \/ (c \in failed /\ c \notin dsl.default))
            /\ Lead(c)
  /\ pos' = pos + 1
  /\ UNCHANGED <<dsl, stored, idx, to, phase, todo, outputs, inputs, failed, results,
                 canceled, asked, turns, faults>>

----------------------------------------------------------------------------
(* The end of a batch.                                                     *)

Ahead == SubSeq(path, to + 1, Len(path))

Asks(s) == \E k \in DOMAIN s : Is(s[k], "userfillup")

\* The order q takes s in: its fill-ups, then the others, each as they come.
FillUpsFirst(s, q) ==
  /\ \A k \in DOMAIN s : \E j \in DOMAIN s : q[j] = k
  /\ \A j, k \in DOMAIN s :
       j < k => /\ Is(s[q[k]], "userfillup") => Is(s[q[j]], "userfillup")
                /\ Is(s[q[j]], "userfillup") = Is(s[q[k]], "userfillup") => q[j] < q[k]

\* canvas_app.run stores the agent with the path the run leaves.
Leave(p) ==
  /\ path' = p
  /\ stored' = p
  /\ phase' = "idle"
  /\ UNCHANGED <<dsl, batch, values, error, canceled, turns, faults>>

\* break: the batch that failed is not part of the path.
FailedRun ==
  /\ phase = "post" /\ pos > to
  /\ error
  /\ Leave(Prefix(path, idx - 1))
  /\ UNCHANGED asked

\* A fill-up is due: the run stops there and asks for its inputs.
Pause ==
  /\ phase = "post" /\ pos > to
  /\ ~error
  /\ Asks(Ahead)
  /\ \E q \in [DOMAIN Ahead -> DOMAIN Ahead] :
       /\ FillUpsFirst(Ahead, q)
       /\ Leave([k \in DOMAIN Ahead |-> Ahead[q[k]]])
  /\ asked' = TRUE

Finish ==
  /\ phase = "post" /\ pos > to
  /\ ~error
  /\ Ahead = <<>>
  /\ Leave(path)
  /\ UNCHANGED asked

NextBatch ==
  /\ phase = "post" /\ pos > to
  /\ ~error
  /\ Ahead # <<>>
  /\ ~Asks(Ahead)
  /\ idx' = to + 1
  /\ to' = Len(path)
  /\ phase' = "batch"
  /\ UNCHANGED <<dsl, stored, path, pos, todo, values, error, canceled, asked, turns, faults>>

----------------------------------------------------------------------------
(* What happens to a run from outside.                                     *)

\* canvas_app.cancel sets the key of the task.
Cancel ==
  /\ phase # "idle"
  /\ ~canceled
  /\ canceled' = TRUE
  /\ UNCHANGED <<dsl, stored, path, batch, phase, values, error, asked, turns, faults>>

\* The server stops, or run() raises: the agent is not stored.
Crash ==
  /\ phase # "idle"
  /\ phase' = "idle"
  /\ todo' = {}
  /\ UNCHANGED <<dsl, stored, path, idx, to, pos, values, error, canceled, asked, turns, faults>>

\* canvas_app.reset.
Reset ==
  /\ stored # <<>>
  /\ stored' = <<>>
  /\ asked' = FALSE
  /\ UNCHANGED <<dsl, path, batch, phase, values, error, canceled, turns, faults>>

Step ==
  \/ StartBatch \/ Abandon
  \/ Defer \/ CreateTask \/ Gather
  \/ RunTask \/ Gathered
  \/ Post
  \/ FailedRun \/ Pause \/ Finish \/ NextBatch

Next == Run \/ Step \/ Cancel \/ Crash \/ Reset

Spec == Init /\ [][Next]_vars

\* An invocation ends, at the latest with its timeout; the run goes on.
FairSpec == Spec /\ WF_vars(Step)
----------------------------------------------------------------------------
(* Properties.                                                             *)

PathTypes ==
  /\ dsl \in Canvases
  /\ stored \in Seq(Nodes(dsl))
  /\ path \in Seq(Nodes(dsl))
  /\ idx \in Nat \ {0} /\ to \in Nat /\ pos \in Nat \ {0}
  /\ todo \subseteq 1 .. to
  /\ phase # "idle" => path # <<>> /\ to <= Len(path)

ValueTypes ==
  /\ outputs \in [Nodes(dsl) -> Outputs]
  /\ inputs \in [Nodes(dsl) -> SUBSET Nodes(dsl)]
  /\ failed \subseteq Nodes(dsl)
  /\ cursor \in [Nodes(dsl) -> Int]
  /\ results \in [Nodes(dsl) -> Seq(Outputs)]

FlagTypes ==
  /\ phase \in {"idle", "batch", "start", "gather", "post"}
  /\ error \in BOOLEAN /\ canceled \in BOOLEAN /\ asked \in BOOLEAN
  /\ turns \in 0 .. MaxTurns /\ faults \in 0 .. MaxFaults

\* Every variable has its type; the batch lies in the path.
TypeOK == PathTypes /\ ValueTypes /\ FlagTypes

\* The positions of the batch whose tasks exist.
Created ==
  CASE phase = "start" -> idx .. pos - 1
    [] phase \in {"gather", "post"} -> idx .. to
    [] OTHER -> {}

Preceded(p, n) ==
  \/ dsl.kind[p[n]] \in {"begin", "userfillup"}
  \/ Is(p[1], "userfillup")
  \/ \A r \in dsl.refs[p[n]] : Occurs(r, Prefix(p, n - 1))

\* Whatever leaves and joins the path, a component that runs finds what it
\* refers to in the path before it.
JoinWaits == \A n \in Created : Preceded(path, n)

\* The path is that of a conversation's first message.
FirstRun ==
  /\ path # <<>>
  /\ path[1] = "begin"
  /\ \A k \in 2 .. Len(path) : path[k] # "begin"

\* The components of the run's batches up to this one.
Ran == IF phase = "idle" THEN <<>> ELSE Prefix(path, to)

\* In the first run no component starts beside one it refers to that has not
\* run before: what a batch refers to ran in earlier batches.
BatchesApart ==
  FirstRun /\ phase = "gather" =>
    \A n \in idx .. to : \A r \in dsl.refs[path[n]] :
      Occurs(r, Prefix(path, n - 1)) => Occurs(r, Prefix(path, idx - 1))

\* In the first run a component that has run has read everything it refers
\* to, however the branches that lead to it interleave.
JoinReads ==
  FirstRun =>
    \A c \in Nodes(dsl) :
      outputs[c] # Nothing => dsl.refs[c] \subseteq inputs[c] \cup failed

\* What follows an Iteration finds one result for each of its items, in
\* order: "apply its built-in component workflow to each segment".
ItemsMapped ==
  FirstRun /\ failed = {} =>
    \A it \in Nodes(dsl) :
      (/\ Is(it, "iteration")
       /\ \E k \in DOMAIN dsl.downstream[it] : Occurs(dsl.downstream[it][k], Ran))
        => results[it] = [k \in 1 .. dsl.count[it] |-> k - 1]

\* No component of a Loop runs more often than its maximum_loop_count.
LoopBounded ==
  FirstRun =>
    \A c \in Nodes(dsl) :
      InGroup(c, "loop") /\ ~IsItem(c)
        => Cardinality({k \in DOMAIN Ran : Ran[k] = c}) <= dsl.count[Parent(c)]

\* Nothing of a Loop runs after its ExitLoop did.
ExitEnds ==
  FirstRun =>
    \A m, n \in DOMAIN Ran :
      m < n /\ Is(Ran[m], "exitloop") => Parent(Ran[n]) # Parent(Ran[m])

\* A run that answers a fill-up goes on from it and does not begin anew:
\* "waits for the user's message before continuing".
AwaitContinues ==
  [][asked /\ turns' # turns => ~Occurs("begin", path')]_vars

\* Every run ends.
RunEnds == phase # "idle" ~> phase = "idle"
=============================================================================
