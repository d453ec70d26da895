------------------------ MODULE CanvasWalkProofs ------------------------
(***************************************************************************)
(* Agents that iterate or loop and whose groups run alone (GroupsChained   *)
(* of CanvasShapes), with forks before and behind them: in its groups the  *)
(* path is a walk through the DSL.  An ExitLoop ends its Loop, a Loop's    *)
(* body runs as often as it allows, and an Iteration collects one result   *)
(* for each item, for every set of such DSLs and any number of messages    *)
(* and of faults.                                                          *)
(***************************************************************************)
EXTENDS CanvasRunProofs, FiniteSetTheorems

----------------------------------------------------------------------------
(* The invariant.                                                          *)

\* The pairs of components that a batch may hold.
Pairs(d) == CHOOSE P : Together(d, P) /\ FreeOnly(d, P)

\* What is in a group, and a group itself, is alone in its batch.
Solo ==
  phase # "idle" =>
    /\ phase # "post" \/ pos <= idx => Len(path) = to
    /\ to < idx => Len(path) = to
    /\ \A k, l \in idx .. to : k # l => Free(dsl, path[k])
    /\ \A k, l \in to + 1 .. Len(path) : k # l => Free(dsl, path[k])
    /\ idx < to => \A k \in idx .. Len(path) : Parent(path[k]) = Nothing

\* A component's place in the order that the edges give.
RankOf(d) == CHOOSE r : Ranks(d, r)

Rank == RankOf(dsl)

\* Where c is in the workflow: at its group's place if it is in one.
Level(c) == Rank[IF Parent(c) = Nothing THEN c ELSE Parent(c)]

Body(g) == {c \in N : Parent(c) = g /\ c # dsl.start[g]}

CountIn(p, c) == Cardinality({k \in DOMAIN p : p[k] = c})

Upto(m) == [k \in 1 .. m |-> k - 1]

Last == path[Len(path)]

\* The component at the end of the path has run, if it is alone in its batch.
Invoked == Len(path) = to /\ (phase = "post" \/ (phase = "gather" /\ todo = {}))

\* ExitLoop never fails: it does not look whether the run is canceled.
ExitsWork == \A c \in failed : ~Is(c, "exitloop")

\* From a group and from what is in it the path goes on at its level, and
\* higher when it has left the group.
Upward ==
  \A j, k \in DOMAIN path : j < k /\ ~Free(dsl, path[j]) =>
    /\ Level(path[j]) <= Level(path[k])
    /\ Is(path[j], "exitloop") \/ (\E m \in j + 1 .. k : Parent(path[m]) = Nothing)
         => Level(path[j]) < Level(path[k])

Loops == {c \in N : Is(c, "loop")}

Iterations == {c \in N : Is(c, "iteration")}

\* Where a Loop is on the path p when its item's cursor is k: before the item
\* no round has been; at the item as many as the cursor says; in the body one
\* more for those ahead.  ran: the last of p has run; bad: the item has failed.
LoopAt(lo, p, k, ran, bad) ==
  LET i == dsl.start[lo]
      last == p[Len(p)]
      Times(n) == \A c \in Body(lo) : CountIn(p, c) <= n
  IN  /\ Times(dsl.count[lo])
      /\ ~Occurs(i, p) => k = 0 /\ Times(0)
      /\ last = i /\ ~ran => k \in 0 .. dsl.count[lo] /\ Times(k)
      /\ last = i /\ ran /\ ~bad => k = -1 \/ (k \in 1 .. dsl.count[lo] /\ Times(k - 1))
      /\ last \in Body(lo) =>
           /\ k \in 1 .. dsl.count[lo] /\ Times(k)
           /\ \A c \in Body(lo) : Rank[c] > Rank[last] => CountIn(p, c) <= k - 1

LoopIs(lo) == LoopAt(lo, path, cursor[dsl.start[lo]], Invoked, dsl.start[lo] \in failed)

LoopsOK ==
  /\ \A lo \in Loops : \A c \in Body(lo) : CountIn(Prefix(path, to), c) <= dsl.count[lo]
  /\ ~error /\ idx <= to => \A lo \in Loops : LoopIs(lo)

\* Where an Iteration is on the path p: what its item's cursor k, the outputs
\* and its list say.
IterationAt(it, p, k, ran, out, list) ==
  LET i == dsl.start[it]
      last == p[Len(p)]
  IN  /\ ~Occurs(i, p) => k = 0 /\ list = Upto(0)
      /\ last = i /\ ~ran =>
           /\ k \in 0 .. dsl.count[it]
           /\ k = 0 => list = Upto(0)
           /\ k > 0 => list = Upto(k - 1) /\ out[dsl.collect[it]] = k - 1
      /\ last = i /\ ran =>
           \/ k = -1 /\ list = Upto(dsl.count[it])
           \/ k \in 1 .. dsl.count[it] /\ out[i] = k - 1 /\ list = Upto(k - 1)
      /\ last \in Body(it) =>
           /\ k \in 1 .. dsl.count[it] /\ out[i] = k - 1 /\ list = Upto(k - 1)
           /\ ran => out[last] = k - 1

IterationIs(it) == IterationAt(it, path, cursor[dsl.start[it]], Invoked, outputs, results[it])

\* What follows an Iteration is in the path; it comes behind the item.
Behind(it) == \E x \in N : Occurs(x, dsl.downstream[it]) /\ Occurs(x, path)

ItemFirst(it) ==
  \A k \in DOMAIN path :
    Occurs(path[k], dsl.downstream[it]) => \E j \in 1 .. k - 1 : path[j] = dsl.start[it]

ItemsOK ==
  failed = {} =>
    \A it \in Iterations :
      /\ ItemFirst(it)
      /\ Behind(it) => results[it] = Upto(dsl.count[it])
      /\ idx <= to => IterationIs(it)

WalkInv ==
  Steered(dsl) =>
    /\ Tasked /\ FillUpFirst /\ ExitsWork
    /\ phase # "idle" /\ FirstRun => Upward /\ LoopsOK /\ ItemsOK

----------------------------------------------------------------------------
(* What runs beside what.                                                  *)

\* What chained DSLs give.
LEMMA Chains ==
  ASSUME IInv, GroupsChained, Steered(dsl)
  PROVE  Chained(dsl) /\ Ranks(dsl, Rank) /\ Together(dsl, Pairs(dsl)) /\ FreeOnly(dsl, Pairs(dsl))
<1>1. dsl \in Canvases
  BY DEF IInv, TypeOK, PathTypes
<1>2. Chained(dsl)
  BY <1>1 DEF GroupsChained
<1>3. \E r : Ranks(dsl, r)
  BY <1>2 DEF Chained
<1>4. \E P : Together(dsl, P) /\ FreeOnly(dsl, P)
  BY <1>2 DEF Chained, GroupsAlone
<1> QED BY <1>2, <1>3, <1>4 DEF Rank, RankOf, Pairs

\* In the order of a DSL whose groups run alone.
LEMMA OrderSolo ==
  ASSUME IInv, Grouped(dsl), NEW P, FreeOnly(dsl, P), InOrder(P)
  PROVE  Solo
<1> SUFFICES ASSUME phase # "idle"
             PROVE  /\ phase # "post" \/ pos <= idx => Len(path) = to
                    /\ to < idx => Len(path) = to
                    /\ \A k, l \in idx .. to : k # l => Free(dsl, path[k])
                    /\ \A k, l \in to + 1 .. Len(path) : k # l => Free(dsl, path[k])
                    /\ idx < to => \A k \in idx .. Len(path) : Parent(path[k]) = Nothing
  BY DEF Solo
<1>1. /\ path \in Seq(N) /\ Len(path) \in Nat /\ DOMAIN path = 1 .. Len(path)
      /\ to \in Nat /\ to <= Len(path) /\ idx \in Nat \ {0} /\ idx <= to + 1 /\ pos \in Nat \ {0}
  BY RunPlace
<1>2. /\ Len(path) \in Nat /\ to \in Nat /\ idx \in Nat /\ pos \in Nat
      /\ to <= Len(path) /\ idx <= to + 1 /\ (phase = "post" => idx <= pos /\ pos <= to + 1)
  BY <1>1, RunPlace
<1>3. /\ phase # "post" => Len(path) = to
      /\ \A k, l \in idx .. to : k < l => <<path[k], path[l]>> \in P
      /\ \A k, l \in to + 1 .. Len(path) : k < l => <<path[k], path[l]>> \in P
      /\ \A k \in to + 1 .. Len(path) :
           \E m \in idx .. pos - 1 : \E s \in Lists(dsl, path[m]) : Occurs(path[k], s)
  BY DEF InOrder
<1>4. \A x, y : <<x, y>> \in P => Free(dsl, x) /\ Free(dsl, y)
  <2> SUFFICES ASSUME NEW x, NEW y, <<x, y>> \in P PROVE Free(dsl, x) /\ Free(dsl, y)
    OBVIOUS
  <2>1. Free(dsl, <<x, y>>[1]) /\ Free(dsl, <<x, y>>[2])
    BY DEF FreeOnly
  <2> QED BY <2>1
<1>5. phase # "post" \/ pos <= idx => Len(path) = to
  <2> SUFFICES ASSUME phase = "post", pos <= idx, Len(path) # to PROVE FALSE
    BY <1>3
  <2>1. Len(path) \in to + 1 .. Len(path)
    BY <1>2
  <2>2. idx .. pos - 1 = {}
    BY <1>2
  <2> QED BY <1>3, <2>1, <2>2
<1>6. to < idx => Len(path) = to
  BY <1>5, <1>2
<1>7. \A k, l \in idx .. to : k # l => Free(dsl, path[k])
  <2> SUFFICES ASSUME NEW k \in idx .. to, NEW l \in idx .. to, k # l PROVE Free(dsl, path[k])
    OBVIOUS
  <2>1. k < l \/ l < k
    BY <1>1
  <2> QED BY <1>3, <1>4, <2>1
<1>8. \A k, l \in to + 1 .. Len(path) : k # l => Free(dsl, path[k])
  <2> SUFFICES ASSUME NEW k \in to + 1 .. Len(path), NEW l \in to + 1 .. Len(path), k # l
               PROVE  Free(dsl, path[k])
    OBVIOUS
  <2>1. k < l \/ l < k
    BY <1>1
  <2> QED BY <1>3, <1>4, <2>1
<1>9. ASSUME idx < to, NEW k \in idx .. Len(path) PROVE Parent(path[k]) = Nothing
  <2>1. \A l \in idx .. to : Free(dsl, path[l])
    BY <1>1, <1>7, <1>9
  <2>2. CASE k \in idx .. to
    BY <2>1, <2>2 DEF Free, Parent
  <2>3. CASE k \in to + 1 .. Len(path)
    <3>1. phase = "post"
      BY <1>3, <1>2, <2>3
    <3>2. PICK m \in idx .. pos - 1 : \E s \in Lists(dsl, path[m]) : Occurs(path[k], s)
      BY <1>3, <2>3
    <3>3. m \in idx .. to /\ path[m] \in N /\ path[k] \in N
      <4>1. m \in idx .. to /\ m \in 1 .. Len(path) /\ k \in 1 .. Len(path)
        BY <1>1, <1>2, <2>3, <3>1
      <4> QED BY <1>1, <4>1
    <3>4. Parent(path[m]) = Nothing /\ ~Group(dsl, path[m])
      BY <2>1, <3>3 DEF Free, Parent
    <3>5. LeadsTo(dsl, path[m], path[k])
      BY <3>2, <3>4 DEF Lists, LeadsTo, Parent
    <3> QED BY <3>3, <3>4, <3>5 DEF Grouped, N, Parent
  <2> QED BY <1>1, <1>9, <2>2, <2>3
<1> QED BY <1>5, <1>6, <1>7, <1>8, <1>9

\* Groups stay alone.
LEMMA StaysSolo ==
  ASSUME GroupsChained
  PROVE  Spec => [](Steered(dsl) => Solo)
<1> DEFINE Inv == Steered(dsl) => InOrder(Pairs(dsl))
<1>1. Init => Inv
  BY DEF Init, InOrder
<1>2. ASSUME IInv, Inv, [Next]_vars PROVE Inv'
  <2>1. dsl' = dsl
    BY <1>2, SameDsl
  <2> SUFFICES ASSUME Steered(dsl) PROVE InOrder(Pairs(dsl))'
    BY <2>1
  <2> DEFINE P == Pairs(dsl)
  <2>2. Together(dsl, P) /\ InOrder(P) /\ P' = P
    BY <1>2, <2>1, Chains
  <2> HIDE DEF P
  <2>3. InOrder(P)'
    BY <1>2, <2>2, NextInOrder
  <2> QED BY <2>3 DEF P
<1>3. ASSUME IInv, Inv PROVE Steered(dsl) => Solo
  BY <1>3, Chains, OrderSolo DEF Chained
<1> HIDE DEF Inv
<1> QED BY Inductive, <1>1, <1>2, <1>3, PTL DEF Spec

\* Where the batch of a run is whose groups run alone.
LEMMA SoloPlace ==
  ASSUME IInv, Solo, phase # "idle"
  PROVE  /\ path \in Seq(N) /\ path # <<>> /\ Len(path) \in Nat \ {0} /\ DOMAIN path = 1 .. Len(path)
         /\ Last \in N /\ to \in Nat /\ to <= Len(path) /\ idx \in Nat \ {0} /\ idx <= to + 1
         /\ pos \in Nat \ {0}
         /\ phase \in {"start", "post"} => idx <= pos /\ pos <= to + 1
         /\ phase # "post" \/ pos <= idx \/ to < idx => Len(path) = to
         /\ idx < to => Parent(Last) = Nothing
<1>1. /\ path \in Seq(N) /\ path # <<>> /\ Len(path) \in Nat /\ DOMAIN path = 1 .. Len(path)
      /\ to \in Nat /\ to <= Len(path) /\ idx \in Nat \ {0} /\ idx <= to + 1
      /\ pos \in Nat \ {0}
      /\ phase \in {"start", "post"} => idx <= pos /\ pos <= to + 1
  BY RunPlace
<1>2. Len(path) \in Nat \ {0} /\ Last \in N
  <2>1. Len(path) # 0
    BY <1>1, EmptySeq
  <2> QED BY <1>1, <2>1 DEF Last
<1>3. phase # "post" \/ pos <= idx \/ to < idx => Len(path) = to
  BY DEF Solo
<1>4. idx < to => Parent(Last) = Nothing
  <2>1. idx < to => Len(path) \in idx .. Len(path)
    BY <1>1
  <2> QED BY <2>1 DEF Solo, Last
<1> QED BY <1>1, <1>2, <1>3, <1>4

\* The last component of a path.
LEMMA LastOccurs ==
  ASSUME path \in Seq(N), path # <<>>
  PROVE  Last \in N /\ Len(path) \in DOMAIN path /\ Occurs(Last, path)
<1>1. Len(path) \in DOMAIN path
  <2>1. Len(path) \in Nat /\ Len(path) # 0 /\ DOMAIN path = 1 .. Len(path)
    BY EmptySeq
  <2> QED BY <2>1
<1> QED BY <1>1 DEF Last, Occurs

\* The component that is post-processed.
LEMMA PostPlace ==
  ASSUME IInv, Solo, Post
  PROVE  /\ phase = "post" /\ pos \in idx .. to /\ path[pos] \in N
         /\ ~Free(dsl, path[pos]) => idx = to /\ pos = to /\ Len(path) = to /\ Last = path[pos]
         /\ Free(dsl, path[pos]) => \A k \in idx .. Len(path) : Parent(path[k]) = Nothing
<1>1. phase = "post" /\ pos \in idx .. to /\ path[pos] \in N
  BY SoloPlace DEF Post
<1>2. idx = to => pos = to /\ Len(path) = to
  BY <1>1, SoloPlace
<1>3. ASSUME ~Free(dsl, path[pos]) PROVE idx = to
  <2>1. idx # to => \E l \in idx .. to : l # pos
    BY <1>1, SoloPlace
  <2> QED BY <1>1, <1>3, <2>1 DEF Solo
<1>4. ASSUME Free(dsl, path[pos]), NEW k \in idx .. Len(path) PROVE Parent(path[k]) = Nothing
  <2>1. CASE idx < to
    BY <1>1, <1>4, <2>1 DEF Solo
  <2>2. CASE idx = to
    <3>1. k = pos
      BY <1>2, <1>4, <2>2, SoloPlace
    <3> QED BY <1>4, <3>1 DEF Free, Parent
  <2> QED BY <1>1, <2>1, <2>2, SoloPlace
<1> QED BY <1>1, <1>2, <1>3, <1>4 DEF Last

\* ExitsWork is inductive.
LEMMA NextExitsWork ==
  ASSUME IInv, ExitsWork, [Next]_vars
  PROVE  ExitsWork'
<1>1. CASE RunTask
  <2>1. PICK n \in todo : Invoke(n) \/ Fail(n)
    BY <1>1 DEF RunTask
  <2>2. CASE Invoke(n)
    BY <1>1, <2>2 DEF Invoke, RunTask, ExitsWork, Is
  <2>3. CASE Fail(n)
    <3>1. ~Is(path[n], "exitloop")
      BY <2>3 DEF Fail, Is
    <3> QED BY <1>1, <2>3, <3>1 DEF Fail, RunTask, ExitsWork, Is
  <2> QED BY <2>1, <2>2, <2>3
<1>2. CASE failed' \in {failed, {}}
  BY <1>2, SameDsl DEF ExitsWork, Is
<1> QED BY <1>1, <1>2
        DEF Next, Step, Run, StartBatch, Abandon, Defer, CreateTask, Gather, Gathered, Post,
            FailedRun, Pause, Finish, NextBatch, Leave, Cancel, Crash, Reset, vars, values

\* Where a path ends, and the paths one shorter and one longer.
LEMMA Shorter ==
  ASSUME NEW S, NEW p \in Seq(S), p # <<>>
  PROVE  /\ Len(p) \in Nat \ {0} /\ p[Len(p)] \in S
         /\ RemoveAt(p, Len(p)) \in Seq(S)
         /\ Len(RemoveAt(p, Len(p))) = Len(p) - 1
         /\ \A k \in 1 .. Len(p) - 1 : RemoveAt(p, Len(p))[k] = p[k]
  BY RemoveAtType

\* How often c is in a path one longer, and in what is left of one.
LEMMA CountType ==
  ASSUME NEW S, NEW p \in Seq(S), NEW c
  PROVE  IsFiniteSet({k \in DOMAIN p : p[k] = c}) /\ CountIn(p, c) \in Nat
<1>1. DOMAIN p = 1 .. Len(p) /\ Len(p) \in Int
  OBVIOUS
<1>2. IsFiniteSet(1 .. Len(p))
  BY <1>1, FS_Interval
<1>3. IsFiniteSet({k \in DOMAIN p : p[k] = c})
  BY <1>1, <1>2, FS_Subset
<1> QED BY <1>3, FS_CardinalityType DEF CountIn

\* How often c is in a path with one more component.
LEMMA CountLonger ==
  ASSUME NEW S, NEW p \in Seq(S), NEW x \in S, NEW c
  PROVE  CountIn(Append(p, x), c) = IF c = x THEN CountIn(p, c) + 1 ELSE CountIn(p, c)
<1> DEFINE at == {k \in DOMAIN p : p[k] = c}
           at2 == {k \in DOMAIN Append(p, x) : Append(p, x)[k] = c}
<1>1. IsFiniteSet(at)
  BY CountType
<1>2. Len(p) + 1 \notin at
  BY Longer
<1>3. CASE c = x
  <2>1. at2 = at \cup {Len(p) + 1}
    BY <1>3, Longer
  <2>2. Cardinality(at \cup {Len(p) + 1}) = Cardinality(at) + 1
    BY <1>1, <1>2, FS_AddElement
  <2> QED BY <1>3, <2>1, <2>2 DEF CountIn
<1>4. CASE c # x
  <2>1. at2 = at
    BY <1>4, Longer
  <2> QED BY <1>4, <2>1 DEF CountIn
<1> QED BY <1>3, <1>4

\* How often c is in a path that has it only where another path has it.
LEMMA CountWithin ==
  ASSUME NEW S, NEW p \in Seq(S), NEW q \in Seq(S), NEW c,
         \A k \in DOMAIN q : q[k] = c => k \in DOMAIN p /\ p[k] = c
  PROVE  CountIn(q, c) <= CountIn(p, c)
<1>1. {k \in DOMAIN q : q[k] = c} \subseteq {k \in DOMAIN p : p[k] = c}
  OBVIOUS
<1>2. IsFiniteSet({k \in DOMAIN p : p[k] = c})
  BY CountType
<1> QED BY <1>1, <1>2, FS_Subset DEF CountIn

----------------------------------------------------------------------------
(* The walk through the groups.                                            *)

\* The ways a walk goes on: by an edge, into a group, back to its item, and
\* out of it.
ByEdge(c, x) ==
  /\ LeadsTo(dsl, c, x)
  /\ Group(dsl, c) => failed # {}
  /\ IsItem(c) => cursor[c] # -1
  /\ ~Is(c, "exitloop")

Into(c, x) == Group(dsl, c) /\ x = dsl.start[c]

Back(c, x) ==
  /\ Parent(c) # Nothing /\ x = dsl.start[Parent(c)]
  /\ ~IsItem(c) /\ dsl.kind[c] \notin {"switch", "exitloop"}
  /\ dsl.downstream[c] = <<>>

Out(c, x) ==
  /\ IsItem(c) \/ Is(c, "exitloop")
  /\ Occurs(x, dsl.downstream[Parent(c)])
  /\ Is(c, "iterationitem") => cursor[c] = -1

Move(c, x) == ByEdge(c, x) \/ Into(c, x) \/ Back(c, x) \/ Out(c, x)

\* What post-processing puts behind the path are moves of its component.
LEMMA Moves ==
  ASSUME IInv, Solo, Grouped(dsl), ExitsWork, Post
  PROVE  LET c == path[pos]
             New == Len(path) + 1 .. Len(path')
         IN  /\ \A k \in New : path'[k] \in N /\ Move(c, path'[k])
             /\ \/ cursor' = cursor
                \/ /\ IsItem(c) /\ MayEnd(c) /\ cursor' = [cursor EXCEPT ![c] = -1]
                   /\ \A k \in New : Out(c, path'[k])
             /\ error \/ (IsItem(c) /\ c \in failed) => error'
<1> DEFINE c == path[pos]
           New == Len(path) + 1 .. Len(path')
<1>1. /\ path \in Seq(N) /\ path # <<>> /\ c \in N
      /\ ~Free(dsl, c) => Last = c
  BY PostPlace, SoloPlace
<1>2. /\ path' \in Seq(N) /\ Len(path) \in Nat /\ \A k \in New : path'[k] \in N
  <2>1. path' \in Seq(N)
    BY PostGrows
  <2> QED BY <1>1, <2>1
<1>3. ASSUME NEW t \in Seq(N), path' = path \o t \/ path' = Extend(path, t)
      PROVE  \A k \in New : Occurs(path'[k], t)
  BY <1>1, <1>3, ExtendNew
<1> HIDE DEF c, New
<1>4. /\ \A g \in N : dsl.downstream[g] \in Seq(N)
      /\ dsl.goto[c] \in Seq(N) /\ \A s \in dsl.cases[c] : s \in Seq(N)
      /\ Parent(c) # Nothing => Parent(c) \in N
      /\ dsl.start \in [N -> N]
      /\ IsItem(c) => Parent(c) \in N /\ Parent(c) # Nothing
  BY <1>1, DslType DEF IInv, Parent, IsItem
<1>5. /\ IsItem(c) => c = dsl.start[Parent(c)] /\ dsl.goto[c] = <<>> /\ c \notin dsl.default
      /\ Is(c, "exitloop") => InGroup(c, "loop") /\ c \notin failed
  BY <1>1 DEF Grouped, N, IsItem, Item, Is, InGroup, Parent, ExitsWork
<1> DEFINE Goal == /\ \A k \in New : Move(c, path'[k])
                   /\ \/ cursor' = cursor
                      \/ /\ IsItem(c) /\ MayEnd(c) /\ cursor' = [cursor EXCEPT ![c] = -1]
                         /\ \A k \in New : Out(c, path'[k])
                   /\ error \/ (IsItem(c) /\ c \in failed) => error'
<1> SUFFICES Goal
  BY <1>2 DEF c, New
<1>6. CASE c \in failed /\ dsl.goto[c] # <<>>
  <2>1. path' = path \o dsl.goto[c] /\ cursor' = cursor /\ error' = error
    BY <1>6 DEF Post, c
  <2>2. \A k \in New : Occurs(path'[k], dsl.goto[c])
    BY <1>3, <1>4, <2>1
  <2>3. ~IsItem(c) /\ ~Is(c, "exitloop") /\ failed # {}
    BY <1>5, <1>6
  <2> QED BY <2>1, <2>2, <2>3 DEF Move, ByEdge, LeadsTo
<1>7. CASE ~(c \in failed /\ dsl.goto[c] # <<>>)
  <2>1. Lead(c) /\ error' = (error \/ (c \in failed /\ c \notin dsl.default))
    BY <1>7 DEF Post, c
  <2>2. error \/ (IsItem(c) /\ c \in failed) => error'
    BY <1>5, <2>1
  <2>3. CASE /\ IsItem(c) /\ MayEnd(c)
             /\ path' = Extend(path, dsl.downstream[Parent(c)])
             /\ cursor' = [cursor EXCEPT ![c] = -1]
    <3>1. \A k \in New : Occurs(path'[k], dsl.downstream[Parent(c)])
      BY <1>3, <1>4, <2>3
    <3>2. Is(c, "iterationitem") => cursor[c] = -1
      BY <2>3 DEF MayEnd, Is
    <3> QED BY <2>2, <2>3, <3>1, <3>2 DEF Move, Out
  <2>4. CASE IsItem(c) /\ MayContinue(c) /\ path' = Extend(path, Onward(c)) /\ cursor' = cursor
    <3>1. Onward(c) \in {<<c>>, dsl.downstream[c]}
      BY <1>5, <2>4 DEF Onward, IsItem, Is
    <3>2. CASE Onward(c) = <<c>>
      <4>1. Last = c
        BY <1>1, <1>4, <2>4 DEF Free, Parent
      <4>2. <<c>> # <<>> /\ <<c>>[1] = c /\ Tail(<<c>>) = <<>> /\ path \o <<>> = path
        BY <1>1, ConcatEmptySeq
      <4>3. path' = path
        BY <1>1, <2>4, <3>2, <4>1, <4>2 DEF Extend, Last
      <4>4. New = {}
        BY <1>2, <4>3 DEF New
      <4> QED BY <2>2, <2>4, <4>4
    <3>3. CASE Onward(c) = dsl.downstream[c]
      <4>1. \A k \in New : Occurs(path'[k], dsl.downstream[c])
        BY <1>1, <1>3, <1>4, <2>4, <3>3
      <4>2. ~Group(dsl, c) /\ cursor[c] # -1 /\ ~Is(c, "exitloop")
        BY <2>4 DEF Group, MayContinue, IsItem, Is
      <4> QED BY <2>2, <2>4, <4>1, <4>2 DEF Move, ByEdge, LeadsTo
    <3> QED BY <3>1, <3>2, <3>3
  <2>5. CASE /\ Is(c, "switch") /\ cursor' = cursor
             /\ \E s \in dsl.cases[c] \cup {t \in {<<>>} : c \in failed} : path' = Extend(path, s)
    <3>1. PICK s \in dsl.cases[c] \cup {t \in {<<>>} : c \in failed} : path' = Extend(path, s)
      BY <2>5
    <3>2. ~Group(dsl, c) /\ ~IsItem(c) /\ ~Is(c, "exitloop")
      BY <2>5 DEF Group, IsItem, Is
    <3>3. s \in Seq(N) /\ \A x : Occurs(x, s) => s \in dsl.cases[c]
      <4>1. CASE s \in dsl.cases[c]
        BY <1>4, <4>1
      <4>2. CASE s = <<>>
        BY <4>2 DEF Occurs
      <4> QED BY <3>1, <4>1, <4>2
    <3>4. \A k \in New : Occurs(path'[k], s)
      BY <1>3, <3>1, <3>3
    <3>5. \A k \in New : LeadsTo(dsl, c, path'[k])
      BY <3>3, <3>4 DEF LeadsTo
    <3> QED BY <2>2, <2>5, <3>2, <3>5 DEF Move, ByEdge
  <2>6. CASE ~IsItem(c) /\ ~Is(c, "switch") /\ path' = Extend(path, Onward(c)) /\ cursor' = cursor
    <3>1. CASE Group(dsl, c)
      <4>1. Onward(c) = <<dsl.start[c]>> /\ <<dsl.start[c]>> \in Seq(N)
            /\ \A x : Occurs(x, <<dsl.start[c]>>) => x = dsl.start[c]
        BY <1>1, <1>4, <3>1 DEF Onward, Group, Is, Occurs
      <4>2. \A k \in New : path'[k] = dsl.start[c]
        BY <1>3, <2>6, <4>1
      <4> QED BY <2>2, <2>6, <3>1, <4>2 DEF Move, Into
    <3>2. CASE ~Group(dsl, c) /\ Is(c, "exitloop")
      <4>1. Onward(c) = dsl.downstream[Parent(c)] /\ Parent(c) \in N /\ ~Is(c, "iterationitem")
        BY <1>4, <1>5, <3>2 DEF Onward, Group, InGroup, Is
      <4>2. \A k \in New : Occurs(path'[k], dsl.downstream[Parent(c)])
        BY <1>3, <1>4, <2>6, <4>1
      <4> QED BY <2>2, <2>6, <3>2, <4>1, <4>2 DEF Move, Out
    <3>3. CASE ~Group(dsl, c) /\ ~Is(c, "exitloop") /\ dsl.downstream[c] = <<>> /\ Parent(c) # Nothing
      <4>1. Onward(c) = <<dsl.start[Parent(c)]>> /\ <<dsl.start[Parent(c)]>> \in Seq(N)
            /\ \A x : Occurs(x, <<dsl.start[Parent(c)]>>) => x = dsl.start[Parent(c)]
        BY <1>4, <3>3 DEF Onward, Group, Is, Occurs
      <4>2. \A k \in New : path'[k] = dsl.start[Parent(c)]
        BY <1>3, <2>6, <4>1
      <4>3. dsl.kind[c] \notin {"switch", "exitloop"}
        BY <2>6, <3>3 DEF Is
      <4> QED BY <2>2, <2>6, <3>3, <4>2, <4>3 DEF Move, Back
    <3>4. CASE ~Group(dsl, c) /\ ~Is(c, "exitloop") /\ ~(dsl.downstream[c] = <<>> /\ Parent(c) # Nothing)
      <4>1. Onward(c) = dsl.downstream[c]
        BY <3>4 DEF Onward, Group, Is
      <4>2. \A k \in New : Occurs(path'[k], dsl.downstream[c])
        BY <1>1, <1>3, <1>4, <2>6, <4>1
      <4> QED BY <2>2, <2>6, <3>4, <4>2 DEF Move, ByEdge, LeadsTo
    <3> QED BY <3>1, <3>2, <3>3, <3>4
  <2> QED BY <2>1, <2>3, <2>4, <2>5, <2>6 DEF Lead
<1> QED BY <1>6, <1>7

\* A move goes up, or stays where it is within a group.
LEMMA MoveLevels ==
  ASSUME IInv, Grouped(dsl), Ranks(dsl, Rank), NEW c \in N, NEW x \in N, Move(c, x)
  PROVE  /\ Level(c) \in Nat /\ Level(x) \in Nat /\ Level(c) <= Level(x)
         /\ Is(c, "exitloop") \/ Parent(x) = Nothing => Level(c) < Level(x)
         /\ x # "begin"
<1>1. /\ \A y \in N : Parent(y) # Nothing => Parent(y) \in N /\ Group(dsl, Parent(y))
      /\ \A y \in N : Group(dsl, y) => Parent(y) = Nothing
      /\ dsl.kind["begin"] = "begin" /\ Nothing \notin N
  BY DslType DEF IInv, Grouped, N, Parent
<1>2. /\ \A y \in N : Group(dsl, y) => Parent(dsl.start[y]) = y /\ IsItem(dsl.start[y])
      /\ \A y \in N : IsItem(y) => Parent(y) \in N
      /\ \A y \in N : Is(y, "exitloop") => Parent(y) \in N
      /\ \A y, z \in N : LeadsTo(dsl, y, z) => Parent(z) = Parent(y) /\ z # "begin"
  <2>1. \A y \in N : Group(dsl, y) => Parent(dsl.start[y]) = y /\ IsItem(dsl.start[y])
    BY DEF Grouped, N, Parent, IsItem
  <2>2. \A y \in N : IsItem(y) => Parent(y) \in N
    BY DslType DEF IInv, Parent, IsItem
  <2>3. \A y \in N : Is(y, "exitloop") => Parent(y) \in N
    BY <1>1 DEF Grouped, N, Parent, Is
  <2>4. \A y, z \in N : LeadsTo(dsl, y, z) => Parent(z) = Parent(y) /\ z # "begin"
    BY DEF Grouped, N, Parent
  <2> QED BY <2>1, <2>2, <2>3, <2>4
<1>3. /\ \A y \in N : Rank[y] \in Nat /\ Level(y) \in Nat
      /\ \A y, z \in N : LeadsTo(dsl, y, z) => Rank[y] < Rank[z]
  BY <1>1 DEF Ranks, N, Level
<1>4. CASE ByEdge(c, x)
  BY <1>1, <1>2, <1>3, <1>4 DEF ByEdge, Level
<1>5. CASE Into(c, x)
  <2>1. x # "begin" /\ ~Is(c, "exitloop")
    BY <1>1, <1>2, <1>5 DEF Into, IsItem, Group, Is
  <2> QED BY <1>1, <1>2, <1>3, <1>5, <2>1 DEF Into, Level
<1>6. CASE Back(c, x)
  <2>1. Parent(c) \in N /\ Group(dsl, Parent(c)) /\ Parent(x) = Parent(c) /\ IsItem(x) /\ ~Is(c, "exitloop")
    BY <1>1, <1>2, <1>6 DEF Back, Is
  <2>2. x # "begin"
    BY <1>1, <2>1 DEF IsItem
  <2> QED BY <1>1, <1>3, <2>1, <2>2 DEF Level
<1>7. CASE Out(c, x)
  <2>1. Parent(c) \in N /\ Parent(c) # Nothing /\ LeadsTo(dsl, Parent(c), x)
    BY <1>1, <1>2, <1>7 DEF Out, LeadsTo
  <2>2. Parent(x) = Nothing /\ x # "begin" /\ Rank[Parent(c)] < Rank[x]
    BY <1>1, <1>2, <1>3, <2>1
  <2> QED BY <1>3, <2>1, <2>2 DEF Level
<1> QED BY <1>4, <1>5, <1>6, <1>7 DEF Move

\* The kinds of steps a walk sees: nothing happens to the path, one component
\* runs alone or beside others, one leaves the path or is post-processed.
Keeps ==
  /\ phase # "idle" /\ path' = path /\ UNCHANGED values /\ error' = error
  /\ \/ idx' = idx /\ to' = to
     \/ idx <= to /\ ~error /\ to' = Len(path)
  /\ idx <= to => Invoked' = Invoked

Runs ==
  /\ phase # "idle" /\ path' = path /\ error' = error /\ idx' = idx /\ to' = to
  /\ idx = to /\ Len(path) = to
  /\ ~Invoked /\ Invoked'
  /\ Invoke(to) \/ Fail(to)

RunsBeside ==
  /\ phase # "idle" /\ path' = path /\ error' = error /\ idx' = idx /\ to' = to
  /\ idx < to
  /\ \E n \in idx .. to : Invoke(n) \/ Fail(n)

Starts ==
  /\ path' = <<"begin">> /\ to' = 1
  /\ cursor' = [c \in N |-> 0]
  /\ results' = [c \in N |-> <<>>]

WalkStep ==
  \/ Starts
  \/ phase # "idle" /\ FirstRun /\ (Keeps \/ Runs \/ RunsBeside \/ Defer \/ Post)

\* In a first run every step is one of these.
LEMMA WalkSteps ==
  ASSUME IInv, Solo, Grouped(dsl), Tasked, FillUpFirst, [Next]_vars, phase' # "idle", FirstRun'
  PROVE  WalkStep
<1>1. CASE Run
  <2>1. path' \in Seq(N)
    BY <1>1, NextInv, SameDsl DEF IInv, TypeOK, PathTypes, N
  <2>2. Len(path') = 1 /\ path'[1] = "begin" /\ to' = 1
    BY <1>1, BeginAlone
  <2>3. path' = <<"begin">>
    BY <2>1, <2>2
  <2> QED BY <1>1, <2>2, <2>3 DEF Run, Starts, WalkStep, N
<1>2. CASE ~Run /\ phase # "idle"
  <2>1. FirstRun
    BY <1>2, FirstRunStep
  <2>2. /\ Len(path) \in Nat /\ to \in Nat /\ idx \in Nat /\ pos \in Nat /\ to <= Len(path)
        /\ phase \in {"start", "post"} => idx <= pos /\ pos <= to + 1
        /\ phase # "post" \/ to < idx => Len(path) = to
    BY <1>2, SoloPlace
  <2>3. CASE UNCHANGED <<path, values, error, idx, to>> /\ (idx <= to => Invoked' = Invoked)
    BY <1>2, <2>1, <2>3 DEF Keeps, WalkStep
  <2>4. CASE StartBatch
    BY <2>3, <2>4 DEF StartBatch, Invoked
  <2>5. CASE CreateTask
    BY <2>3, <2>5 DEF CreateTask, Invoked
  <2>6. CASE Gather
    <3>1. UNCHANGED <<path, values, error, idx, to, todo>> /\ phase' = "gather" /\ phase = "start"
          /\ todo = idx .. pos - 1 /\ pos > to
      BY <2>6 DEF Gather, batch, Tasked
    <3>2. idx <= to => todo # {}
      <4>1. idx <= to => idx \in idx .. pos - 1
        BY <2>2, <3>1
      <4> QED BY <3>1, <4>1
    <3> QED BY <2>3, <3>1, <3>2 DEF Invoked
  <2>7. CASE Gathered
    BY <2>3, <2>7 DEF Gathered, Invoked
  <2>8. CASE Cancel \/ Reset \/ UNCHANGED vars
    BY <2>3, <2>8 DEF Cancel, Reset, vars, batch, Invoked
  <2>9. CASE NextBatch
    <3>1. Len(path) > to
      <4>1. Len(path) # to
        BY <1>2, <2>9, AheadPath DEF NextBatch
      <4> QED BY <2>2, <4>1
    <3>2. idx <= to
      BY <2>2, <3>1
    <3>3. path' = path /\ UNCHANGED values /\ error' = error /\ ~error /\ to' = Len(path)
          /\ phase' = "batch"
      BY <2>9 DEF NextBatch
    <3>4. Invoked' = Invoked
      <4>1. ~Invoked
        BY <2>2, <3>1 DEF Invoked
      <4>2. ~Invoked'
        BY <3>3 DEF Invoked
      <4> QED BY <4>1, <4>2 DEF Invoked
    <3> QED BY <1>2, <2>1, <3>2, <3>3, <3>4 DEF Keeps, WalkStep
  <2>10. CASE RunTask
    <3>1. PICK n \in todo : todo' = todo \ {n} /\ (Invoke(n) \/ Fail(n))
      BY <2>10 DEF RunTask
    <3>2. /\ phase = "gather" /\ phase' = "gather" /\ todo \subseteq idx .. to /\ Len(path) = to
          /\ UNCHANGED <<path, error, idx, to>>
      BY <2>2, <2>10 DEF RunTask, Tasked
    <3>3. CASE idx = to
      <4>1. n = to /\ todo' = {} /\ todo # {}
        BY <2>2, <3>1, <3>2, <3>3
      <4>2. ~Invoked /\ Invoked'
        BY <3>2, <4>1 DEF Invoked
      <4> QED BY <2>1, <3>1, <3>2, <3>3, <4>1, <4>2 DEF Runs, WalkStep
    <3>4. CASE idx < to
      BY <1>2, <2>1, <3>1, <3>2, <3>4 DEF RunsBeside, WalkStep
    <3> QED BY <2>2, <3>1, <3>2, <3>3, <3>4
  <2>11. CASE Defer \/ Post
    BY <1>2, <2>1, <2>11 DEF WalkStep
  <2> QED BY <1>2, <2>4, <2>5, <2>6, <2>7, <2>8, <2>9, <2>10, <2>11
          DEF Next, Step, Abandon, FailedRun, Pause, Finish, Leave, Crash
<1>3. phase # "idle" \/ Run
  BY DEF Next, Step, StartBatch, Abandon, Defer, CreateTask, Gather, RunTask, Gathered, Post,
         FailedRun, Pause, Finish, NextBatch, Cancel, Crash, Reset, vars
<1> QED BY <1>1, <1>2, <1>3

\* No step changes the ranks.
LEMMA SameRank == ASSUME [Next]_vars PROVE Rank' = Rank
  BY SameDsl DEF Rank

\* What the step lemmas below start from.
Walking ==
  /\ IInv /\ Solo /\ Solo' /\ ExitsWork
  /\ Chained(dsl) /\ Ranks(dsl, Rank)
  /\ dsl' = dsl /\ Rank' = Rank

\* What stands behind the batch after a component is post-processed: one
\* component, or components that are in no group.
LEMMA PostSolo ==
  ASSUME Walking, Post
  PROVE  /\ path' \in Seq(N) /\ Len(path') \in Nat /\ DOMAIN path' = 1 .. Len(path')
         /\ Len(path) <= Len(path') /\ \A k \in 1 .. Len(path) : path'[k] = path[k]
         /\ to' = to /\ idx' = idx /\ failed' = failed /\ outputs' = outputs /\ results' = results
         /\ \A k, l \in to + 1 .. Len(path') : k # l => Free(dsl, path'[k])
<1>1. /\ path' \in Seq(N) /\ Len(path) <= Len(path') /\ \A k \in 1 .. Len(path) : path'[k] = path[k]
  BY PostGrows DEF Walking
<1>2. phase' = "post" /\ to' = to /\ idx' = idx /\ failed' = failed /\ outputs' = outputs /\ results' = results
  BY DEF Post
<1>3. \A k, l \in to' + 1 .. Len(path') : k # l => Free(dsl', path'[k])
  BY <1>2 DEF Walking, Solo
<1> QED BY <1>1, <1>2, <1>3 DEF Walking

\* Upward is kept.
LEMMA StepUpward ==
  ASSUME Walking, WalkStep, phase # "idle" /\ FirstRun => Upward
  PROVE  Upward'
<1> DEFINE Up(p, j, k) ==
             /\ Level(p[j]) <= Level(p[k])
             /\ Is(p[j], "exitloop") \/ (\E m \in j + 1 .. k : Parent(p[m]) = Nothing)
                  => Level(p[j]) < Level(p[k])
<1> SUFFICES \A j, k \in DOMAIN path' : j < k /\ ~Free(dsl, path'[j]) => Up(path', j, k)
  BY DEF Walking, Upward, Level, Parent, Is, Free
<1>1. CASE Starts
  <2>1. DOMAIN path' = {1}
    BY <1>1 DEF Starts
  <2> QED BY <2>1
<1>2. CASE phase # "idle" /\ FirstRun /\ path' = path
  BY <1>2 DEF Upward
<1>3. CASE phase # "idle" /\ FirstRun /\ Defer
  <2>1. /\ pos \in 2 .. Len(path) /\ Len(path) \in Nat /\ DOMAIN path = 1 .. Len(path)
        /\ path' \in Seq(N) /\ Len(path') = Len(path) - 1
        /\ \A k \in 1 .. Len(path) - 1 : path'[k] = IF k < pos THEN path[k] ELSE path[k + 1]
    BY <1>3, DeferPlace, RunPlace DEF Walking
  <2> DEFINE at(k) == IF k < pos THEN k ELSE k + 1
  <2>2. DOMAIN path' = 1 .. Len(path) - 1
    BY <2>1
  <2>3. /\ \A k \in DOMAIN path' : at(k) \in DOMAIN path /\ path'[k] = path[at(k)]
        /\ \A j, k \in DOMAIN path' : j < k => at(j) < at(k)
        /\ \A j, k \in DOMAIN path' : \A m \in j + 1 .. k :
             m \in DOMAIN path' /\ at(m) \in at(j) + 1 .. at(k)
    BY <2>1, <2>2
  <2> HIDE DEF at
  <2> SUFFICES ASSUME NEW j \in DOMAIN path', NEW k \in DOMAIN path', j < k, ~Free(dsl, path'[j])
               PROVE  Up(path', j, k)
    OBVIOUS
  <2>4. Up(path, at(j), at(k))
    BY <1>3, <2>3 DEF Upward
  <2>5. \A m \in j + 1 .. k : path'[m] = path[at(m)] /\ at(m) \in at(j) + 1 .. at(k)
    BY <2>3
  <2> QED BY <2>3, <2>4, <2>5
<1>4. CASE phase # "idle" /\ FirstRun /\ Post
  <2> DEFINE c == path[pos]
  <2>1. /\ path \in Seq(N) /\ Len(path) \in Nat /\ DOMAIN path = 1 .. Len(path)
        /\ to \in Nat /\ to <= Len(path) /\ idx \in Nat /\ pos \in idx .. to /\ pos \in DOMAIN path /\ c \in N
        /\ ~Free(dsl, c) => pos = to /\ Len(path) = to
        /\ Free(dsl, c) => \A k \in idx .. Len(path) : Parent(path[k]) = Nothing
        /\ idx # to \/ Free(dsl, c) => \A k \in idx .. to : Free(dsl, path[k])
    <3>1. path \in Seq(N) /\ DOMAIN path = 1 .. Len(path)
      BY <1>4, SoloPlace DEF Walking
    <3>2. Len(path) \in Nat /\ to \in Nat /\ to <= Len(path) /\ idx \in Nat /\ 1 <= idx
      <4>1. idx \in Nat \ {0}
        BY <1>4, SoloPlace DEF Walking
      <4> QED BY <1>4, <4>1, SoloPlace DEF Walking
    <3>3. /\ pos \in idx .. to /\ c \in N
          /\ ~Free(dsl, c) => pos = to /\ Len(path) = to
          /\ Free(dsl, c) => \A k \in idx .. Len(path) : Parent(path[k]) = Nothing
      BY <1>4, PostPlace DEF Walking
    <3>4. ASSUME idx # to \/ Free(dsl, c), NEW k \in idx .. to PROVE Free(dsl, path[k])
      <4>1. CASE idx = to
        <5>1. k = pos
          BY <3>3, <3>4, <3>2, <4>1
        <5> QED BY <3>4, <4>1, <5>1
      <4>2. CASE idx # to
        <5>1. \E l \in idx .. to : k # l
          BY <3>4, <3>2, <4>2
        <5> QED BY <1>4, <5>1 DEF Walking, Solo
      <4> QED BY <4>1, <4>2
    <3>5. pos \in 1 .. Len(path)
      BY <3>3, <3>2
    <3> QED BY <3>1, <3>3, <3>4, <3>5, <3>2
  <2>2. /\ Len(path') \in Nat /\ DOMAIN path' = 1 .. Len(path') /\ Len(path) <= Len(path')
        /\ \A k \in 1 .. Len(path) : path'[k] = path[k]
        /\ \A k, l \in to + 1 .. Len(path') : k # l => Free(dsl, path'[k])
    BY <1>4, PostSolo
  <2>3. \A k \in Len(path) + 1 .. Len(path') : path'[k] \in N /\ Move(c, path'[k])
    BY <1>4, Moves DEF Walking, Chained
  <2> HIDE DEF c
  <2>4. \A k \in Len(path) + 1 .. Len(path') :
          /\ Level(c) <= Level(path'[k])
          /\ Is(c, "exitloop") \/ Parent(path'[k]) = Nothing => Level(c) < Level(path'[k])
    BY <2>1, <2>3, MoveLevels DEF Walking, Chained
  <2>5. /\ \A y \in N : Level(y) \in Nat
        /\ \A y \in N : Free(dsl, y) => Parent(y) = Nothing
    <3>1. \A y \in N : Rank[y] \in Nat /\ (Parent(y) = Nothing \/ Parent(y) \in N)
      BY DslType DEF Walking, IInv, Ranks, N, Parent
    <3> QED BY <3>1 DEF Level, Free, Parent
  <2> SUFFICES ASSUME NEW j \in DOMAIN path', NEW k \in DOMAIN path', j < k, ~Free(dsl, path'[j])
               PROVE  Up(path', j, k)
    OBVIOUS
  <2> DEFINE n == Len(path)
             o == Len(path')
  <2>6. /\ j \in Nat /\ k \in Nat /\ 1 <= j /\ j < k /\ k <= o /\ n \in Nat /\ o \in Nat /\ n <= o
        /\ to \in Nat /\ idx \in Nat /\ pos \in Nat /\ idx <= pos /\ pos <= to /\ to <= n
    <3>1. j \in 1 .. o /\ k \in 1 .. o /\ pos \in idx .. to
      BY <2>1, <2>2
    <3>2. n \in Nat /\ o \in Nat /\ n <= o /\ to \in Nat /\ idx \in Nat /\ to <= n
      BY <2>1, <2>2
    <3> HIDE DEF n, o
    <3> QED BY <3>1, <3>2
  <2> HIDE DEF n, o
  <2>7. DOMAIN path = 1 .. n /\ DOMAIN path' = 1 .. o /\ \A m \in 1 .. n : path'[m] = path[m]
    BY <2>1, <2>2 DEF n, o
  <2>8. CASE k <= Len(path)
    <3>1. /\ j \in DOMAIN path /\ k \in DOMAIN path /\ path'[j] = path[j] /\ path'[k] = path[k]
          /\ \A m \in j + 1 .. k : path'[m] = path[m]
      <4>1. k <= n /\ j \in 1 .. n /\ k \in 1 .. n /\ \A m \in j + 1 .. k : m \in 1 .. n
        BY <2>8, <2>6 DEF n
      <4> QED BY <2>7, <4>1
    <3> QED BY <1>4, <3>1 DEF Upward
  <2>9. CASE k > Len(path)
    <3>1. k \in Len(path) + 1 .. Len(path') /\ k \in to + 1 .. Len(path')
      BY <2>9, <2>6 DEF n, o
    <3>2. j <= to
      <4>1. j > to => j \in to + 1 .. Len(path') /\ j # k
        BY <2>6 DEF o
      <4> QED BY <2>2, <2>6, <3>1, <4>1
    <3>3. j \in DOMAIN path /\ path'[j] = path[j] /\ path[j] \in N
      <4>1. j \in 1 .. n
        BY <2>6, <3>2
      <4>2. path[j] \in N
        <5>1. path \in Seq(N)
          BY <2>1
        <5> QED BY <4>1, <5>1 DEF n
      <4> QED BY <2>7, <4>1, <4>2
    <3>4. path'[k] \in N /\ Level(path'[k]) \in Nat /\ Level(c) \in Nat /\ Level(path[j]) \in Nat
      BY <2>1, <2>3, <2>5, <3>1, <3>3
    <3>5. j <= pos
      <4>1. CASE Free(dsl, c)
        <5>1. j >= idx => j \in idx .. to
          BY <2>6, <3>2
        <5>2. ~(j >= idx)
          BY <2>1, <3>3, <4>1, <5>1
        <5> QED BY <2>6, <5>2
      <4>2. CASE ~Free(dsl, c)
        BY <2>1, <3>2, <4>2
      <4> QED BY <4>1, <4>2
    <3>6. CASE j < pos
      <4>1. Up(path, j, pos) /\ path[pos] = c
        BY <1>4, <2>1, <3>3, <3>6 DEF Upward, c
      <4>2. Level(path[j]) <= Level(c) /\ (Is(path[j], "exitloop") => Level(path[j]) < Level(c))
        BY <4>1
      <4>3. ASSUME NEW m \in j + 1 .. k, Parent(path'[m]) = Nothing
            PROVE  Level(path[j]) < Level(c) \/ Level(c) < Level(path'[k])
        <5>1. CASE Parent(c) = Nothing
          <6>1. pos \in j + 1 .. pos
            BY <2>6, <3>6
          <6> QED BY <4>1, <5>1, <6>1
        <5>2. CASE Parent(c) # Nothing
          <6>1. pos = to /\ Len(path) = to
            BY <2>1, <2>5, <5>2
          <6>2. CASE m <= pos
            <7>1. m \in j + 1 .. pos /\ path'[m] = path[m]
              BY <2>1, <2>2, <4>3, <6>1, <6>2
            <7> QED BY <4>1, <4>3, <7>1
          <6>3. CASE m > pos /\ m # k
            <7>1. m \in to + 1 .. Len(path')
              BY <2>1, <2>2, <3>1, <4>3, <6>1, <6>3
            <7>2. Free(dsl, path'[k])
              BY <2>2, <3>1, <6>3, <7>1
            <7> QED BY <2>4, <2>5, <3>1, <3>4, <7>2
          <6>4. CASE m = k
            BY <2>4, <3>1, <4>3, <6>4
          <6>5. m <= pos \/ m > pos
            BY <2>6, <4>3
          <6> QED BY <6>2, <6>3, <6>4, <6>5
        <5> QED BY <5>1, <5>2
      <4> QED BY <2>4, <3>1, <3>3, <3>4, <4>2, <4>3
    <3>7. CASE j = pos
      <4>1. ~Free(dsl, c) /\ path'[j] = c
        BY <3>3, <3>7 DEF c
      <4>2. pos = to /\ Len(path) = to
        BY <2>1, <4>1
      <4>3. ASSUME NEW m \in j + 1 .. k, Parent(path'[m]) = Nothing
            PROVE  Level(c) < Level(path'[k])
        <5>1. CASE m = k
          BY <2>4, <3>1, <4>3, <5>1
        <5>2. CASE m # k
          <6>1. m \in to + 1 .. Len(path')
            BY <2>1, <2>2, <3>1, <3>7, <4>2, <4>3
          <6>2. Free(dsl, path'[k])
            BY <2>2, <3>1, <5>2, <6>1
          <6> QED BY <2>4, <2>5, <3>1, <3>4, <6>2
        <5> QED BY <5>1, <5>2
      <4> QED BY <2>4, <3>1, <4>1, <4>3
    <3> QED BY <2>6, <3>5, <3>6, <3>7
  <2> QED BY <2>8, <2>9, <2>6 DEF n
<1> QED BY <1>1, <1>2, <1>3, <1>4 DEF WalkStep, Keeps, Runs, RunsBeside

\* The components of a group: its item and its body.
LEMMA GroupParts ==
  ASSUME Walking, NEW g \in N, Group(dsl, g)
  PROVE  /\ dsl.start[g] \in N /\ dsl.start[g] # g /\ Parent(dsl.start[g]) = g
         /\ Parent(g) = Nothing /\ g \notin Body(g) /\ dsl.start[g] \notin Body(g)
         /\ Is(dsl.start[g], IF Is(g, "loop") THEN "loopitem" ELSE "iterationitem")
         /\ \A c \in Body(g) : c \in N /\ Parent(c) = g /\ ~IsItem(c) /\ ~Group(dsl, c) /\ c # "begin"
         /\ \A c \in N : Parent(c) = g <=> c = dsl.start[g] \/ c \in Body(g)
         /\ "begin" \in N /\ dsl.start[g] # "begin" /\ g \in N /\ g # Nothing /\ dsl.count[g] \in Nat
<1>1. /\ dsl.start[g] \in N /\ "begin" \in N /\ dsl.kind["begin"] = "begin" /\ g # Nothing
      /\ dsl.count[g] \in Nat
  BY DslType DEF Walking, IInv
<1>2. /\ Parent(dsl.start[g]) = g /\ Parent(g) = Nothing /\ Parent("begin") = Nothing
      /\ dsl.kind[dsl.start[g]] = IF dsl.kind[g] = "loop" THEN "loopitem" ELSE "iterationitem"
      /\ \A c \in N : IsItem(c) => c = dsl.start[Parent(c)]
      /\ \A c \in N : Group(dsl, c) => Parent(c) = Nothing
  BY DEF Walking, Chained, Grouped, N, Parent, IsItem, Item
<1> QED BY <1>1, <1>2 DEF Body, Is

\* What a move leads to.
LEMMA MoveEnds ==
  ASSUME Walking, NEW c \in N, NEW x \in N
  PROVE  /\ ByEdge(c, x) => Parent(x) = Parent(c) /\ ~IsItem(x) /\ Rank[c] < Rank[x]
         /\ Into(c, x) => IsItem(x) /\ Parent(x) = c /\ Parent(c) = Nothing
         /\ Back(c, x) => IsItem(x) /\ Parent(x) = Parent(c) /\ Parent(c) # Nothing
         /\ Out(c, x) => Parent(x) = Nothing /\ ~IsItem(x) /\ Parent(c) # Nothing
<1>1. /\ \A y \in N : Parent(y) # Nothing => Parent(y) \in N /\ Group(dsl, Parent(y))
      /\ \A y \in N : Group(dsl, y) => Parent(y) = Nothing /\ Parent(dsl.start[y]) = y /\ IsItem(dsl.start[y])
      /\ \A y \in N : IsItem(y) \/ Is(y, "exitloop") => Parent(y) # Nothing
  <2>1. \A y \in N : Parent(y) # Nothing => Parent(y) \in N /\ Group(dsl, Parent(y))
    BY DslType DEF Walking, Chained, Grouped, IInv, N, Parent
  <2>2. \A y \in N : Group(dsl, y) => Parent(y) = Nothing /\ Parent(dsl.start[y]) = y /\ IsItem(dsl.start[y])
    BY DEF Walking, Chained, Grouped, N, Parent, IsItem
  <2>3. \A y \in N : IsItem(y) => Parent(y) # Nothing
    BY DslType DEF Walking, IInv, Parent, IsItem
  <2>4. \A y \in N : Is(y, "exitloop") => Parent(y) # Nothing
    BY DEF Walking, Chained, Grouped, N, Parent, Is
  <2> QED BY <2>1, <2>2, <2>3, <2>4
<1>2. \A y, z \in N : LeadsTo(dsl, y, z) => Parent(z) = Parent(y) /\ ~IsItem(z) /\ Rank[y] < Rank[z]
  BY DEF Walking, Chained, Grouped, N, Parent, IsItem, Item, Ranks
<1>3. ASSUME ByEdge(c, x) PROVE Parent(x) = Parent(c) /\ ~IsItem(x) /\ Rank[c] < Rank[x]
  BY <1>2, <1>3 DEF ByEdge
<1>4. ASSUME Into(c, x) PROVE IsItem(x) /\ Parent(x) = c /\ Parent(c) = Nothing
  BY <1>1, <1>4 DEF Into
<1>5. ASSUME Back(c, x) PROVE IsItem(x) /\ Parent(x) = Parent(c) /\ Parent(c) # Nothing
  BY <1>1, <1>5 DEF Back
<1>6. ASSUME Out(c, x) PROVE Parent(x) = Nothing /\ ~IsItem(x) /\ Parent(c) # Nothing
  <2>1. Parent(c) # Nothing /\ Parent(c) \in N /\ Group(dsl, Parent(c)) /\ LeadsTo(dsl, Parent(c), x)
    BY <1>1, <1>6 DEF Out, LeadsTo
  <2> QED BY <1>1, <1>2, <1>6, <2>1
<1> QED BY <1>3, <1>4, <1>5, <1>6

\* A walk that is at a group has not been in it.
LEMMA NotYetIn ==
  ASSUME Walking, Upward, path # <<>>, Group(dsl, Last)
  PROVE  ~Occurs(dsl.start[Last], path)
<1>1. path \in Seq(N) /\ DOMAIN path = 1 .. Len(path) /\ Len(path) \in Nat \ {0} /\ Last \in N
  BY Shorter DEF Walking, IInv, TypeOK, PathTypes, N, Last
<1>2. /\ Parent(Last) = Nothing /\ Parent(dsl.start[Last]) = Last /\ dsl.start[Last] # Last
      /\ Last # Nothing
  BY <1>1, GroupParts
<1>3. Level(dsl.start[Last]) = Rank[Last] /\ Level(Last) = Rank[Last] /\ Rank[Last] \in Nat
  BY <1>1, <1>2 DEF Level, Walking, Ranks, N
<1>4. ASSUME NEW k \in DOMAIN path, path[k] = dsl.start[Last] PROVE FALSE
  <2>1. k < Len(path) /\ Len(path) \in k + 1 .. Len(path)
    BY <1>1, <1>2, <1>4 DEF Last
  <2>2. Parent(path[Len(path)]) = Nothing /\ ~Free(dsl, path[k])
    BY <1>2, <1>4 DEF Last, Free, Parent
  <2>3. Level(path[k]) < Level(Last)
    BY <1>1, <2>1, <2>2 DEF Upward, Last
  <2> QED BY <1>3, <1>4, <2>3
<1> QED BY <1>4 DEF Occurs

\* A move of the walk keeps a Loop's place in it.
LEMMA LoopMove ==
  ASSUME Walking, Upward, path # <<>>, NEW lo \in Loops, NEW x \in N, Move(Last, x),
         NEW k, NEW m, NEW bad, LoopAt(lo, path, k, TRUE, bad),
         Last = dsl.start[lo] => ~bad,
         m = k \/ (Last = dsl.start[lo] /\ Out(Last, x)),
         IsItem(Last) /\ Last = dsl.start[lo] => k = cursor[Last]
  PROVE  LoopAt(lo, Append(path, x), m, FALSE, bad)
<1> DEFINE i == dsl.start[lo]
           p == Append(path, x)
<1>1. path \in Seq(N) /\ Last \in N /\ Last = path[Len(path)]
      /\ Len(path) \in DOMAIN path
  BY Shorter, Longer DEF Walking, IInv, TypeOK, PathTypes, N, Last
<1>2. /\ lo \in N /\ Group(dsl, lo) /\ i \in N /\ Parent(i) = lo /\ Parent(lo) = Nothing
      /\ lo # Nothing /\ i \notin Body(lo) /\ IsItem(i) /\ dsl.count[lo] \in Nat
      /\ \A c \in Body(lo) : c \in N /\ Parent(c) = lo /\ ~IsItem(c)
      /\ \A c \in N : Parent(c) = lo <=> c = i \/ c \in Body(lo)
  <2>1. lo \in N /\ Group(dsl, lo) /\ Is(lo, "loop")
    BY DEF Loops, Group, Is
  <2> QED BY <2>1, GroupParts DEF Is, IsItem
<1>3. /\ p[Len(p)] = x
      /\ \A c : Occurs(c, p) <=> Occurs(c, path) \/ c = x
      /\ \A c : CountIn(p, c) = IF c = x THEN CountIn(path, c) + 1 ELSE CountIn(path, c)
      /\ \A c : CountIn(path, c) \in Nat
  <2>1. p[Len(p)] = x /\ \A c : Occurs(c, p) <=> Occurs(c, path) \/ c = x
    BY <1>1, Longer
  <2>2. \A c : CountIn(p, c) = IF c = x THEN CountIn(path, c) + 1 ELSE CountIn(path, c)
    BY <1>1, CountLonger
  <2>3. \A c : CountIn(path, c) \in Nat
    BY <1>1, CountType
  <2> QED BY <2>1, <2>2, <2>3
<1>4. Occurs(Last, path)
  BY <1>1 DEF Occurs
<1>5. /\ \A c \in Body(lo) : CountIn(path, c) <= dsl.count[lo]
      /\ ~Occurs(i, path) => k = 0 /\ \A c \in Body(lo) : CountIn(path, c) <= 0
      /\ Last = i => k = -1 \/ (k \in 1 .. dsl.count[lo] /\ \A c \in Body(lo) : CountIn(path, c) <= k - 1)
      /\ Last \in Body(lo) =>
           /\ k \in 1 .. dsl.count[lo] /\ \A c \in Body(lo) : CountIn(path, c) <= k
           /\ \A c \in Body(lo) : Rank[c] > Rank[Last] => CountIn(path, c) <= k - 1
  BY DEF LoopAt, Last
<1> DEFINE Goal ==
      /\ \A c \in Body(lo) : CountIn(p, c) <= dsl.count[lo]
      /\ ~Occurs(i, p) => m = 0 /\ \A c \in Body(lo) : CountIn(p, c) <= 0
      /\ x = i => m \in 0 .. dsl.count[lo] /\ \A c \in Body(lo) : CountIn(p, c) <= m
      /\ x \in Body(lo) =>
           /\ m \in 1 .. dsl.count[lo] /\ \A c \in Body(lo) : CountIn(p, c) <= m
           /\ \A c \in Body(lo) : Rank[c] > Rank[x] => CountIn(p, c) <= m - 1
<1>6. Goal => LoopAt(lo, p, m, FALSE, bad)
  BY <1>3 DEF LoopAt
<1> SUFFICES Goal
  BY <1>6
<1> HIDE DEF i, p
<1>7. CASE x # i /\ x \notin Body(lo)
  BY <1>2, <1>3, <1>4, <1>5, <1>7 DEF i
<1>8. CASE x = i
  <2>1. m = k
    BY <1>1, <1>2, <1>8, MoveEnds
  <2>2. CASE Into(Last, x)
    <3>1. Last = lo /\ ~Occurs(i, path)
      BY <1>1, <1>2, <1>8, <2>2, NotYetIn, GroupParts DEF Into, i
    <3> QED BY <1>2, <1>3, <1>5, <1>8, <2>1, <3>1
  <2>3. CASE Back(Last, x)
    <3>1. Last \in Body(lo)
      BY <1>1, <1>2, <1>8, <2>3, MoveEnds DEF Back, i
    <3> QED BY <1>2, <1>3, <1>5, <1>8, <2>1, <3>1
  <2> QED BY <1>1, <1>2, <1>8, <2>2, <2>3, MoveEnds DEF Move
<1>9. CASE x \in Body(lo)
  <2>1. ByEdge(Last, x) /\ Parent(Last) = lo /\ Rank[Last] < Rank[x] /\ m = k
    BY <1>1, <1>2, <1>9, MoveEnds DEF Move
  <2>2. \A c \in Body(lo) : Rank[c] \in Nat
    BY <1>2 DEF Walking, Ranks, N
  <2>3. ASSUME k \in 1 .. dsl.count[lo],
               \A c \in Body(lo) : CountIn(path, c) <= k,
               \A c \in Body(lo) : Rank[c] >= Rank[x] => CountIn(path, c) <= k - 1
        PROVE  Goal
    <3>1. \A c \in Body(lo) : CountIn(p, c) <= k
      BY <1>2, <1>3, <1>9, <2>2, <2>3
    <3>2. \A c \in Body(lo) : Rank[c] > Rank[x] => CountIn(p, c) <= k - 1
      BY <1>2, <1>3, <1>9, <2>2, <2>3
    <3>3. \A c \in Body(lo) : CountIn(p, c) \in Nat
      BY <1>3
    <3>4. \A c \in Body(lo) : CountIn(p, c) <= dsl.count[lo]
      BY <1>2, <2>3, <3>1, <3>3
    <3>5. Occurs(i, p)
      BY <1>2, <1>3, <1>5, <2>3
    <3> QED BY <1>2, <1>9, <2>1, <2>3, <3>1, <3>2, <3>4, <3>5
  <2>4. CASE Last = i
    <3>1. k # -1
      BY <1>2, <2>1, <2>4 DEF ByEdge, i
    <3>2. k \in 1 .. dsl.count[lo] /\ \A c \in Body(lo) : CountIn(path, c) <= k - 1
      BY <1>5, <2>4, <3>1
    <3>3. \A c \in Body(lo) : CountIn(path, c) <= k
      BY <1>2, <1>3, <3>2
    <3> QED BY <2>3, <3>2, <3>3
  <2>5. CASE Last \in Body(lo)
    <3>1. \A c \in Body(lo) : Rank[c] >= Rank[x] => CountIn(path, c) <= k - 1
      BY <1>5, <1>9, <2>1, <2>2, <2>5
    <3> QED BY <1>5, <2>3, <2>5, <3>1
  <2> QED BY <1>1, <1>2, <2>1, <2>4, <2>5
<1> QED BY <1>7, <1>8, <1>9

\* Running the component at the end of the path keeps a Loop's place in it.
LEMMA LoopRun ==
  ASSUME Walking, NEW lo \in Loops, Runs, LoopIs(lo)
  PROVE  LoopAt(lo, path, cursor'[dsl.start[lo]], TRUE, dsl.start[lo] \in failed')
<1> DEFINE i == dsl.start[lo]
           k == cursor[i]
<1>1. /\ lo \in N /\ i \in N /\ Parent(i) = lo /\ Is(i, "loopitem") /\ i \notin Body(lo)
      /\ dsl.count[lo] \in Nat
  <2>1. lo \in N /\ Group(dsl, lo) /\ Is(lo, "loop")
    BY DEF Loops, Group, Is
  <2> QED BY <2>1, GroupParts
<1>2. cursor \in [N -> Int] /\ path[to] = Last /\ ~Invoked
  BY DEF Walking, IInv, TypeOK, ValueTypes, N, Runs, Last
<1>3. Invoke(to) \/ Fail(to)
  BY DEF Runs
<1>4. LoopAt(lo, path, k, FALSE, i \in failed)
  <2>1. Invoked = FALSE
    BY <1>2 DEF Invoked
  <2> QED BY <2>1 DEF LoopIs
<1>5. CASE Last # i
  <2>1. cursor'[i] = k
    <3>1. CASE Fail(to)
      BY <3>1 DEF Fail
    <3>2. CASE Invoke(to)
      BY <1>1, <1>2, <1>5, <3>2 DEF Invoke, NextItem, NextRound
    <3> QED BY <1>3, <3>1, <3>2
  <2> QED BY <1>4, <1>5, <2>1 DEF LoopAt, Last
<1>6. CASE Last = i
  <2>1. CASE Fail(to)
    <3>1. cursor'[i] = k /\ i \in failed'
      BY <1>2, <1>6, <2>1 DEF Fail
    <3> QED BY <1>1, <1>4, <1>6, <3>1 DEF LoopAt, Last
  <2>2. CASE Invoke(to)
    <3>1. cursor'[i] = IF k >= dsl.count[lo] THEN -1 ELSE k + 1
      BY <1>1, <1>2, <1>6, <2>2 DEF Invoke, NextRound, Is
    <3>2. k \in 0 .. dsl.count[lo] /\ \A c \in Body(lo) : CountIn(path, c) <= k
      BY <1>4, <1>6 DEF LoopAt, Last
    <3>3. cursor'[i] = -1 \/ (cursor'[i] \in 1 .. dsl.count[lo] /\ cursor'[i] - 1 = k)
      BY <1>1, <3>1, <3>2
    <3>4. Occurs(i, path)
      <4>1. path \in Seq(N) /\ path # <<>>
        BY DEF Walking, IInv, TypeOK, PathTypes, N, Runs
      <4> QED BY <1>6, <4>1, LastOccurs
    <3> QED BY <1>1, <1>4, <1>6, <3>2, <3>3, <3>4 DEF LoopAt, Last
  <2> QED BY <1>3, <2>1, <2>2
<1> QED BY <1>5, <1>6

----------------------------------------------------------------------------
(* Steps beside the groups, and out of one component of a group.           *)

\* The path has changed outside of the groups only, and ends there.
Aside ==
  /\ idx <= to /\ idx' = idx /\ to' \in Nat /\ to' <= to
  /\ path' \in Seq(N) /\ path' # <<>> /\ to' <= Len(path') /\ Parent(path'[Len(path')]) = Nothing
  /\ \A k \in DOMAIN path : Parent(path[k]) # Nothing => k \in DOMAIN path' /\ path'[k] = path[k]
  /\ \A k \in DOMAIN path' : Parent(path'[k]) # Nothing => k \in DOMAIN path /\ path'[k] = path[k]
  /\ results' = results /\ (error => error') /\ failed \subseteq failed'
  /\ cursor' = cursor \/ (IsItem(Last) /\ MayEnd(Last) /\ cursor' = [cursor EXCEPT ![Last] = -1])

\* The only component of the batch has left the path.
Drops ==
  /\ idx' \in Nat /\ to' < idx' /\ to' \in Nat /\ to' <= to
  /\ path' \in Seq(N) /\ to' <= Len(path') /\ \A k \in 1 .. to' : path'[k] = path[k]

\* The walk has gone on by at most one component.
Moved ==
  /\ idx = to /\ Len(path) = to /\ idx' = idx /\ to' = to /\ Invoked /\ path # <<>>
  /\ failed' = failed /\ outputs' = outputs /\ results' = results
  /\ error \/ (IsItem(Last) /\ Last \in failed) => error'
  /\ cursor' = cursor \/ (IsItem(Last) /\ MayEnd(Last) /\ cursor' = [cursor EXCEPT ![Last] = -1])
  /\ \/ path' = path /\ Invoked'
     \/ ~Invoked' /\ \E x \in N : path' = Append(path, x) /\ Move(Last, x) /\ (cursor' = cursor \/ Out(Last, x))

\* What goes on from a component outside of the groups stays outside.
LEMMA FreeMoves ==
  ASSUME Walking, NEW c \in N, Free(dsl, c), NEW x \in N, Move(c, x)
  PROVE  Parent(x) = Nothing
<1>1. Parent(c) = Nothing /\ ~Group(dsl, c)
  BY DEF Free, Parent
<1>2. ~IsItem(c) /\ ~Is(c, "exitloop")
  <2>1. IsItem(c) => Parent(c) # Nothing
    BY DslType DEF Walking, IInv, Parent, IsItem
  <2>2. Is(c, "exitloop") => Parent(c) # Nothing
    BY DslType DEF Walking, IInv, Chained, Grouped, N, Is, Parent
  <2> QED BY <1>1, <2>1, <2>2
<1>3. LeadsTo(dsl, c, x)
  BY <1>1, <1>2 DEF Move, ByEdge, Into, Back, Out
<1> QED BY <1>1, <1>3 DEF Walking, Chained, Grouped, N, Parent

\* Components that run beside others are in no group.
LEMMA RunsAside ==
  ASSUME Walking, phase # "idle", RunsBeside
  PROVE  Aside
<1>1. PICK n \in idx .. to : Invoke(n) \/ Fail(n)
  BY DEF RunsBeside
<1>2. /\ path \in Seq(N) /\ path # <<>> /\ Len(path) \in Nat /\ DOMAIN path = 1 .. Len(path)
      /\ to \in Nat /\ to <= Len(path) /\ idx \in Nat /\ idx < to /\ Parent(Last) = Nothing
  BY SoloPlace DEF Walking, RunsBeside
<1>3. Free(dsl, path[n])
  <2>1. \E l \in idx .. to : n # l
    BY <1>2
  <2> QED BY <2>1 DEF Walking, Solo
<1>4. ~IsItem(path[n])
  <2>1. path[n] \in N
    <3>1. n \in DOMAIN path
      <4>1. 1 <= idx
        BY SoloPlace DEF Walking
      <4> QED BY <1>2, <4>1
    <3> QED BY <1>2, <3>1
  <2> QED BY <1>3, <2>1, DslType DEF Walking, IInv, Parent, IsItem, Free
<1>5. cursor' = cursor /\ results' = results /\ failed \subseteq failed'
  <2>1. CASE Invoke(n)
    BY <1>4, <2>1 DEF Invoke, IsItem, Is
  <2>2. CASE Fail(n)
    BY <2>2 DEF Fail
  <2> QED BY <1>1, <2>1, <2>2
<1> QED BY <1>2, <1>5 DEF Aside, RunsBeside, Last

\* A component that leaves the path was alone in the batch, or in no group.
LEMMA DefersAside ==
  ASSUME Walking, Defer
  PROVE  /\ Aside \/ Drops
         /\ failed' = failed /\ results' = results
         /\ path' \in Seq(N) /\ DOMAIN path' \subseteq DOMAIN path
         /\ \A k \in DOMAIN path' : path'[k] = path[k] \/ (k + 1 \in DOMAIN path /\ path'[k] = path[k + 1])
<1>1. /\ phase # "idle" /\ pos <= to /\ to' = to - 1 /\ idx' = idx
      /\ UNCHANGED <<cursor, results, failed, error>>
  BY DEF Defer, values
<1>2. /\ path \in Seq(N) /\ Len(path) = to /\ idx <= pos /\ pos \in 2 .. Len(path)
      /\ path' \in Seq(N) /\ Len(path') = Len(path) - 1
      /\ \A k \in 1 .. Len(path) - 1 : path'[k] = IF k < pos THEN path[k] ELSE path[k + 1]
  BY SoloPlace, DeferPlace DEF Walking, Defer
<1>3. Len(path) \in Nat /\ idx \in Nat /\ 1 <= idx /\ pos \in Nat
  <2>1. idx \in Nat \ {0} /\ Len(path) \in Nat
    BY <1>1, SoloPlace DEF Walking
  <2> QED BY <1>2, <2>1
<1>4. DOMAIN path = 1 .. Len(path) /\ DOMAIN path' = 1 .. Len(path) - 1
  BY <1>2
<1>5. Aside \/ Drops
  <2>1. CASE idx = to
    <3>1. \A k \in 1 .. to - 1 : path'[k] = path[k]
      BY <1>2, <1>3, <2>1
    <3>2. to - 1 < idx /\ to - 1 \in Nat /\ to - 1 <= to /\ to - 1 <= Len(path')
      BY <1>2, <1>3, <2>1
    <3> QED BY <1>1, <1>2, <1>3, <3>1, <3>2 DEF Drops
  <2>2. CASE idx # to
    <3>1. idx < to /\ to - 1 \in Nat /\ to - 1 <= to /\ to - 1 = Len(path') /\ idx <= to - 1
      BY <1>2, <1>3, <2>2
    <3>2. \A k \in idx .. Len(path) : Parent(path[k]) = Nothing
      BY <1>1, <3>1 DEF Walking, Solo
    <3>3. \A k \in 1 .. Len(path) - 1 :
            (k < pos /\ path'[k] = path[k]) \/ (Parent(path'[k]) = Nothing /\ Parent(path[k]) = Nothing)
      <4> TAKE k \in 1 .. Len(path) - 1
      <4>1. k >= pos => k \in idx .. Len(path) /\ k + 1 \in idx .. Len(path)
        BY <1>2, <1>3
      <4> QED BY <1>2, <3>2, <4>1
    <3>4. Parent(path'[Len(path')]) = Nothing
      <4>1. Len(path') \in 1 .. Len(path) - 1 /\ Len(path') \in idx .. Len(path)
        BY <1>2, <1>3, <3>1
      <4> QED BY <3>2, <3>3, <4>1
    <3>5. Parent(path[Len(path)]) = Nothing
      <4>1. Len(path) \in idx .. Len(path)
        BY <1>2, <1>3, <3>1
      <4> QED BY <3>2, <4>1
    <3>6. \A k \in 1 .. Len(path) : k = Len(path) \/ k \in 1 .. Len(path) - 1
      BY <1>3
    <3>7. \A k \in 1 .. Len(path) - 1 : k \in 1 .. Len(path)
      BY <1>3
    <3>8. path' # <<>>
      <4>1. Len(path') # 0
        BY <1>3, <3>1
      <4> QED BY <4>1, EmptySeq
    <3>9. /\ \A k \in DOMAIN path : Parent(path[k]) # Nothing => k \in DOMAIN path' /\ path'[k] = path[k]
          /\ \A k \in DOMAIN path' : Parent(path'[k]) # Nothing => k \in DOMAIN path /\ path'[k] = path[k]
      BY <1>4, <3>3, <3>5, <3>6, <3>7
    <3>10. idx <= to /\ to' \in Nat /\ to' <= to /\ to' <= Len(path')
      BY <1>1, <1>2, <1>3, <3>1
    <3> QED BY <1>1, <1>2, <3>4, <3>8, <3>9, <3>10 DEF Aside
  <2> QED BY <2>1, <2>2
<1>6. \A k \in 1 .. Len(path) - 1 : k + 1 \in 1 .. Len(path) /\ k \in 1 .. Len(path)
  BY <1>3
<1> QED BY <1>1, <1>2, <1>4, <1>5, <1>6

\* Post-processing goes on outside of the groups, or by one component.
LEMMA PostsAside ==
  ASSUME Walking, Post
  PROVE  Aside \/ Moved
<1> DEFINE c == path[pos]
           New == Len(path) + 1 .. Len(path')
<1>1. /\ phase = "post" /\ pos \in idx .. to /\ c \in N
      /\ ~Free(dsl, c) => idx = to /\ pos = to /\ Len(path) = to /\ Last = c
      /\ Free(dsl, c) => \A k \in idx .. Len(path) : Parent(path[k]) = Nothing
  BY PostPlace DEF Walking
<1>2. /\ path \in Seq(N) /\ path # <<>> /\ Len(path) \in Nat /\ DOMAIN path = 1 .. Len(path)
      /\ to \in Nat /\ to <= Len(path)
  BY <1>1, SoloPlace DEF Walking
<1>3. /\ path' \in Seq(N) /\ Len(path') \in Nat /\ DOMAIN path' = 1 .. Len(path')
      /\ Len(path) <= Len(path') /\ \A k \in 1 .. Len(path) : path'[k] = path[k]
      /\ to' = to /\ idx' = idx /\ failed' = failed /\ outputs' = outputs /\ results' = results
      /\ \A k, l \in to + 1 .. Len(path') : k # l => Free(dsl, path'[k])
  BY PostSolo
<1>4. /\ \A k \in New : path'[k] \in N /\ Move(c, path'[k])
      /\ \/ cursor' = cursor
         \/ IsItem(c) /\ MayEnd(c) /\ cursor' = [cursor EXCEPT ![c] = -1] /\ \A k \in New : Out(c, path'[k])
      /\ error \/ (IsItem(c) /\ c \in failed) => error'
  BY Moves DEF Walking, Chained
<1>5. idx <= to /\ idx \in Nat /\ 1 <= idx
  <2>1. idx \in Nat \ {0}
    BY <1>1, SoloPlace DEF Walking
  <2>2. idx \in Nat /\ 1 <= idx
    BY <2>1
  <2>3. pos \in idx .. to /\ to \in Nat
    BY <1>1, <1>2
  <2>4. idx <= to
    BY <2>2, <2>3
  <2> QED BY <2>2, <2>4
<1>6. IsItem(c) => c = Last
  <2>1. IsItem(c) => ~Free(dsl, c)
    BY <1>1, DslType DEF Walking, IInv, Parent, IsItem, Free
  <2> QED BY <1>1, <2>1
<1>7. \A k \in 1 .. Len(path') : k \in New \/ k \in 1 .. Len(path)
  BY <1>2, <1>3
<1>8. \A k \in 1 .. Len(path) : k \in 1 .. Len(path')
  BY <1>2, <1>3
<1>9. Len(path) \in Nat /\ Len(path') \in Nat /\ Len(path) <= Len(path') /\ to \in Nat /\ to <= Len(path)
  BY <1>2, <1>3
<1> HIDE DEF c, New
<1>10. ASSUME \A k \in New : Parent(path'[k]) = Nothing, Parent(path'[Len(path')]) = Nothing
      PROVE  Aside
  <2>1. /\ \A k \in DOMAIN path : Parent(path[k]) # Nothing => k \in DOMAIN path' /\ path'[k] = path[k]
        /\ \A k \in DOMAIN path' : Parent(path'[k]) # Nothing => k \in DOMAIN path /\ path'[k] = path[k]
    BY <1>2, <1>3, <1>7, <1>8, <1>10
  <2>2. path' # <<>>
    <3>1. Len(path) # 0
      BY <1>2, EmptySeq
    <3>2. Len(path') # 0
      BY <1>2, <1>3, <3>1
    <3> QED BY <3>2, EmptySeq
  <2>3. to' \in Nat /\ to' <= to /\ to' <= Len(path')
    BY <1>2, <1>3
  <2> QED BY <1>3, <1>4, <1>5, <1>6, <1>10, <2>1, <2>2, <2>3 DEF Aside
<1>11. CASE Free(dsl, c)
  <2>1. \A k \in New : Parent(path'[k]) = Nothing
    BY <1>1, <1>4, <1>11, FreeMoves
  <2>2. Len(path') \in New \/ Len(path') = Len(path)
    BY <1>9 DEF New
  <2>3. Len(path') = Len(path) => Parent(path'[Len(path')]) = Nothing
    <3>1. Len(path) \in idx .. Len(path) /\ Len(path) \in 1 .. Len(path)
      BY <1>2, <1>5
    <3> QED BY <1>1, <1>3, <1>11, <3>1
  <2> QED BY <1>10, <2>1, <2>2, <2>3
<1>12. CASE ~Free(dsl, c)
  <2>1. idx = to /\ Len(path) = to /\ Last = c /\ Invoked
    BY <1>1, <1>12 DEF Invoked
  <2>2. phase' = "post"
    BY DEF Post
  <2>3. CASE Len(path') = Len(path)
    <3>1. path' = path
      BY <1>2, <1>3, <2>3, SeqEqual
    <3>2. Invoked'
      BY <1>3, <2>1, <2>2, <2>3 DEF Invoked
    <3> QED BY <1>2, <1>3, <1>4, <2>1, <3>1, <3>2 DEF Moved
  <2>4. CASE Len(path') = Len(path) + 1
    <3> DEFINE x == path'[Len(path) + 1]
    <3>1. Len(path) + 1 \in New
      BY <1>2, <2>4 DEF New
    <3>2. x \in N /\ Move(Last, x) /\ (cursor' = cursor \/ Out(Last, x))
      BY <1>4, <2>1, <3>1
    <3>3. path' = Append(path, x)
      <4>1. /\ Append(path, x) \in Seq(N) /\ Len(Append(path, x)) = Len(path) + 1
            /\ Append(path, x)[Len(path) + 1] = x
            /\ \A k \in 1 .. Len(path) : Append(path, x)[k] = path[k]
        BY <1>2, <3>2, AppendProperties
      <4>2. \A k \in 1 .. Len(path') : k = Len(path) + 1 \/ k \in 1 .. Len(path)
        BY <1>2, <2>4
      <4>3. \A k \in 1 .. Len(path') : path'[k] = Append(path, x)[k]
        BY <1>3, <4>1, <4>2
      <4> QED BY <1>3, <2>4, <4>1, <4>3, SeqEqual
    <3>4. ~Invoked'
      <4>1. Len(path') # to'
        BY <1>2, <1>3, <2>1, <2>4
      <4> QED BY <4>1 DEF Invoked
    <3> QED BY <1>2, <1>3, <1>4, <2>1, <3>2, <3>3, <3>4 DEF Moved
  <2>5. CASE Len(path') > Len(path) + 1
    <3>1. \A k \in New : Parent(path'[k]) = Nothing
      <4> TAKE k \in New
      <4>1. \E l \in to + 1 .. Len(path') : l # k
        <5>1. Len(path) + 1 \in to + 1 .. Len(path') /\ Len(path') \in to + 1 .. Len(path')
              /\ Len(path) + 1 # Len(path')
          BY <1>9, <2>1, <2>5
        <5> QED BY <5>1
      <4>2. k \in to + 1 .. Len(path')
        BY <1>2, <2>1 DEF New
      <4> QED BY <1>3, <4>1, <4>2 DEF Free, Parent
    <3>2. Len(path') \in New
      BY <1>9, <2>5 DEF New
    <3> QED BY <1>10, <3>1, <3>2
  <2> QED BY <1>9, <2>3, <2>4, <2>5
<1> QED BY <1>11, <1>12

\* A path is its own front.
LEMMA PrefixAll ==
  ASSUME NEW S, NEW p \in Seq(S)
  PROVE  Prefix(p, Len(p)) = p
<1>1. /\ Prefix(p, Len(p)) \in Seq(S) /\ Len(Prefix(p, Len(p))) = Len(p)
      /\ \A j \in 1 .. Len(p) : Prefix(p, Len(p))[j] = p[j]
  BY PrefixType
<1> QED BY <1>1, SeqEqual

\* What Begin alone holds of a component.
LEMMA BeginOnly ==
  ASSUME NEW c, c # "begin"
  PROVE  CountIn(<<"begin">>, c) = 0 /\ ~Occurs(c, <<"begin">>) /\ Prefix(<<"begin">>, 1) = <<"begin">>
<1>1. {j \in DOMAIN <<"begin">> : <<"begin">>[j] = c} = {}
  OBVIOUS
<1>2. <<"begin">> \in Seq({"begin"}) /\ Len(<<"begin">>) = 1
  OBVIOUS
<1>3. Prefix(<<"begin">>, 1) = <<"begin">>
  BY <1>2, PrefixAll
<1> QED BY <1>1, <1>3, FS_EmptySet DEF CountIn, Occurs

\* The counts of what is behind the batch's end.
LEMMA CountPrefix ==
  ASSUME NEW S, NEW p \in Seq(S), NEW q \in Seq(S), NEW n \in 0 .. Len(p), NEW m \in 0 .. Len(q),
         m <= n, NEW c, \A j \in 1 .. m : q[j] = c => p[j] = c
  PROVE  CountIn(Prefix(q, m), c) <= CountIn(Prefix(p, n), c)
<1>1. /\ Prefix(p, n) \in Seq(S) /\ Len(Prefix(p, n)) = n
      /\ \A j \in 1 .. n : Prefix(p, n)[j] = p[j]
  BY PrefixType
<1>2. /\ Prefix(q, m) \in Seq(S) /\ Len(Prefix(q, m)) = m
      /\ \A j \in 1 .. m : Prefix(q, m)[j] = q[j]
  BY PrefixType
<1>3. DOMAIN Prefix(p, n) = 1 .. n /\ DOMAIN Prefix(q, m) = 1 .. m
  BY <1>1, <1>2
<1>4. \A j \in 1 .. m : j \in 1 .. n
  OBVIOUS
<1> QED BY <1>1, <1>2, <1>3, <1>4, CountWithin

\* A path that ends outside of the groups keeps a Loop's place.
LEMMA LoopBeside ==
  ASSUME Walking, NEW lo \in Loops, NEW p, Parent(p[Len(p)]) = Nothing,
         NEW k, NEW ran, NEW bad, LoopAt(lo, path, k, ran, bad), path \in Seq(N), p \in Seq(N),
         \A c \in Body(lo) : CountIn(p, c) <= CountIn(path, c),
         Occurs(dsl.start[lo], path) => Occurs(dsl.start[lo], p),
         NEW m, m = k \/ Occurs(dsl.start[lo], path), NEW ran2, NEW bad2
  PROVE  LoopAt(lo, p, m, ran2, bad2)
<1> DEFINE i == dsl.start[lo]
<1>1. /\ Parent(i) = lo /\ lo # Nothing /\ dsl.count[lo] \in Nat
      /\ \A c \in Body(lo) : Parent(c) = lo
  <2>1. lo \in N /\ Group(dsl, lo) /\ Is(lo, "loop")
    BY DEF Loops, Group, Is
  <2> QED BY <2>1, GroupParts
<1>2. p[Len(p)] # i /\ p[Len(p)] \notin Body(lo)
  BY <1>1
<1>3. /\ \A c \in Body(lo) : CountIn(path, c) <= dsl.count[lo]
      /\ ~Occurs(i, path) => k = 0 /\ \A c \in Body(lo) : CountIn(path, c) <= 0
  BY DEF LoopAt
<1>4. \A c : CountIn(p, c) \in Nat /\ CountIn(path, c) \in Nat
  BY CountType
<1>5. \A c \in Body(lo) : CountIn(p, c) <= dsl.count[lo]
  BY <1>1, <1>3, <1>4
<1>6. ~Occurs(i, p) => m = 0 /\ \A c \in Body(lo) : CountIn(p, c) <= 0
  BY <1>3, <1>4
<1> QED BY <1>2, <1>5, <1>6 DEF LoopAt

\* LoopsOK is kept.
LEMMA StepLoops ==
  ASSUME Walking, WalkStep, phase # "idle" /\ FirstRun => Upward /\ LoopsOK
  PROVE  LoopsOK'
<1>1. /\ path \in Seq(N) /\ cursor \in [N -> Int] /\ to \in Nat
      /\ phase # "idle" => to <= Len(path)
  BY DEF Walking, IInv, TypeOK, PathTypes, ValueTypes, N
<1>2. /\ Loops' = Loops /\ \A lo : Body(lo)' = Body(lo)
      /\ dsl' = dsl
  BY DEF Walking, Loops, Body, Is, N, Nodes, Parent
<1>3. ASSUME NEW lo \in Loops
      PROVE  /\ lo \in N /\ dsl.start[lo] \in N /\ dsl.start[lo] # "begin" /\ dsl.count[lo] \in Nat
             /\ Parent(dsl.start[lo]) = lo /\ IsItem(dsl.start[lo]) /\ lo # Nothing
             /\ \A c \in Body(lo) : c # "begin" /\ Parent(c) = lo
             /\ "begin" \notin Body(lo)
  <2>1. lo \in N /\ Group(dsl, lo) /\ Is(lo, "loop")
    BY DEF Loops, Group, Is
  <2> QED BY <2>1, GroupParts DEF Is, IsItem
<1>4. SUFFICES /\ \A lo \in Loops : \A c \in Body(lo) : CountIn(Prefix(path', to'), c) <= dsl.count[lo]
               /\ ~error' /\ idx' <= to' => \A lo \in Loops :
                    LoopAt(lo, path', cursor'[dsl.start[lo]], Invoked', dsl.start[lo] \in failed')
  BY <1>2 DEF Walking, LoopsOK, LoopIs, LoopAt, CountIn, Prefix
<1>5. CASE Starts
  <2>1. path' = <<"begin">> /\ to' = 1 /\ Len(path') = 1 /\ path'[1] = "begin"
    BY <1>5 DEF Starts
  <2> SUFFICES ASSUME NEW lo \in Loops
               PROVE  /\ \A c \in Body(lo) : CountIn(path', c) = 0
                      /\ LoopAt(lo, path', cursor'[dsl.start[lo]], Invoked', dsl.start[lo] \in failed')
    BY <1>3, <2>1, BeginOnly
  <2>2. cursor'[dsl.start[lo]] = 0
    BY <1>3, <1>5 DEF Starts
  <2>3. \A c \in Body(lo) : CountIn(path', c) = 0
    BY <1>3, <2>1, BeginOnly
  <2> QED BY <1>3, <2>1, <2>2, <2>3 DEF LoopAt
<1>6. CASE phase # "idle" /\ FirstRun /\ Keeps
  <2>1. path' = path /\ cursor' = cursor /\ failed' = failed /\ error' = error
    BY <1>6 DEF Keeps, values
  <2>2. ASSUME NEW lo \in Loops, NEW c \in Body(lo) PROVE CountIn(Prefix(path', to'), c) <= dsl.count[lo]
    <3>1. CASE to' = to
      BY <1>6, <2>1, <3>1 DEF LoopsOK
    <3>2. CASE idx <= to /\ ~error /\ to' = Len(path)
      <4>1. CountIn(path, c) <= dsl.count[lo]
        BY <1>6, <3>2 DEF LoopsOK, LoopIs, LoopAt
      <4> QED BY <1>1, <2>1, <3>2, <4>1, PrefixAll
    <3> QED BY <1>6, <3>1, <3>2 DEF Keeps
  <2>3. ASSUME ~error', idx' <= to', NEW lo \in Loops
        PROVE  LoopAt(lo, path', cursor'[dsl.start[lo]], Invoked', dsl.start[lo] \in failed')
    <3>1. idx <= to /\ Invoked' = Invoked
      BY <1>6, <2>3 DEF Keeps
    <3>2. LoopIs(lo)
      BY <1>6, <2>1, <2>3, <3>1 DEF LoopsOK
    <3> QED BY <2>1, <3>1, <3>2 DEF LoopIs
  <2> QED BY <2>2, <2>3
<1>7. CASE phase # "idle" /\ FirstRun /\ Drops
  <2>1. to \in 0 .. Len(path) /\ to' \in 0 .. Len(path') /\ to' <= to /\ path' \in Seq(N)
        /\ \A k \in 1 .. to' : path'[k] = path[k]
    BY <1>1, <1>7 DEF Drops
  <2>2. ASSUME NEW lo \in Loops, NEW c \in Body(lo) PROVE CountIn(Prefix(path', to'), c) <= dsl.count[lo]
    <3>1. CountIn(Prefix(path, to), c) <= dsl.count[lo]
      BY <1>7 DEF LoopsOK
    <3>2. CountIn(Prefix(path', to'), c) <= CountIn(Prefix(path, to), c)
      BY <1>1, <2>1, CountPrefix
    <3>3. CountIn(Prefix(path, to), c) \in Nat /\ CountIn(Prefix(path', to'), c) \in Nat
      BY <1>1, <2>1, PrefixType, CountType
    <3> QED BY <1>3, <3>1, <3>2, <3>3
  <2>3. ~(idx' <= to')
    BY <1>7 DEF Drops
  <2> QED BY <2>2, <2>3
<1>8. CASE phase # "idle" /\ FirstRun /\ Aside
  <2>1. to \in 0 .. Len(path) /\ to' \in 0 .. Len(path') /\ to' <= to /\ path' \in Seq(N) /\ path' # <<>>
        /\ Len(path) \in Nat
    BY <1>1, <1>8 DEF Aside
  <2>2. /\ \A k \in DOMAIN path : Parent(path[k]) # Nothing => k \in DOMAIN path' /\ path'[k] = path[k]
        /\ \A k \in DOMAIN path' : Parent(path'[k]) # Nothing => k \in DOMAIN path /\ path'[k] = path[k]
        /\ idx <= to /\ (error => error') /\ Parent(path'[Len(path')]) = Nothing
        /\ cursor' = cursor \/ (IsItem(Last) /\ cursor' = [cursor EXCEPT ![Last] = -1])
    BY <1>8 DEF Aside
  <2>3. ASSUME NEW lo \in Loops, NEW c \in Body(lo) PROVE CountIn(Prefix(path', to'), c) <= dsl.count[lo]
    <3>1. CountIn(Prefix(path, to), c) <= dsl.count[lo]
      BY <1>8 DEF LoopsOK
    <3>2. \A k \in 1 .. to' : path'[k] = c => path[k] = c
      <4>1. \A k \in 1 .. to' : k \in DOMAIN path'
        BY <2>1
      <4> QED BY <1>3, <2>2, <4>1
    <3>3. CountIn(Prefix(path', to'), c) <= CountIn(Prefix(path, to), c)
      BY <1>1, <2>1, <3>2, CountPrefix
    <3>4. CountIn(Prefix(path, to), c) \in Nat /\ CountIn(Prefix(path', to'), c) \in Nat
      BY <1>1, <2>1, PrefixType, CountType
    <3> QED BY <1>3, <3>1, <3>3, <3>4
  <2>4. ASSUME ~error', NEW lo \in Loops
        PROVE  LoopAt(lo, path', cursor'[dsl.start[lo]], Invoked', dsl.start[lo] \in failed')
    <3> DEFINE i == dsl.start[lo]
    <3>1. LoopAt(lo, path, cursor[i], Invoked, i \in failed)
      BY <1>8, <2>2, <2>4 DEF LoopsOK, LoopIs
    <3>2. \A c \in Body(lo) : CountIn(path', c) <= CountIn(path, c)
      BY <1>1, <1>3, <2>1, <2>2, CountWithin
    <3>3. Occurs(i, path) => Occurs(i, path')
      BY <1>3, <2>2 DEF Occurs
    <3>4. cursor'[i] = cursor[i] \/ Occurs(i, path)
      <4>1. cursor'[i] = cursor[i] \/ Last = i
        BY <1>1, <1>3, <2>2
      <4>2. Last = i => Occurs(i, path)
        <5>1. path # <<>>
          BY <1>8 DEF FirstRun
        <5> QED BY <1>1, <5>1, LastOccurs
      <4> QED BY <4>1, <4>2
    <3> QED BY <1>1, <2>1, <2>2, <3>1, <3>2, <3>3, <3>4, LoopBeside
  <2> QED BY <2>3, <2>4
<1>9. CASE phase # "idle" /\ FirstRun /\ Runs
  <2>1. path' = path /\ to' = to /\ idx' = idx /\ error' = error /\ idx = to /\ Invoked'
    BY <1>9 DEF Runs
  <2>2. ASSUME ~error', NEW lo \in Loops
        PROVE  LoopAt(lo, path', cursor'[dsl.start[lo]], Invoked', dsl.start[lo] \in failed')
    <3>1. LoopIs(lo)
      <4>1. idx <= to
        BY <1>1, <2>1
      <4> QED BY <1>9, <2>1, <2>2, <4>1 DEF LoopsOK
    <3>2. Invoked' = TRUE
      BY <2>1
    <3> QED BY <1>9, <2>1, <3>1, <3>2, LoopRun
  <2> QED BY <1>9, <2>1, <2>2 DEF LoopsOK
<1>10. CASE phase # "idle" /\ FirstRun /\ Moved
  <2>1. /\ idx = to /\ Len(path) = to /\ to' = to /\ idx' = idx /\ Invoked /\ failed' = failed
        /\ path # <<>> /\ idx <= to
    BY <1>1, <1>10 DEF Moved
  <2>2. /\ \/ path' = path /\ Invoked'
           \/ ~Invoked' /\ \E x \in N : path' = Append(path, x) /\ Move(Last, x) /\ (cursor' = cursor \/ Out(Last, x))
        /\ cursor' = cursor \/ (IsItem(Last) /\ cursor' = [cursor EXCEPT ![Last] = -1])
        /\ error \/ (IsItem(Last) /\ Last \in failed) => error'
    BY <1>10 DEF Moved
  <2>3. ASSUME NEW lo \in Loops, NEW c \in Body(lo) PROVE CountIn(Prefix(path', to'), c) <= dsl.count[lo]
    <3>1. CountIn(Prefix(path, to), c) <= dsl.count[lo]
      BY <1>10 DEF LoopsOK
    <3>2. path' \in Seq(N) /\ to \in 0 .. Len(path) /\ to \in 0 .. Len(path') /\ \A j \in 1 .. to : path'[j] = path[j]
      <4>1. to \in 0 .. Len(path) /\ \A j \in 1 .. to : j \in 1 .. Len(path)
        BY <1>1, <2>1
      <4>2. CASE path' = path
        BY <1>1, <4>1, <4>2
      <4>3. CASE path' # path
        <5>1. PICK x \in N : path' = Append(path, x)
          BY <2>2, <4>3
        <5>2. /\ path' \in Seq(N) /\ Len(path) \in Nat /\ Len(path') = Len(path) + 1
              /\ \A j \in 1 .. Len(path) : path'[j] = path[j]
          BY <1>1, <5>1, Longer
        <5>3. to \in 0 .. Len(path')
          BY <4>1, <5>2
        <5> QED BY <4>1, <5>2, <5>3
      <4> QED BY <4>2, <4>3
    <3>3. CountIn(Prefix(path', to), c) <= CountIn(Prefix(path, to), c)
      <4>1. to <= to /\ \A j \in 1 .. to : path'[j] = c => path[j] = c
        BY <1>1, <3>2
      <4> QED BY <1>1, <3>2, <4>1, CountPrefix
    <3>4. CountIn(Prefix(path, to), c) \in Nat /\ CountIn(Prefix(path', to), c) \in Nat
      BY <1>1, <3>2, PrefixType, CountType
    <3> QED BY <1>3, <2>1, <3>1, <3>3, <3>4
  <2>4. ASSUME ~error', NEW lo \in Loops
        PROVE  LoopAt(lo, path', cursor'[dsl.start[lo]], Invoked', dsl.start[lo] \in failed')
    <3> DEFINE i == dsl.start[lo]
    <3>1. ~error /\ ~(IsItem(Last) /\ Last \in failed)
      BY <2>2, <2>4
    <3>2. LoopAt(lo, path, cursor[i], TRUE, i \in failed)
      <4>1. LoopIs(lo) /\ Invoked = TRUE
        BY <1>10, <2>1, <3>1 DEF LoopsOK, Invoked
      <4> QED BY <4>1 DEF LoopIs
    <3>3. cursor'[i] = cursor[i] \/ (Last = i /\ cursor'[i] = -1)
      BY <1>1, <1>3, <2>2
    <3>4. Last = i => i \notin failed
      BY <1>3, <3>1
    <3>5. CASE path' = path /\ Invoked'
      <4>1. Invoked' = TRUE
        BY <3>5 DEF Invoked
      <4>2. Last = i => Occurs(i, path)
        BY <1>1, <2>1, LastOccurs
      <4>3. failed' = failed /\ i \notin Body(lo)
        BY <2>1 DEF Body
      <4>4. CASE cursor'[i] = cursor[i]
        BY <3>2, <3>5, <4>1, <4>3, <4>4
      <4>5. CASE Last = i /\ cursor'[i] = -1
        <5>1. LoopAt(lo, path, -1, TRUE, i \in failed)
          BY <3>2, <4>2, <4>3, <4>5 DEF LoopAt, Last
        <5> QED BY <3>5, <4>1, <4>3, <4>5, <5>1
      <4> QED BY <3>3, <4>4, <4>5
    <3>6. CASE ~Invoked' /\ \E x \in N : path' = Append(path, x) /\ Move(Last, x) /\ (cursor' = cursor \/ Out(Last, x))
      <4>1. PICK x \in N : path' = Append(path, x) /\ Move(Last, x) /\ (cursor' = cursor \/ Out(Last, x))
        BY <3>6
      <4>2. Invoked' = FALSE
        BY <3>6 DEF Invoked
      <4>3. cursor'[i] = cursor[i] \/ (Last = i /\ Out(Last, x))
        BY <3>3, <4>1
      <4> QED BY <1>10, <2>1, <3>2, <3>4, <4>1, <4>2, <4>3, LoopMove
    <3> QED BY <2>2, <3>5, <3>6
  <2> QED BY <2>1, <2>3, <2>4
<1> QED BY <1>5, <1>6, <1>7, <1>8, <1>9, <1>10, RunsAside, DefersAside, PostsAside DEF WalkStep

\* The list of one more item.
LEMMA UptoNext ==
  ASSUME NEW n \in Nat
  PROVE  Append(Upto(n), n) = Upto(n + 1)
<1>1. \A m \in Nat : Upto(m) \in Seq(Nat) /\ Len(Upto(m)) = m /\ \A j \in 1 .. m : Upto(m)[j] = j - 1
  <2> TAKE m \in Nat
  <2>1. \A j \in 1 .. m : j - 1 \in Nat
    OBVIOUS
  <2>2. Upto(m) \in Seq(Nat)
    BY <2>1, IsASeq DEF Upto
  <2> QED BY <2>2 DEF Upto
<1>2. /\ Append(Upto(n), n) \in Seq(Nat) /\ Len(Append(Upto(n), n)) = n + 1
      /\ Append(Upto(n), n)[n + 1] = n
      /\ \A j \in 1 .. n : Append(Upto(n), n)[j] = Upto(n)[j]
  <2>1. Upto(n) \in Seq(Nat) /\ Len(Upto(n)) = n
    BY <1>1
  <2> DEFINE u == Upto(n)
  <2> HIDE DEF u
  <2>2. u \in Seq(Nat) /\ Len(u) = n
    BY <2>1 DEF u
  <2>3. /\ Append(u, n) \in Seq(Nat) /\ Len(Append(u, n)) = n + 1 /\ Append(u, n)[n + 1] = n
        /\ \A j \in 1 .. n : Append(u, n)[j] = u[j]
    BY <2>2, AppendProperties
  <2> QED BY <2>3 DEF u
<1>3. n + 1 \in Nat
  OBVIOUS
<1>4. ASSUME NEW j \in 1 .. n + 1 PROVE Append(Upto(n), n)[j] = Upto(n + 1)[j]
  <2>1. Upto(n + 1)[j] = j - 1
    BY <1>1, <1>3
  <2>2. CASE j = n + 1
    BY <1>2, <2>1, <2>2
  <2>3. CASE j \in 1 .. n
    BY <1>1, <1>2, <2>1, <2>3
  <2>4. j = n + 1 \/ j \in 1 .. n
    OBVIOUS
  <2> QED BY <2>2, <2>3, <2>4
<1> QED BY <1>1, <1>2, <1>3, <1>4, SeqEqual

\* An Iteration and its item.
LEMMA IterationParts ==
  ASSUME Walking, NEW it \in Iterations
  PROVE  LET i == dsl.start[it] IN
         /\ it \in N /\ Group(dsl, it) /\ i \in N /\ Parent(i) = it /\ Parent(it) = Nothing
         /\ it # Nothing /\ i # it /\ i \notin Body(it) /\ IsItem(i) /\ Is(i, "iterationitem")
         /\ dsl.count[it] \in Nat /\ i # "begin"
         /\ \A c \in Body(it) : c \in N /\ Parent(c) = it /\ ~IsItem(c) /\ ~Group(dsl, c) /\ c # "begin"
         /\ \A c \in N : Parent(c) = it <=> c = i \/ c \in Body(it)
         /\ Is(it, "iteration")
<1>1. it \in N /\ Group(dsl, it) /\ Is(it, "iteration") /\ ~Is(it, "loop")
  BY DEF Iterations, Group, Is
<1> QED BY <1>1, GroupParts DEF Is, IsItem

\* A move of the walk keeps an Iteration's place in it.
LEMMA IterationMove ==
  ASSUME Walking, Upward, path # <<>>, NEW it \in Iterations, NEW x \in N, Move(Last, x),
         NEW k, NEW m, NEW list, IterationAt(it, path, k, TRUE, outputs, list),
         m = k \/ (Last = dsl.start[it] /\ Out(Last, x)),
         Last = dsl.start[it] => k = cursor[Last]
  PROVE  IterationAt(it, Append(path, x), m, FALSE, outputs, list)
<1> DEFINE i == dsl.start[it]
           p == Append(path, x)
<1>1. path \in Seq(N) /\ Last \in N /\ Last = path[Len(path)]
      /\ Len(path) \in DOMAIN path
  BY Shorter, Longer DEF Walking, IInv, TypeOK, PathTypes, N, Last
<1>2. /\ it \in N /\ Group(dsl, it) /\ i \in N /\ Parent(i) = it /\ Parent(it) = Nothing
      /\ it # Nothing /\ i \notin Body(it) /\ IsItem(i) /\ dsl.count[it] \in Nat
      /\ \A c \in Body(it) : c \in N /\ Parent(c) = it /\ ~IsItem(c)
      /\ \A c \in N : Parent(c) = it <=> c = i \/ c \in Body(it)
  BY IterationParts
<1>3. p[Len(p)] = x /\ \A c : Occurs(c, p) <=> Occurs(c, path) \/ c = x
  BY <1>1, Longer
<1>4. Occurs(Last, path)
  BY <1>1 DEF Occurs
<1>5. /\ ~Occurs(i, path) => k = 0 /\ list = Upto(0)
      /\ Last = i =>
           \/ k = -1 /\ list = Upto(dsl.count[it])
           \/ k \in 1 .. dsl.count[it] /\ outputs[i] = k - 1 /\ list = Upto(k - 1)
      /\ Last \in Body(it) =>
           k \in 1 .. dsl.count[it] /\ outputs[i] = k - 1 /\ list = Upto(k - 1) /\ outputs[Last] = k - 1
  BY DEF IterationAt, Last
<1> DEFINE Goal ==
      /\ ~Occurs(i, p) => m = 0 /\ list = Upto(0)
      /\ x = i =>
           /\ m \in 0 .. dsl.count[it]
           /\ m = 0 => list = Upto(0)
           /\ m > 0 => list = Upto(m - 1) /\ outputs[dsl.collect[it]] = m - 1
      /\ x \in Body(it) => m \in 1 .. dsl.count[it] /\ outputs[i] = m - 1 /\ list = Upto(m - 1)
<1> SUFFICES Goal
  BY <1>3 DEF IterationAt
<1> HIDE DEF i, p
<1>6. CASE x # i /\ x \notin Body(it)
  BY <1>3, <1>4, <1>5, <1>6 DEF i
<1>7. CASE x = i
  <2>1. m = k
    BY <1>1, <1>2, <1>7, MoveEnds
  <2>2. CASE Into(Last, x)
    <3>1. Last = it /\ ~Occurs(i, path)
      BY <1>1, <1>2, <1>7, <2>2, MoveEnds, NotYetIn DEF Into, i
    <3> QED BY <1>2, <1>3, <1>5, <1>7, <2>1, <3>1
  <2>3. CASE Back(Last, x)
    <3>1. Last \in Body(it) /\ Parent(Last) = it
      BY <1>1, <1>2, <1>7, <2>3, MoveEnds DEF Back
    <3>2. Last = dsl.collect[it]
      <4>1. Is(it, "iteration") /\ dsl.kind[Last] \notin {"switch", "iterationitem"} /\ dsl.downstream[Last] = <<>>
        BY <2>3 DEF Iterations, Back, IsItem, Is
      <4> QED BY <1>1, <1>2, <3>1, <4>1 DEF Walking, Chained, Collects, N, Parent, Is
    <3> QED BY <1>2, <1>3, <1>5, <1>7, <2>1, <3>1, <3>2
  <2> QED BY <1>1, <1>2, <1>7, <2>2, <2>3, MoveEnds DEF Move
<1>8. CASE x \in Body(it)
  <2>1. ByEdge(Last, x) /\ Parent(Last) = it /\ m = k
    BY <1>1, <1>2, <1>8, MoveEnds DEF Move
  <2>2. Last = i => k # -1
    BY <1>2, <2>1 DEF ByEdge, i
  <2>3. k \in 1 .. dsl.count[it] /\ outputs[i] = k - 1 /\ list = Upto(k - 1)
    BY <1>1, <1>2, <1>5, <2>1, <2>2
  <2>4. Occurs(i, p)
    BY <1>2, <1>3, <1>5, <2>3
  <2> QED BY <1>2, <1>8, <2>1, <2>3, <2>4
<1> QED BY <1>6, <1>7, <1>8

\* What follows an Iteration comes behind its last item only.
LEMMA BehindMove ==
  ASSUME Walking, failed = {}, NEW it \in Iterations, NEW c \in N, NEW x \in N, Move(c, x),
         Occurs(x, dsl.downstream[it])
  PROVE  c = dsl.start[it] /\ cursor[c] = -1
<1>1. /\ it \in N /\ Group(dsl, it) /\ Is(it, "iteration") /\ LeadsTo(dsl, it, x)
      /\ \A y \in N : LeadsTo(dsl, y, x) => y = it
  <2>1. it \in N /\ Group(dsl, it) /\ Is(it, "iteration")
    BY IterationParts
  <2>2. LeadsTo(dsl, it, x)
    BY DEF LeadsTo
  <2>3. \A y \in N : LeadsTo(dsl, y, x) => y = it
    BY <2>1 DEF Walking, Chained, Collects, N, Is
  <2> QED BY <2>1, <2>2, <2>3
<1>2. ~IsItem(x)
  BY <1>1 DEF Walking, Chained, Grouped, N, IsItem, Item
<1>3. ~ByEdge(c, x)
  BY <1>1 DEF ByEdge
<1>4. Out(c, x)
  BY <1>2, <1>3, MoveEnds DEF Move
<1>5. Parent(c) \in N
  BY <1>4, MoveEnds, DslType DEF Walking, IInv, Parent
<1>6. Parent(c) = it
  BY <1>1, <1>4, <1>5 DEF Out, LeadsTo
<1>7. ~Is(c, "exitloop")
  BY <1>1, <1>6 DEF Walking, Chained, Grouped, N, Parent, Is
<1>8. IsItem(c)
  BY <1>4, <1>7 DEF Out
<1>9. c = dsl.start[it] /\ Is(c, "iterationitem")
  BY <1>6, <1>8, IterationParts
<1> QED BY <1>4, <1>9 DEF Out

\* An Iteration that is left is not entered again.
LEMMA NotBehind ==
  ASSUME Walking, Upward, path # <<>>, NEW it \in Iterations, ItemFirst(it), Last = dsl.start[it]
  PROVE  ~Behind(it)
<1>1. path \in Seq(N) /\ DOMAIN path = 1 .. Len(path) /\ Len(path) \in Nat \ {0} /\ Last \in N
  BY Shorter DEF Walking, IInv, TypeOK, PathTypes, N, Last
<1>2. it \in N /\ it # Nothing /\ Parent(Last) = it /\ Parent(it) = Nothing /\ IsItem(Last)
  BY IterationParts
<1>3. ASSUME NEW x \in N, Occurs(x, dsl.downstream[it]), NEW k \in DOMAIN path, path[k] = x
      PROVE  FALSE
  <2>1. LeadsTo(dsl, it, x)
    BY <1>3 DEF LeadsTo
  <2>2. Parent(x) = Nothing
    BY <1>2, <2>1 DEF Walking, Chained, Grouped, N, Parent
  <2>3. PICK j \in 1 .. k - 1 : path[j] = dsl.start[it]
    BY <1>3 DEF ItemFirst
  <2>4. k # Len(path)
    BY <1>2, <1>3, <2>2 DEF Last
  <2>5. j \in DOMAIN path /\ Len(path) \in DOMAIN path /\ j < Len(path) /\ k \in j + 1 .. Len(path)
    BY <1>1, <1>3, <2>3, <2>4
  <2>6. ~Free(dsl, path[j])
    BY <1>2, <2>3 DEF Free, Parent
  <2>7. Level(path[j]) < Level(path[Len(path)])
    BY <1>3, <2>2, <2>5, <2>6 DEF Upward
  <2>8. Level(Last) \in Nat
    BY <1>1, <1>2 DEF Level, Walking, Ranks, N
  <2> QED BY <2>3, <2>7, <2>8 DEF Last
<1> QED BY <1>3 DEF Behind, Occurs

\* Running the component at the end of the path keeps an Iteration's place.
LEMMA IterationRun ==
  ASSUME Walking, Upward, NEW it \in Iterations, ItemFirst(it), Runs, IterationIs(it), failed' = {},
         Behind(it) => results[it] = Upto(dsl.count[it])
  PROVE  /\ IterationAt(it, path, cursor'[dsl.start[it]], TRUE, outputs', results'[it])
         /\ Behind(it) => results'[it] = Upto(dsl.count[it])
<1> DEFINE i == dsl.start[it]
           k == cursor[i]
<1>1. /\ it \in N /\ i \in N /\ Parent(i) = it /\ Is(i, "iterationitem") /\ IsItem(i)
      /\ i \notin Body(it) /\ dsl.count[it] \in Nat /\ Is(it, "iteration") /\ it # Nothing
      /\ \A c \in Body(it) : c \in N /\ Parent(c) = it /\ ~IsItem(c)
      /\ \A c \in N : Parent(c) = it <=> c = i \/ c \in Body(it)
  BY IterationParts
<1>2. /\ cursor \in [N -> Int] /\ outputs \in [N -> Outputs] /\ results \in [N -> Seq(Outputs)]
      /\ path[to] = Last /\ ~Invoked /\ path # <<>> /\ path \in Seq(N) /\ Last \in N
  BY Shorter DEF Walking, IInv, TypeOK, PathTypes, ValueTypes, N, Runs, Last
<1>3. Invoke(to)
  <2>1. ~Fail(to)
    BY DEF Fail
  <2> QED BY <2>1 DEF Runs
<1>4. IterationAt(it, path, k, FALSE, outputs, results[it])
  <2>1. Invoked = FALSE
    BY <1>2 DEF Invoked
  <2> QED BY <2>1 DEF IterationIs
<1>5. CASE Last = i
  <2>1. NextItem(i)
    BY <1>1, <1>2, <1>3, <1>5 DEF Invoke, Is
  <2>2. /\ k \in 0 .. dsl.count[it]
        /\ k = 0 => results[it] = Upto(0)
        /\ k > 0 => results[it] = Upto(k - 1) /\ outputs[dsl.collect[it]] = k - 1
    BY <1>4, <1>5 DEF IterationAt, Last
  <2>3. results'[it] = Upto(k)
    <3>1. CASE k = 0
      BY <1>1, <2>1, <2>2, <3>1 DEF NextItem
    <3>2. CASE k > 0
      <4>1. results'[it] = Append(results[it], outputs[dsl.collect[it]])
        BY <1>1, <1>2, <2>1, <3>2 DEF NextItem
      <4>2. k - 1 \in Nat /\ k - 1 + 1 = k
        BY <1>1, <2>2, <3>2
      <4> QED BY <2>2, <3>2, <4>1, <4>2, UptoNext
    <3> QED BY <1>1, <2>2, <3>1, <3>2
  <2>4. Occurs(i, path)
    BY <1>2, <1>5, LastOccurs
  <2>5. ~Behind(it)
    BY <1>2, <1>5, NotBehind
  <2>6. CASE k >= dsl.count[it]
    <3>1. cursor'[i] = -1 /\ k = dsl.count[it]
      <4>1. k = dsl.count[it]
        BY <1>1, <2>2, <2>6
      <4>2. cursor'[i] = -1
        BY <1>1, <1>2, <2>1, <2>6 DEF NextItem
      <4> QED BY <4>1, <4>2
    <3> QED BY <1>1, <1>5, <2>3, <2>4, <2>5, <3>1 DEF IterationAt, Last
  <2>7. CASE ~(k >= dsl.count[it])
    <3>1. cursor'[i] = k + 1 /\ outputs'[i] = k
      BY <1>1, <1>2, <2>1, <2>2, <2>7 DEF NextItem, ItemAt
    <3>2. cursor'[i] \in 1 .. dsl.count[it] /\ cursor'[i] - 1 = k
      BY <1>1, <2>2, <2>7, <3>1
    <3> QED BY <1>1, <1>5, <2>3, <2>4, <2>5, <3>1, <3>2 DEF IterationAt, Last
  <2> QED BY <2>6, <2>7
<1>6. CASE Last # i
  <2>1. cursor'[i] = k /\ results'[it] = results[it] /\ outputs'[i] = outputs[i]
    <3>1. CASE IsItem(Last)
      <4>1. Parent(Last) # it
        BY <1>1, <1>2, <1>6, <3>1
      <4>2. Is(Last, "iterationitem") => NextItem(Last)
        BY <1>2, <1>3 DEF Invoke
      <4>3. Is(Last, "loopitem") => NextRound(Last)
        BY <1>2, <1>3 DEF Invoke, Is
      <4> QED BY <1>1, <1>2, <1>6, <3>1, <4>1, <4>2, <4>3 DEF NextItem, NextRound, IsItem, Is
    <3>2. CASE ~IsItem(Last)
      BY <1>1, <1>2, <1>3, <1>6, <3>2 DEF Invoke, IsItem, Is
    <3> QED BY <3>1, <3>2
  <2>2. Last \in Body(it) => outputs'[Last] = outputs[i]
    <3> SUFFICES ASSUME Last \in Body(it) PROVE outputs'[Last] = outputs[i]
      OBVIOUS
    <3>1. outputs' = [outputs EXCEPT ![Last] = Work(Last)]
      BY <1>1, <1>2, <1>3 DEF Invoke, IsItem, Is
    <3>2. Work(Last) = outputs[i]
      BY <1>1 DEF Work, InGroup
    <3> QED BY <1>2, <3>1, <3>2
  <2> QED BY <1>4, <1>6, <2>1, <2>2 DEF IterationAt, Last
<1> QED BY <1>5, <1>6

\* A path that ends outside of the groups keeps an Iteration's place.
LEMMA IterationBeside ==
  ASSUME Walking, NEW it \in Iterations, NEW p, Parent(p[Len(p)]) = Nothing,
         NEW k, NEW ran, NEW out, NEW list, IterationAt(it, path, k, ran, out, list),
         Occurs(dsl.start[it], path) => Occurs(dsl.start[it], p), NEW ran2, NEW out2
  PROVE  IterationAt(it, p, k, ran2, out2, list)
<1>1. /\ Parent(dsl.start[it]) = it /\ it # Nothing
      /\ \A c \in Body(it) : Parent(c) = it
  BY IterationParts
<1> QED BY <1>1 DEF IterationAt

\* Nothing follows an Iteration before its item, or before all of its results
\* are there.
LEMMA StepBehind ==
  ASSUME Walking, phase # "idle", NEW it \in Iterations, Upward, failed = {},
         ItemFirst(it), Behind(it) => results[it] = Upto(dsl.count[it]),
         idx <= to => IterationIs(it), RunsBeside \/ Defer \/ Post
  PROVE  /\ \A k \in DOMAIN path' : Occurs(path'[k], dsl.downstream[it]) =>
                                      \E j \in 1 .. k - 1 : path'[j] = dsl.start[it]
         /\ (\E x \in N : Occurs(x, dsl.downstream[it]) /\ Occurs(x, path')) =>
              results'[it] = Upto(dsl.count[it])
<1> DEFINE i == dsl.start[it]
           Goal == /\ \A k \in DOMAIN path' : Occurs(path'[k], dsl.downstream[it]) =>
                                                \E j \in 1 .. k - 1 : path'[j] = i
                   /\ (\E x \in N : Occurs(x, dsl.downstream[it]) /\ Occurs(x, path')) =>
                        results'[it] = Upto(dsl.count[it])
<1> SUFFICES Goal
  OBVIOUS
<1>1. /\ it \in N /\ Parent(i) = it /\ it # Nothing /\ Parent(it) = Nothing /\ i \in N
      /\ Is(i, "iterationitem")
      /\ \A x \in N : Occurs(x, dsl.downstream[it]) => x # i
  <2>1. it \in N /\ Parent(i) = it /\ it # Nothing /\ Parent(it) = Nothing /\ i \in N /\ Is(i, "iterationitem")
    BY IterationParts
  <2>2. ASSUME NEW x \in N, Occurs(x, dsl.downstream[it]) PROVE x # i
    <3>1. LeadsTo(dsl, it, x)
      BY <2>2 DEF LeadsTo
    <3>2. Parent(x) = Nothing
      BY <2>1, <3>1 DEF Walking, Chained, Grouped, N, Parent
    <3> QED BY <2>1, <3>2
  <2> QED BY <2>1, <2>2
<1>2. path \in Seq(N) /\ Len(path) \in Nat /\ DOMAIN path = 1 .. Len(path)
  BY DEF Walking, IInv, TypeOK, PathTypes, N
<1>3. \A k \in DOMAIN path : Occurs(path[k], dsl.downstream[it]) => \E j \in 1 .. k - 1 : path[j] = i
  BY DEF ItemFirst
<1> HIDE DEF i
<1>4. CASE RunsBeside
  <2>1. path' = path /\ results' = results
    BY <1>4, RunsAside DEF RunsBeside, Aside
  <2> QED BY <1>3, <2>1 DEF Behind, i
<1>5. CASE Defer
  <2>1. /\ results' = results /\ path' \in Seq(N) /\ DOMAIN path' \subseteq DOMAIN path
        /\ \A k \in DOMAIN path' : path'[k] = path[k] \/ (k + 1 \in DOMAIN path /\ path'[k] = path[k + 1])
        /\ Aside \/ Drops
    BY <1>5, DefersAside
  <2>2. \A x : Occurs(x, path') => Occurs(x, path)
    BY <2>1 DEF Occurs
  <2>3. /\ Len(path') = Len(path) - 1 /\ DOMAIN path' = 1 .. Len(path) - 1
        /\ \A k \in 1 .. Len(path) - 1 : path'[k] = IF k < pos THEN path[k] ELSE path[k + 1]
        /\ path[pos] # i \/ pos = Len(path)
    <3>1. pos \in 2 .. Len(path) /\ Len(path') = Len(path) - 1
          /\ \A k \in 1 .. Len(path) - 1 : path'[k] = IF k < pos THEN path[k] ELSE path[k + 1]
      BY <1>5, DeferPlace DEF Walking
    <3>2. ASSUME path[pos] = i PROVE pos = Len(path)
      <4>1. idx <= pos /\ pos <= to /\ Len(path) = to /\ idx \in Nat \ {0} /\ pos \in Nat
        BY <1>2, <1>5, <3>1, SoloPlace DEF Defer, Walking
      <4>2. ~Free(dsl, path[pos])
        BY <1>1, <3>2 DEF Free, Parent
      <4>3. pos # to => pos \in idx .. to /\ to \in idx .. to
        BY <1>2, <4>1
      <4> QED BY <4>1, <4>2, <4>3 DEF Walking, Solo
    <3>3. DOMAIN path' = 1 .. Len(path')
      BY <2>1
    <3> QED BY <3>1, <3>2, <3>3
  <2>4. Len(path) \in Nat /\ pos \in 1 .. Len(path)
    <3>1. pos \in 2 .. Len(path)
      BY <1>5, DeferPlace DEF Walking
    <3> QED BY <1>2, <3>1
  <2>5. ASSUME NEW k \in DOMAIN path', Occurs(path'[k], dsl.downstream[it])
        PROVE  \E j \in 1 .. k - 1 : path'[j] = i
    <3>1. k \in 1 .. Len(path) - 1 /\ k \in Nat /\ pos \in Nat /\ 1 <= pos /\ k < Len(path)
      <4>1. k \in 1 .. Len(path) - 1
        BY <2>3, <2>5
      <4> QED BY <2>4, <4>1
    <3>2. CASE k < pos
      <4>1. PICK j \in 1 .. k - 1 : path[j] = i
        <5>1. path'[k] = path[k]
          BY <2>3, <3>1, <3>2
        <5>2. k \in 1 .. Len(path)
          BY <2>4, <3>1
        <5> QED BY <1>2, <1>3, <2>5, <5>1, <5>2
      <4>2. j \in 1 .. Len(path) - 1 /\ j < pos
        BY <1>2, <3>1, <3>2
      <4> QED BY <2>3, <4>1, <4>2
    <3>3. CASE k >= pos
      <4>1. path'[k] = path[k + 1] /\ k + 1 \in 1 .. Len(path) /\ k + 1 - 1 = k
        <5>1. path'[k] = path[k + 1]
          BY <2>3, <3>1, <3>3
        <5> QED BY <2>4, <3>1, <5>1
      <4>2. PICK j \in 1 .. k : path[j] = i
        BY <1>2, <1>3, <2>5, <4>1
      <4>3. j # pos
        <5>1. pos < Len(path)
          BY <2>4, <3>1, <3>3
        <5> QED BY <2>3, <4>2, <5>1
      <4>4. CASE j < pos
        <5>1. j \in 1 .. Len(path) - 1 /\ j \in 1 .. k - 1
          BY <1>2, <3>1, <3>3, <4>4
        <5> QED BY <2>3, <4>2, <4>4, <5>1
      <4>5. CASE j > pos
        <5>1. j - 1 \in 1 .. Len(path) - 1 /\ j - 1 \in 1 .. k - 1 /\ ~(j - 1 < pos) /\ j - 1 + 1 = j
          BY <1>2, <3>1, <4>5
        <5>2. path'[j - 1] = path[j]
          BY <2>3, <5>1
        <5> QED BY <4>2, <5>1, <5>2
      <4> QED BY <3>1, <4>3, <4>4, <4>5
    <3> QED BY <3>1, <3>2, <3>3
  <2> QED BY <2>1, <2>2, <2>5 DEF Behind, i
<1>6. CASE Post
  <2> DEFINE c == path[pos]
             New == Len(path) + 1 .. Len(path')
  <2>1. /\ c \in N /\ pos \in 1 .. Len(path)
        /\ ~Free(dsl, c) => idx = to /\ pos = to /\ Len(path) = to /\ Last = c /\ phase = "post"
    <3>1. /\ c \in N /\ pos \in idx .. to
          /\ ~Free(dsl, c) => idx = to /\ pos = to /\ Len(path) = to /\ Last = c /\ phase = "post"
      BY <1>6, PostPlace DEF Walking
    <3>2. idx \in Nat \ {0} /\ to \in Nat /\ to <= Len(path)
      BY SoloPlace DEF Walking
    <3>3. pos \in 1 .. Len(path)
      <4>1. idx \in Nat /\ 1 <= idx
        BY <3>2
      <4>2. pos \in idx .. to /\ to \in Nat /\ to <= Len(path) /\ Len(path) \in Nat
        BY <1>2, <3>1, <3>2
      <4> QED BY <4>1, <4>2
    <3> QED BY <3>1, <3>3
  <2>2. /\ DOMAIN path' = 1 .. Len(path') /\ Len(path') \in Nat /\ Len(path) <= Len(path')
        /\ \A k \in 1 .. Len(path) : path'[k] = path[k]
        /\ results' = results
    BY <1>6, PostSolo
  <2>3. \A k \in New : path'[k] \in N /\ Move(c, path'[k])
    BY <1>6, Moves DEF Walking, Chained
  <2>4. \A k \in 1 .. Len(path') : k \in New \/ k \in 1 .. Len(path)
    BY <1>2, <2>2
  <2>5. \A k \in New : k \in Nat /\ pos \in 1 .. k - 1
    BY <1>2, <2>1, <2>2
  <2>6. \A k \in 1 .. Len(path) : \A j \in 1 .. k - 1 : j \in 1 .. Len(path)
    BY <1>2
  <2> HIDE DEF c, New
  <2>7. ASSUME NEW k \in New, Occurs(path'[k], dsl.downstream[it]) PROVE c = i /\ cursor[c] = -1
    BY <2>1, <2>3, <2>7, BehindMove DEF i
  <2>8. ASSUME NEW k \in DOMAIN path', Occurs(path'[k], dsl.downstream[it])
        PROVE  \E j \in 1 .. k - 1 : path'[j] = i
    <3>1. CASE k \in New
      <4>1. path'[pos] = i
        BY <2>1, <2>2, <2>7, <2>8, <3>1 DEF c
      <4> QED BY <2>5, <3>1, <4>1
    <3>2. CASE k \in 1 .. Len(path)
      <4>1. PICK j \in 1 .. k - 1 : path[j] = i
        BY <1>2, <1>3, <2>2, <2>8, <3>2
      <4>2. path'[j] = i
        BY <2>2, <2>6, <3>2, <4>1
      <4> QED BY <4>2
    <3> QED BY <2>2, <2>4, <2>8, <3>1, <3>2
  <2>9. ASSUME NEW x \in N, Occurs(x, dsl.downstream[it]), Occurs(x, path')
        PROVE  results'[it] = Upto(dsl.count[it])
    <3>1. PICK k \in DOMAIN path' : path'[k] = x
      BY <2>9 DEF Occurs
    <3>2. CASE k \in New
      <4>1. c = i /\ cursor[i] = -1
        BY <2>7, <2>9, <3>1, <3>2
      <4>2. ~Free(dsl, c)
        BY <1>1, <4>1 DEF Free, Parent
      <4>3. idx = to /\ Len(path) = to /\ Last = i /\ phase = "post"
        BY <2>1, <4>1, <4>2
      <4>4. Invoked /\ idx <= to
        <5>1. to \in Nat
          BY <1>2, <4>3
        <5> QED BY <4>3, <5>1 DEF Invoked
      <4>5. results[it] = Upto(dsl.count[it])
        BY <4>1, <4>3, <4>4 DEF IterationIs, IterationAt, Last, i
      <4> QED BY <2>2, <4>5
    <3>3. CASE k \in 1 .. Len(path)
      <4>1. Occurs(x, path)
        BY <1>2, <2>2, <3>1, <3>3 DEF Occurs
      <4> QED BY <2>2, <2>9, <4>1 DEF Behind
    <3> QED BY <2>2, <2>4, <3>1, <3>2, <3>3
  <2> QED BY <2>8, <2>9
<1> QED BY <1>4, <1>5, <1>6

\* ItemsOK is kept.
LEMMA StepItems ==
  ASSUME Walking, WalkStep, phase # "idle" /\ FirstRun => Upward /\ ItemsOK
  PROVE  ItemsOK'
<1>1. path \in Seq(N) /\ cursor \in [N -> Int] /\ results \in [N -> Seq(Outputs)] /\ to \in Nat
  BY DEF Walking, IInv, TypeOK, PathTypes, ValueTypes, N
<1>2. Iterations' = Iterations /\ N' = N /\ dsl' = dsl
  BY DEF Walking, Iterations, Is, N, Nodes
<1> DEFINE First(it, p) == \A k \in DOMAIN p : Occurs(p[k], dsl.downstream[it]) =>
                                                 \E j \in 1 .. k - 1 : p[j] = dsl.start[it]
           Led(it, p) == \E x \in N : Occurs(x, dsl.downstream[it]) /\ Occurs(x, p)
<1>3. SUFFICES ASSUME failed' = {}, NEW it \in Iterations
               PROVE  /\ First(it, path')
                      /\ Led(it, path') => results'[it] = Upto(dsl.count[it])
                      /\ idx' <= to' =>
                           IterationAt(it, path', cursor'[dsl.start[it]], Invoked', outputs', results'[it])
  BY <1>2, SMTT(30) DEF Walking, ItemsOK, ItemFirst, IterationIs, IterationAt, Behind, Occurs, Upto,
                       Body, N, Nodes, Parent
<1> DEFINE i == dsl.start[it]
<1>4. /\ it \in N /\ i \in N /\ i # "begin" /\ "begin" \notin Body(it) /\ i \notin Body(it)
      /\ dsl.count[it] \in Nat /\ IsItem(i) /\ Is(i, "iterationitem")
  BY IterationParts
<1>5. CASE Starts
  <2>1. path' = <<"begin">> /\ Len(path') = 1 /\ path'[1] = "begin" /\ cursor'[i] = 0 /\ results'[it] = <<>>
    BY <1>4, <1>5 DEF Starts
  <2>2. Upto(0) = <<>>
    BY DEF Upto
  <2>3. ASSUME NEW x \in N, Occurs(x, dsl.downstream[it]) PROVE x # "begin"
    <3>1. LeadsTo(dsl, it, x)
      BY <2>3 DEF LeadsTo
    <3> QED BY <1>4, <3>1 DEF Walking, Chained, Grouped, N
  <2>4. ~Led(it, path')
    BY <2>1, <2>3, BeginOnly
  <2>5. First(it, path')
    <3>1. "begin" \in N
      BY DslType DEF Walking, IInv, N
    <3>2. \A k \in DOMAIN path' : path'[k] = "begin"
      BY <2>1
    <3> QED BY <2>3, <3>1, <3>2
  <2> QED BY <1>4, <2>1, <2>2, <2>4, <2>5 DEF IterationAt
<1>6. CASE phase # "idle" /\ FirstRun /\ Keeps
  <2>1. UNCHANGED <<path, cursor, failed, outputs, results>>
    BY <1>6 DEF Keeps, values
  <2>2. First(it, path') /\ (Led(it, path') => results'[it] = Upto(dsl.count[it]))
    BY <1>3, <1>6, <2>1 DEF ItemsOK, ItemFirst, Behind
  <2>3. ASSUME idx' <= to'
        PROVE  IterationAt(it, path', cursor'[i], Invoked', outputs', results'[it])
    <3>1. idx <= to /\ Invoked' = Invoked
      BY <1>6, <2>3 DEF Keeps
    <3>2. IterationIs(it)
      BY <1>3, <1>6, <2>1, <3>1 DEF ItemsOK
    <3> QED BY <2>1, <3>1, <3>2 DEF IterationIs
  <2> QED BY <2>2, <2>3
<1>7. CASE phase # "idle" /\ FirstRun /\ Runs
  <2>1. path' = path /\ to' = to /\ idx' = idx /\ idx = to /\ Invoked'
    BY <1>7 DEF Runs
  <2>2. failed = {}
    BY <1>3, <1>7 DEF Runs, Invoke, Fail
  <2>3. ItemFirst(it) /\ IterationIs(it) /\ (Behind(it) => results[it] = Upto(dsl.count[it]))
    <3>1. idx <= to
      BY <1>1, <2>1
    <3> QED BY <1>7, <2>2, <3>1 DEF ItemsOK
  <2>4. /\ IterationAt(it, path, cursor'[i], TRUE, outputs', results'[it])
        /\ Behind(it) => results'[it] = Upto(dsl.count[it])
    BY <1>3, <1>7, <2>3, IterationRun
  <2>5. Invoked' = TRUE
    BY <2>1 DEF Invoked
  <2> QED BY <2>1, <2>3, <2>4, <2>5 DEF Behind, ItemFirst
<1>8. ASSUME phase # "idle" /\ FirstRun, RunsBeside \/ Defer \/ Post, failed = {}
      PROVE  First(it, path') /\ (Led(it, path') => results'[it] = Upto(dsl.count[it]))
  BY <1>8, StepBehind DEF ItemsOK
<1>9. ASSUME phase # "idle" /\ FirstRun, Aside
      PROVE  idx' <= to' => IterationAt(it, path', cursor'[i], Invoked', outputs', results'[it])
  <2>1. /\ failed = {} /\ idx <= to /\ results' = results /\ Parent(path'[Len(path')]) = Nothing
        /\ \A k \in DOMAIN path : Parent(path[k]) # Nothing => k \in DOMAIN path' /\ path'[k] = path[k]
        /\ cursor' = cursor \/ (IsItem(Last) /\ MayEnd(Last) /\ cursor' = [cursor EXCEPT ![Last] = -1])
    BY <1>3, <1>9 DEF Aside
  <2>2. IterationAt(it, path, cursor[i], Invoked, outputs, results[it])
    BY <1>9, <2>1 DEF ItemsOK, IterationIs
  <2>3. cursor'[i] = cursor[i]
    BY <1>1, <1>4, <2>1 DEF MayEnd, Is
  <2>4. Occurs(i, path) => Occurs(i, path')
    <3>1. Parent(i) # Nothing
      BY IterationParts
    <3> QED BY <2>1, <3>1 DEF Occurs
  <2> QED BY <2>1, <2>2, <2>3, <2>4, IterationBeside
<1>10. ASSUME phase # "idle" /\ FirstRun, Moved
       PROVE  IterationAt(it, path', cursor'[i], Invoked', outputs', results'[it])
  <2>1. /\ idx = to /\ Len(path) = to /\ Invoked /\ failed' = failed /\ outputs' = outputs
        /\ results' = results /\ failed = {} /\ path # <<>> /\ idx <= to
        /\ cursor' = cursor \/ (IsItem(Last) /\ MayEnd(Last) /\ cursor' = [cursor EXCEPT ![Last] = -1])
        /\ \/ path' = path /\ Invoked'
           \/ ~Invoked' /\ \E x \in N : path' = Append(path, x) /\ Move(Last, x) /\ (cursor' = cursor \/ Out(Last, x))
    BY <1>1, <1>3, <1>10 DEF Moved
  <2>2. IterationAt(it, path, cursor[i], TRUE, outputs, results[it])
    <3>1. IterationIs(it) /\ Invoked = TRUE
      BY <1>10, <2>1 DEF ItemsOK, Invoked
    <3> QED BY <3>1 DEF IterationIs
  <2>3. cursor'[i] = cursor[i]
    BY <1>1, <1>4, <2>1 DEF MayEnd, Is
  <2>4. CASE path' = path /\ Invoked'
    <3>1. Invoked' = TRUE
      BY <2>4 DEF Invoked
    <3> QED BY <2>1, <2>2, <2>3, <2>4, <3>1
  <2>5. CASE ~Invoked' /\ \E x \in N : path' = Append(path, x) /\ Move(Last, x) /\ (cursor' = cursor \/ Out(Last, x))
    <3>1. PICK x \in N : path' = Append(path, x) /\ Move(Last, x)
      BY <2>5
    <3>2. Invoked' = FALSE
      BY <2>5 DEF Invoked
    <3>3. IterationAt(it, path', cursor'[i], FALSE, outputs, results[it])
      BY <1>10, <2>1, <2>2, <2>3, <3>1, IterationMove
    <3> QED BY <2>1, <3>2, <3>3
  <2> QED BY <2>1, <2>4, <2>5
<1>11. CASE phase # "idle" /\ FirstRun /\ RunsBeside
  <2>1. Aside
    BY <1>11, RunsAside
  <2>2. failed = {}
    BY <1>3, <2>1 DEF Aside
  <2> QED BY <1>8, <1>9, <1>11, <2>1, <2>2
<1>12. CASE phase # "idle" /\ FirstRun /\ Defer
  <2>1. (Aside \/ Drops) /\ failed = {}
    BY <1>3, <1>12, DefersAside
  <2>2. Drops => ~(idx' <= to')
    BY DEF Drops
  <2> QED BY <1>8, <1>9, <1>12, <2>1, <2>2
<1>13. CASE phase # "idle" /\ FirstRun /\ Post
  <2>1. (Aside \/ Moved) /\ failed = {}
    BY <1>3, <1>13, PostsAside DEF Post
  <2> QED BY <1>8, <1>9, <1>10, <1>13, <2>1
<1> QED BY <1>5, <1>6, <1>7, <1>11, <1>12, <1>13 DEF WalkStep

\* WalkInv is inductive, given IInv and Solo.
LEMMA NextWalk ==
  ASSUME GroupsChained, IInv, WalkInv, Steered(dsl) => Solo /\ Solo', [Next]_vars
  PROVE  WalkInv'
<1> SUFFICES ASSUME Steered(dsl)
             PROVE  /\ Tasked' /\ FillUpFirst' /\ ExitsWork'
                    /\ phase' # "idle" /\ FirstRun' => Upward' /\ LoopsOK' /\ ItemsOK'
  BY SameDsl DEF WalkInv
<1>1. Chained(dsl) /\ Ranks(dsl, Rank)
  BY Chains
<1>2. /\ Tasked /\ FillUpFirst /\ ExitsWork
      /\ phase # "idle" /\ FirstRun => Upward /\ LoopsOK /\ ItemsOK
  BY DEF WalkInv
<1>3. Tasked' /\ FillUpFirst' /\ ExitsWork'
  BY <1>1, <1>2, NextTasked, NextFillUpFirst, NextExitsWork DEF Chained
<1>4. Walking
  BY <1>1, <1>2, SameDsl, SameRank DEF Walking
<1>5. phase' # "idle" /\ FirstRun' => WalkStep
  BY <1>1, <1>2, <1>4, WalkSteps DEF Chained
<1> QED BY <1>2, <1>3, <1>4, <1>5, StepUpward, StepLoops, StepItems

\* WalkInv holds in every state.
LEMMA Walks ==
  ASSUME GroupsChained
  PROVE  Spec => [](IInv /\ WalkInv)
<1>1. Init => IInv /\ WalkInv
  BY InitInv DEF Init, WalkInv, Tasked, FillUpFirst, ExitsWork
<1>2. /\ IInv /\ WalkInv /\ (Steered(dsl) => Solo) /\ (Steered(dsl) => Solo)' /\ [Next]_vars
           => (IInv /\ WalkInv)'
  <2>1. [Next]_vars => dsl' = dsl
    BY SameDsl
  <2> QED BY <2>1, NextInv, NextWalk
<1>3. Spec => [](Steered(dsl) => Solo)
  BY StaysSolo
<1> QED BY <1>1, <1>2, <1>3, PTL DEF Spec

\* What the batches up to this one have run is the front of the path.
LEMMA RanPath ==
  ASSUME IInv
  PROVE  /\ phase = "idle" => Ran = <<>>
         /\ phase # "idle" => \A k \in DOMAIN Ran : k \in DOMAIN path /\ Ran[k] = path[k] /\ path[k] \in N
<1>1. path \in Seq(N) /\ to \in Nat /\ (phase # "idle" => to <= Len(path))
  BY DEF IInv, TypeOK, PathTypes, N
<1>2. CASE phase # "idle"
  <2>1. to \in 0 .. Len(path)
    BY <1>1, <1>2
  <2>2. /\ Prefix(path, to) \in Seq(N) /\ Len(Prefix(path, to)) = to
        /\ \A k \in 1 .. to : Prefix(path, to)[k] = path[k]
    BY <1>1, <2>1, PrefixType
  <2>3. \A k \in DOMAIN Prefix(path, to) : k \in 1 .. to /\ k \in DOMAIN path
    BY <1>1, <2>1, <2>2
  <2> QED BY <1>1, <1>2, <2>2, <2>3 DEF Ran
<1> QED BY <1>2 DEF Ran

\* In a first run nothing of a Loop runs behind its ExitLoop, whatever the
\* canvas, if its groups run alone.
THEOREM ExitsEnd ==
  ASSUME GroupsChained
  PROVE  Spec => []ExitEnds
<1>1. IInv /\ WalkInv => ExitEnds
  <2> SUFFICES ASSUME IInv, WalkInv, FirstRun, NEW m \in DOMAIN Ran, NEW n \in DOMAIN Ran,
                      m < n, Is(Ran[m], "exitloop"), Parent(Ran[n]) = Parent(Ran[m])
               PROVE  FALSE
    BY DEF ExitEnds
  <2>1. phase # "idle"
    <3>1. DOMAIN <<>> = {}
      OBVIOUS
    <3> QED BY <3>1, RanPath
  <2>2. /\ m \in DOMAIN path /\ n \in DOMAIN path /\ path[m] \in N /\ path[n] \in N
        /\ Is(path[m], "exitloop") /\ Parent(path[n]) = Parent(path[m])
    BY <2>1, RanPath
  <2>3. Steered(dsl)
    BY <2>2 DEF Steered, Is, N
  <2>4. Upward
    BY <2>1, <2>3 DEF WalkInv
  <2>5. Parent(path[m]) \in N /\ Parent(path[m]) # Nothing
    BY <2>2, <2>3, Chains, DslType DEF Chained, Grouped, IInv, N, Parent, Is
  <2>6. Level(path[m]) = Level(path[n]) /\ Level(path[m]) \in Nat
    BY <2>2, <2>3, <2>5, Chains DEF Level, Ranks, N
  <2>7. ~Free(dsl, path[m])
    BY <2>5 DEF Free, Parent
  <2>8. Level(path[m]) < Level(path[n])
    BY <2>2, <2>4, <2>7 DEF Upward
  <2> QED BY <2>6, <2>8
<1> QED BY <1>1, Walks, PTL

\* In a first run no component of a Loop runs more often than the Loop allows.
THEOREM LoopsEnd ==
  ASSUME GroupsChained
  PROVE  Spec => []LoopBounded
<1>1. IInv /\ WalkInv => LoopBounded
  <2> SUFFICES ASSUME IInv, WalkInv, FirstRun, NEW c \in N, InGroup(c, "loop"), ~IsItem(c)
               PROVE  CountIn(Ran, c) <= dsl.count[Parent(c)]
    BY DEF LoopBounded, CountIn, N
  <2> DEFINE lo == Parent(c)
  <2>1. lo \in Loops /\ lo \in N /\ dsl.count[lo] \in Nat
    BY DslType DEF InGroup, Parent, IInv, Loops, Is
  <2>2. Steered(dsl)
    BY <2>1 DEF Steered, Loops, Is, N
  <2>3. c \in Body(lo)
    <3>1. IsItem(dsl.start[lo])
      BY <2>1, <2>2, Chains DEF Chained, Grouped, Group, Loops, Is, IsItem, N
    <3> QED BY <3>1 DEF Body
  <2>4. CASE phase = "idle"
    <3>1. {k \in DOMAIN <<>> : <<>>[k] = c} = {}
      OBVIOUS
    <3> QED BY <2>1, <2>4, <3>1, RanPath, FS_EmptySet DEF CountIn
  <2>5. CASE phase # "idle"
    <3>1. LoopsOK
      BY <2>2, <2>5 DEF WalkInv
    <3> QED BY <2>1, <2>3, <2>5, <3>1 DEF LoopsOK, Ran
  <2> QED BY <2>4, <2>5
<1> QED BY <1>1, Walks, PTL

\* In a first run without failures what follows an Iteration finds one result
\* for each item, in order.
THEOREM ItemsAreMapped ==
  ASSUME GroupsChained
  PROVE  Spec => []ItemsMapped
<1>1. IInv /\ WalkInv => ItemsMapped
  <2> SUFFICES ASSUME IInv, WalkInv, FirstRun, failed = {}, NEW it \in N, Is(it, "iteration"),
                      NEW j \in DOMAIN dsl.downstream[it], Occurs(dsl.downstream[it][j], Ran)
               PROVE  results[it] = Upto(dsl.count[it])
    BY DEF ItemsMapped, Upto, N
  <2>1. phase # "idle"
    <3>1. DOMAIN <<>> = {}
      OBVIOUS
    <3> QED BY <3>1, RanPath DEF Occurs
  <2>2. Steered(dsl) /\ it \in Iterations
    BY DEF Steered, Iterations, Is, N
  <2>3. Behind(it)
    <3>1. PICK k \in DOMAIN Ran : Ran[k] = dsl.downstream[it][j]
      BY DEF Occurs
    <3>2. k \in DOMAIN path /\ path[k] = dsl.downstream[it][j] /\ path[k] \in N
      BY <2>1, <3>1, RanPath
    <3> QED BY <3>2 DEF Behind, Occurs
  <2>4. ItemsOK
    BY <2>1, <2>2 DEF WalkInv
  <2> QED BY <2>2, <2>3, <2>4 DEF ItemsOK
<1> QED BY <1>1, Walks, PTL
=============================================================================
