---------------------------- MODULE CanvasShapes ----------------------------
(***************************************************************************)
(* Shapes of DSLs under which what users expect of a run holds.  Nothing   *)
(* in the code demands them: the editor draws agents with and without.     *)
(* CanvasRunProofs and CanvasWalkProofs assume them, MCCanvasRun checks    *)
(* that the agents of its run have them.                                   *)
(***************************************************************************)
EXTENDS CanvasRun

\* Every component leads to one at most.
Unforked(d) ==
  \A c \in Nodes(d) :
    /\ Len(d.downstream[c]) <= 1 /\ Len(d.goto[c]) <= 1
    /\ \A s \in d.cases[c] : Len(s) <= 1

\* c may lead to x by an edge.
LeadsTo(d, c, x) ==
  \/ Occurs(x, d.downstream[c])
  \/ Occurs(x, d.goto[c])
  \/ \E s \in d.cases[c] : Occurs(x, s)

Group(d, c) == d.kind[c] \in {"iteration", "loop"}

Item(d, c) == d.kind[c] \in {"iterationitem", "loopitem"}

\* The lists of components that c may put behind the path.
Lists(d, c) ==
  d.cases[c] \cup {d.downstream[c], d.goto[c]}
    \cup (IF Group(d, c) THEN {<<d.start[c]>>} ELSE {})
    \cup (IF d.parent[c] # Nothing THEN {<<d.start[d.parent[c]]>>} ELSE {})
    \cup (IF d.parent[c] # Nothing /\ (Item(d, c) \/ d.kind[c] = "exitloop")
            THEN {d.downstream[d.parent[c]]} ELSE {})

\* P holds every pair of components that a batch may hold in this order: two of
\* one list, and what the first and the second of a pair lead to.  _extend_path
\* leaves out what is the last of the path, an exception branch is not looked at.
Together(d, P) ==
  /\ P \subseteq Nodes(d) \X Nodes(d)
  /\ \A c \in Nodes(d) : \A s \in Lists(d, c) : \A k, l \in DOMAIN s :
       k < l => <<s[k], s[l]>> \in P
  /\ \A b \in P : \A s \in Lists(d, b[1]), t \in Lists(d, b[2]) :
       \A k \in DOMAIN s, l \in DOMAIN t :
         s[k] # t[l] \/ t = d.goto[b[2]] => <<s[k], t[l]>> \in P
  /\ \A b \in P : b[1] # b[2] /\ <<b[2], b[1]>> \in P => <<b[1], b[1]>> \in P

\* No batch holds a component behind one it refers to.
Apart(d, P) == \A c \in Nodes(d) : \A r \in d.refs[c] : <<r, c>> \notin P

Ordered(d) == \E P : Together(d, P) /\ Apart(d, P)

\* What is in a batch with a fill-up is a fill-up.
AsksAlone(d, P) ==
  \A b \in P : d.kind[b[1]] = "userfillup" <=> d.kind[b[2]] = "userfillup"

Asking(d) == \E P : Together(d, P) /\ AsksAlone(d, P)

\* Groups and what is in them share no batch.
Free(d, c) == d.parent[c] = Nothing /\ ~Group(d, c)

FreeOnly(d, P) == \A b \in P : Free(d, b[1]) /\ Free(d, b[2])

GroupsAlone(d) == \E P : Together(d, P) /\ FreeOnly(d, P)

\* Groups are not nested, entered at their item only and left by no edge; an
\* ExitLoop is in a Loop, and nothing leads to Begin.
Grouped(d) ==
  /\ d.parent["begin"] = Nothing
  /\ \A c \in Nodes(d) :
       /\ d.parent[c] # Nothing => Group(d, d.parent[c])
       /\ Group(d, c) =>
            /\ d.parent[c] = Nothing /\ d.parent[d.start[c]] = c
            /\ d.kind[d.start[c]] = IF d.kind[c] = "loop" THEN "loopitem" ELSE "iterationitem"
       /\ Item(d, c) =>
            c = d.start[d.parent[c]] /\ d.goto[c] = <<>> /\ c \notin d.default
       /\ d.kind[c] = "exitloop" =>
            d.parent[c] # Nothing /\ d.kind[d.parent[c]] = "loop"
       /\ \A x \in Nodes(d) : LeadsTo(d, c, x) =>
            d.parent[x] = d.parent[c] /\ ~Item(d, x) /\ x # "begin"

\* r grows along every edge.
Ranks(d, r) ==
  /\ r \in [Nodes(d) -> Nat]
  /\ \A c, x \in Nodes(d) : LeadsTo(d, c, x) => r[c] < r[x]

\* An Iteration collects what its body ends with, and what follows it has no
\* other way in.
Collects(d) ==
  \A it \in Nodes(d) : d.kind[it] = "iteration" =>
    /\ \A c \in Nodes(d) :
         d.parent[c] = it /\ d.downstream[c] = <<>> /\ d.kind[c] \notin {"switch", "iterationitem"}
           => c = d.collect[it]
    /\ \A c, x \in Nodes(d) : LeadsTo(d, c, x) /\ Occurs(x, d.downstream[it]) => c = it

\* No fork puts a group or what is in one into a batch with anything else; edges
\* form no cycle.
Chained(d) == GroupsAlone(d) /\ Grouped(d) /\ (\E r : Ranks(d, r)) /\ Collects(d)

\* Agents that iterate or loop.
Steered(d) == \E c \in Nodes(d) : d.kind[c] \in {"iteration", "loop", "exitloop"}

GroupsChained == \A d \in Canvases : Steered(d) => Chained(d)

\* References stay in scope: Begin, fill-ups and items refer to nothing, nothing
\* refers to the item of a Loop, and only what is in a group to what is in it.
InScope(d) ==
  \A c \in Nodes(d) :
    /\ d.kind[c] \in {"begin", "userfillup"} \/ Item(d, c) => d.refs[c] = {}
    /\ \A r \in d.refs[c] :
         d.kind[r] # "loopitem" /\ (d.parent[r] # Nothing => d.parent[r] = d.parent[c])

\* What every agent is asked for, with forks or without.
Wired == \A d \in Canvases : Grouped(d) /\ InScope(d)
=============================================================================
