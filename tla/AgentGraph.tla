----------------------------- MODULE AgentGraph -----------------------------
(***************************************************************************)
(* The agent editor's canvas: the zustand store of pages/agent/store.ts    *)
(* (nodes, edges, the forms of the Switch operators) under the gestures of *)
(* the hooks around it, and the DSL that utils.ts builds from it.          *)
(*                                                                         *)
(* Every gesture is one event handler of the page, so it is atomic; what   *)
(* is hard is what a long sequence of them leaves behind, because seven    *)
(* different paths delete nodes and edges, each in its own way.            *)
(*                                                                         *)
(* An operator "Message" stands for all those with one plain input and one *)
(* plain output, the handle "flow" for the handles Start and End and for a *)
(* category's uuid.                                                        *)
(***************************************************************************)
EXTENDS Naturals, FiniteSets, Sequences

CONSTANTS
  Ids,         \* the node ids `${label}:${humanId()}` of this instance
  Label,       \* Label[n] is the operator in the id n
  GroupStart,  \* the id of GroupStartNodeMap.Iteration, one per page load
  NoNode,      \* no parentId, no placeholder
  Cases,       \* generateSwitchHandleText: the handles of the conditions
  MaxSelect,   \* nodes and edges selected when Delete is pressed
  MaxNodes,    \* nodes the canvas may hold
  MaxEdges     \* edges the canvas may hold

Labels == {"Begin", "Message", "Switch", "Agent", "Tool", "Iteration",
           "IterationStart", "Placeholder"}

\* The handles that do not belong to a condition.
Named == {"flow", "exception", "agentBottom", "tool", "else"}

ASSUME GraphAssumption ==
  /\ IsFiniteSet(Ids)
  /\ Label \in [Ids -> Labels]
  /\ GroupStart \in Ids => Label[GroupStart] = "IterationStart"
  /\ NoNode \notin Ids
  /\ Cases \in Seq(STRING \ Named)
  /\ Len(Cases) > 0
  /\ MaxSelect \in Nat
  /\ MaxNodes \in Nat
  /\ MaxEdges \in Nat

VARIABLES
  nodes,    \* the ids on the canvas
  parent,   \* parentId, the Iteration a node lies in
  edges,    \* the connections; agentBottom edges end at the handle agentTop
  form,     \* of a Switch: conditions[k].to and end_cpn_ids
  created,  \* createdPlaceholderRef.current
  open      \* the operator list of a dragged connection is shown

vars == <<nodes, parent, edges, form, created, open>>

chooser == <<created, open>>

Switches == {n \in Ids : Label[n] = "Switch"}

Agents == {n \in Ids : Label[n] = "Agent"}

Placeholders == {n \in Ids : Label[n] = "Placeholder"}

Handles == Named \cup {Cases[k] : k \in DOMAIN Cases}

\* Mutant: the connection without its handle.
NodesOnly(s, h, t) == [source |-> s, handle |-> "", target |-> t]

\* A Connection of React Flow; its target handle follows from the handle.
Edge(s, h, t) == [source |-> s, handle |-> h, target |-> t]

\* initialSwitchValues: one condition that leads nowhere.
Blank == [conditions |-> <<{}>>, else |-> {}]

Init ==
  /\ nodes = {n \in Ids : Label[n] = "Begin"}
  /\ parent = [n \in Ids |-> NoNode]
  /\ edges = {}
  /\ form = [s \in Switches |-> Blank]
  /\ created = NoNode
  /\ open = FALSE

----------------------------------------------------------------------------
(* Reading the canvas.                                                     *)

\* An id humanId() may produce: one that nothing in the store mentions.
Fresh ==
  {n \in Ids \ nodes :
     /\ \A e \in edges : n # e.source /\ n # e.target
     /\ \A m \in nodes : parent[m] # n
     /\ \A s \in Switches :
          /\ n \notin form[s].else
          /\ \A k \in DOMAIN form[s].conditions : n \notin form[s].conditions[k]
     /\ n # created}

Touching(N) == {e \in edges : e.source \in N \/ e.target \in N}

SubAgent(n) == \E e \in edges : e.target = n /\ e.handle = "agentBottom"

\* The handles a user can start a connection from.  In React Flow's
\* ConnectionMode.Loose that may be an input, too: a Switch, a tool and a
\* placeholder have no plain output, but an input.  An agent that serves
\* another one has neither, only the handle for exceptions.
SourceHandles(n) ==
  IF Label[n] = "Switch"
    THEN {"flow", "else"} \cup {Cases[k] : k \in DOMAIN form[n].conditions}
    ELSE {h \in {"flow", "exception"} :
            /\ h = "exception" => Label[n] = "Agent"
            /\ h = "flow" => Label[n] \in {"Tool", "Placeholder"} \/ ~SubAgent(n)}

\* The nodes a connection can end at: every row of RestrictedUpstreamMap
\* forbids Begin, and an IterationStart has no input.
Accepts(n) == Label[n] \notin {"Begin", "IterationStart"} /\ ~SubAgent(n)

\* Mutant: only the direct successors of t are looked at.
NoDirectPath(t, s) == ~\E e \in edges : e.source = t /\ e.target = s

\* R holds every live node that an edge leaves R for (getOutgoers).
Closed(R) ==
  \A e \in edges : e.source \in R /\ e.target \in nodes => e.target \in R

\* hasCanvasCycle: nothing reached from t is s.
NoPath(t, s) == \E R \in SUBSET nodes : t \in R /\ s \notin R /\ Closed(R)

\* Mutant: a node outside of every group may be joined with any other.
OneInGroup(s, t) == parent[s] # NoNode /\ parent[t] # NoNode => parent[s] = parent[t]

\* isSameNodeChild.
SameGroup(s, t) == parent[s] = parent[t]

\* What is reached from S in at most k steps of Onward.
Closure(S, Onward(_), k) ==
  LET grow[i \in 0..k] ==
        IF i = 0 THEN S
        ELSE grow[i - 1] \cup UNION {Onward(n) : n \in grow[i - 1]}
  IN  grow[k]

\* The edges of es that lead to a sub-agent or a tool.
Serving(es) == {e \in es : e.handle \in {"agentBottom", "tool"}}

\* filterAllDownstreamAgentAndToolNodeIds over the edges es: of the nodes
\* that serve another one, those reached from n.
Below(n, es) ==
  LET kids(m) == {e.target : e \in {x \in Serving(es) : x.source = m}}
  IN  {e.target : e \in Serving(es)} \cap Closure(kids(n), kids, Cardinality(es))

----------------------------------------------------------------------------
(* Changing the canvas.                                                    *)

\* Bound: there is room for k more nodes and e more edges.
Room(k, e) ==
  /\ Cardinality(nodes) + k <= MaxNodes
  /\ Cardinality(edges) + e <= MaxEdges

\* addNode: the nodes N, in the group p.
Put(N, p) ==
  /\ Room(Cardinality(N), 0)
  /\ nodes' = nodes \cup N
  /\ parent' = [n \in Ids |-> IF n \in N THEN p ELSE parent[n]]

\* addGroupNode: the group g in the group p, and its start node.
PutGroup(g, p) ==
  /\ GroupStart \in Fresh
  /\ Room(2, 0)
  /\ nodes' = nodes \cup {g, GroupStart}
  /\ parent' = [parent EXCEPT ![g] = p, ![GroupStart] = g]

\* The nodes N and the edges C leave the store, a Switch with its form.
Drop(N, C) ==
  /\ nodes' = nodes \ N
  /\ parent' = [n \in Ids |-> IF n \in N THEN NoNode ELSE parent[n]]
  /\ edges' = edges \ C
  /\ form' = [s \in Switches |-> IF s \in N THEN Blank ELSE form[s]]

\* updateSwitchFormData: the form of s leads to T from the handle h.  The
\* handles Start and End of a Switch are no field of its form.
Lead(s, h, T) ==
  IF Label[s] # "Switch" THEN form
  ELSE [form EXCEPT ![s] =
          [conditions |-> [k \in DOMAIN @.conditions |->
                             IF h = Cases[k] THEN T ELSE @.conditions[k]],
           else |-> IF h = "else" THEN T ELSE @.else]]

\* The targets it counts: those of the edges es, a placeholder left out.
Targets(s, h, es) ==
  {e.target : e \in {x \in es : x.source = s /\ x.handle = h}} \ Placeholders

\* addEdge and onConnect, with updateFormDataOnConnect.
Join(s, h, t) ==
  LET es == edges \cup {Edge(s, h, t)}
  IN  edges' = es /\ form' = Lead(s, h, Targets(s, h, es))

----------------------------------------------------------------------------
(* Drawing.                                                                *)

\* onConnect, let through by isValidConnection.
Connect(s, h, t) ==
  /\ s # t /\ Accepts(t)
  /\ Edge(s, h, t) \notin edges
  /\ Room(0, 1)
  /\ SameGroup(s, t)
  /\ NoPath(t, s)
  /\ Join(s, h, t)
  /\ UNCHANGED <<nodes, parent, chooser>>

\* The + of the handle h: addCanvasNode puts the operator into the group of
\* s and connects it; a group hangs on Start, whatever the handle was.
AddNext(s, h, n) ==
  /\ ~open
  /\ Label[s] # "Placeholder"
  /\ Room(0, 1)
  /\ \/ /\ Label[n] \in {"Message", "Switch", "Agent"}
        /\ Put({n}, parent[s])
        /\ Join(s, h, n)
     \/ /\ Label[n] = "Iteration"
        /\ PutGroup(n, parent[s])
        /\ Join(s, "flow", n)
  /\ UNCHANGED chooser

\* The same from the form of an agent: a sub-agent, or the one tool node.
AddBelow(a, n) ==
  /\ Room(0, 1)
  /\ \/ Label[n] = "Agent" /\ Join(a, "agentBottom", n)
     \/ /\ Label[n] = "Tool"
        /\ \A e \in edges : e.source = a /\ e.handle = "tool" => e.target \notin nodes
        /\ Join(a, "tool", n)
  /\ Put({n}, parent[a])
  /\ UNCHANGED chooser

\* A connection dropped on the pane: the placeholder that may be left is
\* deleted, a new one is connected and the list of operators is shown.
DragToPane(s, h, p) ==
  /\ Label[s] # "Placeholder" /\ Label[p] = "Placeholder"
  /\ Room(1, 1)
  /\ \E old \in IF nodes \cap Placeholders = {} THEN {{}}
                ELSE {{q} : q \in nodes \cap Placeholders} :
       LET es == (edges \ Touching(old)) \cup {Edge(s, h, p)} IN
       /\ nodes' = (nodes \ old) \cup {p}
       /\ parent' = [n \in Ids |-> IF n \in old THEN NoNode
                                   ELSE IF n = p THEN parent[s] ELSE parent[n]]
       /\ edges' = es
       /\ form' = Lead(s, h, Targets(s, h, es))
  /\ created' = p
  /\ open' = TRUE

\* Mutant: the list is closed and the placeholder stays.
DismissKeeps ==
  /\ open
  /\ created' = NoNode
  /\ open' = FALSE
  /\ UNCHANGED <<nodes, parent, edges, form>>

\* removePlaceholderNode, with the list closed: Escape, a click on the pane,
\* on a handle, or a move of the canvas.
Dismiss ==
  /\ open
  /\ Drop({created} \cap nodes, Touching({created} \cap nodes))
  /\ created' = NoNode
  /\ open' = FALSE

\* The edge an operator chosen in the list is connected by: the first one
\* that ends at the placeholder.
Waiting == {e \in edges : e.target = created}

\* An operator chosen in the list: addCanvasNode makes it without a source,
\* onNodeCreated moves it to the placeholder's place and group, connects it
\* to the placeholder's source and deletes the placeholder; hideModal finds
\* none any more (userSelectedNodeRef is set and cleared by the same click).
Pick(n) ==
  /\ open
  /\ LET gone == {created} \cap nodes
         p == IF gone = {} THEN NoNode ELSE parent[created]
         new == IF Label[n] = "Iteration" THEN {n, GroupStart} ELSE {n}
     IN
     /\ Label[n] \in {"Message", "Switch", "Agent", "Iteration"}
     /\ new \subseteq Fresh
     /\ Room(Cardinality(new) - Cardinality(gone), 0)
     /\ nodes' = (nodes \ gone) \cup new
     /\ parent' = [m \in Ids |-> IF m \in gone THEN NoNode
                                 ELSE IF m = n THEN p
                                 ELSE IF m \in new THEN n ELSE parent[m]]
     /\ IF Waiting = {}
          THEN edges' = edges \ Touching(gone) /\ UNCHANGED form
          ELSE \E w \in Waiting :
                 LET es == edges \cup {Edge(w.source, w.handle, n)} IN
                 /\ edges' = es \ Touching(gone)
                 /\ form' = Lead(w.source, w.handle, Targets(w.source, w.handle, es))
  /\ created' = NoNode
  /\ open' = FALSE

----------------------------------------------------------------------------
(* Deleting.                                                               *)

\* deleteEdgeById: the x of an edge.  The form of a Switch follows.
CutEdge(e) ==
  /\ e.source \in nodes /\ e.target \in nodes
  /\ e.handle \notin {"tool", "agentBottom"}
  /\ Label[e.target] \notin {"Tool", "Placeholder"}
  /\ e.handle \in SourceHandles(e.source)
  /\ edges' = edges \ {e}
  /\ form' = Lead(e.source, e.handle, Targets(e.source, e.handle, edges) \ {e.target})
  /\ UNCHANGED <<nodes, parent, chooser>>

\* deleteAgentDownstreamNodesById: of the edges below the agent only the
\* first is found (`pre.some((y) => y.id !== x.id)`), and that one joins the
\* agent to its first child.
DeleteAgent(n) == Drop({n} \cup Below(n, edges), Touching({n}))

\* deleteIterationNodeById: an edge between two children stays, since no
\* child is both its source and its target.
DeleteIteration(n) ==
  Drop({n} \cup {m \in nodes : parent[m] = n}, Touching({n}))

\* Mutant: the edges that lead to the node stay.
DeleteOutgoing(n) == Drop({n}, {e \in edges : e.source = n})

\* deleteNodeById.
DeleteOther(n) == Drop({n}, Touching({n}))

\* The bin of a node's toolbar; the x of a sub-agent in its agent's form is
\* the first of them.
DeleteNode(n) ==
  /\ \/ Label[n] = "Agent" /\ DeleteAgent(n)
     \/ Label[n] = "Iteration" /\ DeleteIteration(n)
     \/ Label[n] \in {"Message", "Switch"} /\ DeleteOther(n)
  /\ UNCHANGED chooser

\* deleteAgentToolNodeById: the last tool of an agent is removed.
RemoveTool(a) ==
  /\ \E e \in edges :
       /\ e.source = a /\ e.handle = "tool"
       /\ Drop({e.target}, Touching({e.target}))
  /\ UNCHANGED chooser

\* deleteEdgesBySourceAndSourceHandle: a category is removed, or an agent
\* no longer goes to another node on an exception.
ClearHandle(n, h) ==
  /\ Label[n] = "Message" \/ h = "exception"
  /\ edges' = {e \in edges : ~(e.source = n /\ e.handle = h)}
  /\ edges' # edges
  /\ UNCHANGED <<nodes, parent, form, chooser>>

\* What React Flow deletes with the nodes S: the nodes inside of them.
Within(S) ==
  Closure(S, LAMBDA g : {n \in nodes : parent[n] = g}, Cardinality(nodes))

\* Mutant: the start of a group is like any other node.
NotBegin(N) == {n \in N : Label[n] # "Begin"}

\* The nodes handleBeforeDelete lets go: never Begin, an IterationStart only
\* with its group.
Deletable(N) ==
  {n \in N : /\ Label[n] # "Begin"
             /\ Label[n] = "IterationStart" => parent[n] \in N}

\* handleBeforeDelete for the selected nodes N and edges C.  The nodes below
\* an agent are looked for along the edges that are to be deleted, not along
\* those of the store; an edge of a node that stays is kept, too.
Delete(N, C) ==
  LET touched == C \cup Touching(N)
      below == UNION {Below(a, touched) : a \in N \cap Agents}
      kept == {e \in touched : /\ Label[e.source] \in {"Begin", "IterationStart"}
                               /\ e.target \notin N
                               /\ e.source \in N}
  IN  Drop(Deletable(N) \cup (below \cap nodes), touched \ kept)

\* Delete or Backspace with a selection on the canvas.
PressDelete(N, C) ==
  /\ Cardinality(N) + Cardinality(C) \in 1..MaxSelect
  /\ Delete(Within(N), C)
  /\ UNCHANGED chooser

----------------------------------------------------------------------------
(* The form of a Switch, and copies.                                       *)

\* The form of the Switch writes its list of conditions back.
SetConditions(s, list) ==
  form' = [form EXCEPT ![s] = [conditions |-> list, else |-> @.else]]

\* append in the form of the Switch.
AddCase(s) ==
  /\ Len(form[s].conditions) < Len(Cases)
  /\ SetConditions(s, Append(form[s].conditions, {}))
  /\ UNCHANGED <<nodes, parent, edges, chooser>>

\* remove(index): the conditions behind it move up, the handles their edges
\* are drawn from do not.
RemoveCase(s, k) ==
  /\ ~open
  /\ k \in DOMAIN form[s].conditions
  /\ LET c == form[s].conditions
     IN  SetConditions(s, SubSeq(c, 1, k - 1) \o SubSeq(c, k + 1, Len(c)))
  /\ UNCHANGED <<nodes, parent, edges, chooser>>

\* duplicateNode and duplicateIterationNode: copy[n] is the id of n's copy.
\* The form is copied, of an Iteration the children too, the edges are not.
Duplicate(n, copy) ==
  LET from == DOMAIN copy  new == {copy[m] : m \in from} IN
  /\ Label[n] \in {"Message", "Switch", "Agent", "Iteration"}
  /\ from = {n} \cup (IF Label[n] = "Iteration" THEN {m \in nodes : parent[m] = n} ELSE {})
  /\ new \subseteq Fresh
  /\ Room(Cardinality(new), 0)
  /\ \A m \in from : /\ Label[copy[m]] = Label[m]
                     /\ \A l \in from : copy[l] = copy[m] => l = m
  /\ nodes' = nodes \cup new
  /\ parent' = [m \in Ids |->
                  IF m \notin new THEN parent[m]
                  ELSE IF m = copy[n] THEN parent[n] ELSE copy[n]]
  /\ form' = [s \in Switches |->
                IF \E m \in from : copy[m] = s
                  THEN form[CHOOSE m \in from : copy[m] = s] ELSE form[s]]
  /\ UNCHANGED <<edges, chooser>>

----------------------------------------------------------------------------
\* The selections of at most MaxSelect nodes and edges.
Selections(S) == {T \in SUBSET S : Cardinality(T) <= MaxSelect}

\* The copies of n and of its children that the instance has ids for.
Copies(n) ==
  UNION {[{n} \cup K -> Fresh] : K \in {{}, {m \in nodes : parent[m] = n}}}

Next ==
  \/ \E n \in Fresh :
       \/ \E s \in nodes : \E h \in SourceHandles(s) : AddNext(s, h, n) \/ DragToPane(s, h, n)
       \/ \E a \in nodes \cap Agents : AddBelow(a, n)
       \/ Pick(n)
  \/ \E s \in nodes : \E h \in SourceHandles(s) :
       \/ \E t \in nodes : Connect(s, h, t)
       \/ ClearHandle(s, h)
  \/ \E a \in nodes \cap Agents : RemoveTool(a)
  \/ Dismiss
  \/ \E e \in edges : CutEdge(e)
  \/ \E n \in nodes : DeleteNode(n)
  \/ \E N \in Selections(nodes), C \in Selections(edges) : PressDelete(N, C)
  \/ \E s \in nodes \cap Switches : AddCase(s) \/ \E k \in 1..Len(Cases) : RemoveCase(s, k)
  \/ \E n \in nodes : \E copy \in Copies(n) : Duplicate(n, copy)

Spec == Init /\ [][Next]_vars

----------------------------------------------------------------------------
(* The DSL a save sends: useBuildDslData, buildDslComponentsByGraph.       *)

DslEdges == edges \ Touching(nodes \cap Placeholders)

Components ==
  {n \in nodes : /\ Label[n] \notin {"Tool", "Placeholder"}
                 /\ ~\E e \in DslEdges : e.target = n /\ e.handle = "agentBottom"}

\* The components the server runs after n: downstream, for an agent without
\* its tools and sub-agents but with exception_goto.
Successors(n) ==
  {e.target : e \in {x \in DslEdges :
     /\ x.source = n
     /\ Label[n] = "Agent" => x.handle # "agentBottom" /\ Label[x.target] # "Tool"}}

----------------------------------------------------------------------------
(* Properties.                                                             *)

TypeOK ==
  /\ nodes \in SUBSET Ids
  /\ parent \in [Ids -> Ids \cup {NoNode}]
  /\ edges \in SUBSET [source : Ids, handle : Handles, target : Ids]
  /\ form \in [Switches -> [conditions : Seq(SUBSET Ids), else : SUBSET Ids]]
  /\ created \in Ids \cup {NoNode}
  /\ open \in BOOLEAN

\* No node can be reached from itself: every set of nodes on the canvas has
\* one that leads to none of the set.  filterAllDownstreamNodeIds,
\* buildAgentTools and the run of the agent recurse along the edges without
\* a visited set, and only the check of a drawn connection stands before it.
Acyclic ==
  \A S \in SUBSET nodes :
    S # {} => \E n \in S : \A e \in edges : ~(e.source = n /\ e.target \in S)

\* The body of an Iteration is closed: whatever was drawn, copied, chosen in
\* the list or deleted, no edge joins nodes of different groups.
EdgesStayInGroup ==
  \A e \in edges :
    e.source \in nodes /\ e.target \in nodes => parent[e.source] = parent[e.target]

\* Whichever way the list of a dragged connection is closed, its placeholder
\* is gone with it: chosen, dismissed, or deleted with its group before.
PlaceholderLeavesWithList == [][open /\ ~open' => created \notin nodes']_vars

\* What the server is told to run after a component is a component of the
\* DSL, whichever of the seven ways deleted what was there; a tool node is
\* the exception, since its input accepts any connection.
SuccessorsExist ==
  \A n \in Components : \A t \in Successors(n) : t \in Components \/ Label[t] = "Tool"

\* Begin never leaves the canvas, and the start of a group only with its
\* group: neither toolbar nor Delete nor a copy leaves a flow without entry.
EntriesLeaveWithGroup ==
  [][\A n \in nodes \ nodes' :
       /\ Label[n] # "Begin"
       /\ Label[n] = "IterationStart" => parent[n] \notin nodes']_vars
=============================================================================
