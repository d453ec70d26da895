-------------------------- MODULE AgentGraphProofs --------------------------
(***************************************************************************)
(* What the canvas keeps through every gesture, whatever its ids, labels   *)
(* and bounds.                                                             *)
(***************************************************************************)
EXTENDS AgentGraph, SequenceTheorems, TLAPS

----------------------------------------------------------------------------
(* The invariant.                                                          *)

EdgeType == [source : Ids, handle : Handles, target : Ids]

\* The forms of a Switch: no more conditions than there are handles.
Forms ==
  {f \in [conditions : Seq(SUBSET Ids), else : SUBSET Ids] :
     Len(f.conditions) <= Len(Cases)}

\* The handles of agents lead to agents and tools.
Served ==
  \A e \in edges :
    /\ e.handle = "agentBottom" => Label[e.source] = "Agent" /\ Label[e.target] = "Agent"
    /\ e.handle = "tool" => Label[e.target] = "Tool"

\* Nothing but its agent leads to a sub-agent.
OneOwner ==
  \A e, f \in edges :
    e.handle = "agentBottom" /\ f.target = e.target => f.handle = "agentBottom"

\* An edge that no agent serves by does not dangle behind a live source.
Reach ==
  \A e \in edges :
    /\ e.source \in nodes
    /\ e.handle # "agentBottom"
    /\ Label[e.target] # "Tool"
    => e.target \in nodes

\* Groups are Iterations, Begin lies in none, a placeholder is waited for.
Places ==
  /\ \A n \in nodes : parent[n] # NoNode => Label[parent[n]] = "Iteration"
  /\ \A n \in nodes : Label[n] = "Begin" => parent[n] = NoNode
  /\ created # NoNode => Label[created] = "Placeholder"

Shape == Acyclic /\ EdgesStayInGroup /\ Served /\ OneOwner

IInv ==
  /\ TypeOK
  /\ form \in [Switches -> Forms]
  /\ Shape
  /\ Reach
  /\ Places

----------------------------------------------------------------------------
(* The shape of the graph under any step that adds no edge between two old *)
(* nodes.                                                                  *)

\* Nodes and edges may leave; fresh nodes may come, and one edge to a fresh
\* node from an old one.
LEMMA Reshape ==
  ASSUME Shape,
         nodes \subseteq Ids,
         NEW new,
         NEW X,
         nodes' \subseteq nodes \cup new,
         \A n \in new : n \notin nodes /\ \A e \in edges : e.source # n /\ e.target # n,
         \A n \in nodes \cap nodes' : parent'[n] = parent[n],
         edges' \subseteq edges \cup X,
         \A x, y \in X : x = y,
         \A x \in X :
           /\ x.target \in new
           /\ x.source \notin new
           /\ x.source \in nodes => parent'[x.target] = parent[x.source]
           /\ x.handle = "agentBottom" =>
                Label[x.source] = "Agent" /\ Label[x.target] = "Agent"
           /\ x.handle = "tool" => Label[x.target] = "Tool"
  PROVE  Shape'
<1>1. Acyclic'
  <2> SUFFICES ASSUME NEW S \in SUBSET nodes', S # {}
               PROVE  \E n \in S : \A e \in edges' : ~(e.source = n /\ e.target \in S)
    BY DEF Acyclic
  <2>1. CASE S \subseteq nodes
    <3>1. PICK n \in S : \A e \in edges : ~(e.source = n /\ e.target \in S)
      BY <2>1 DEF Shape, Acyclic
    <3>2. \A e \in edges' : ~(e.source = n /\ e.target \in S)
      BY <3>1, <2>1
    <3> QED BY <3>2
  <2>2. CASE ~(S \subseteq nodes)
    <3>1. PICK n \in S : n \in new
      BY <2>2
    <3>2. \A e \in edges' : e.source # n
      BY <3>1
    <3> QED BY <3>2
  <2> QED BY <2>1, <2>2
<1>2. EdgesStayInGroup'
  <2> SUFFICES ASSUME NEW e \in edges', e.source \in nodes', e.target \in nodes'
               PROVE  parent'[e.source] = parent'[e.target]
    BY DEF EdgesStayInGroup
  <2>1. CASE e \in edges
    <3>1. e.source \in nodes /\ e.target \in nodes
      BY <2>1
    <3> QED BY <2>1, <3>1 DEF Shape, EdgesStayInGroup
  <2>2. CASE e \in X
    <3>1. e.source \in nodes
      BY <2>2
    <3> QED BY <2>2, <3>1
  <2> QED BY <2>1, <2>2
<1>3. Served'
  <2> SUFFICES ASSUME NEW e \in edges'
               PROVE  /\ e.handle = "agentBottom" =>
                           Label[e.source] = "Agent" /\ Label[e.target] = "Agent"
                      /\ e.handle = "tool" => Label[e.target] = "Tool"
    BY DEF Served
  <2> QED BY DEF Shape, Served
<1>4. OneOwner'
  <2> SUFFICES ASSUME NEW e \in edges', NEW f \in edges',
                      e.handle = "agentBottom", f.target = e.target
               PROVE  f.handle = "agentBottom"
    BY DEF OneOwner
  <2>1. CASE e \in edges /\ f \in edges
    BY <2>1 DEF Shape, OneOwner
  <2>2. CASE e \in X \/ f \in X
    <3>1. e \in X /\ f \in X
      BY <2>2
    <3> QED BY <3>1
  <2> QED BY <2>1, <2>2
<1> QED BY <1>1, <1>2, <1>3, <1>4 DEF Shape

\* Nothing comes.
LEMMA Shrunk ==
  ASSUME Shape, nodes \subseteq Ids,
         nodes' \subseteq nodes,
         edges' \subseteq edges,
         \A n \in nodes \cap nodes' : parent'[n] = parent[n]
  PROVE  Shape'
<1> DEFINE none == {}
<1>1. nodes' \subseteq nodes \cup none /\ edges' \subseteq edges \cup none
  OBVIOUS
<1>2. \A n \in none : FALSE
  OBVIOUS
<1> HIDE DEF none
<1> QED BY <1>1, <1>2, Reshape

\* Nodes come, and no edge.
LEMMA Grown ==
  ASSUME Shape, nodes \subseteq Ids, NEW new,
         nodes' \subseteq nodes \cup new,
         \A n \in new : n \notin nodes /\ \A e \in edges : e.source # n /\ e.target # n,
         \A n \in nodes \cap nodes' : parent'[n] = parent[n],
         edges' \subseteq edges
  PROVE  Shape'
<1> DEFINE none == {}
<1>1. edges' \subseteq edges \cup none
  OBVIOUS
<1>2. \A x \in none : FALSE
  OBVIOUS
<1> HIDE DEF none
<1> QED BY <1>1, <1>2, Reshape

\* Nodes come, and an edge from s to one of them.
LEMMA Hooked ==
  ASSUME Shape, nodes \subseteq Ids, NEW new, NEW s, NEW h, NEW t \in new,
         nodes' \subseteq nodes \cup new,
         \A n \in new : n \notin nodes /\ \A e \in edges : e.source # n /\ e.target # n,
         \A n \in nodes \cap nodes' : parent'[n] = parent[n],
         edges' \subseteq edges \cup {Edge(s, h, t)},
         s \notin new,
         s \in nodes => parent'[t] = parent[s],
         h = "agentBottom" => Label[s] = "Agent" /\ Label[t] = "Agent",
         h = "tool" => Label[t] = "Tool"
  PROVE  Shape'
<1> DEFINE X == {Edge(s, h, t)}
<1>1. (\A x, y \in X : x = y) /\ edges' \subseteq edges \cup X
  OBVIOUS
<1>2. \A x \in X :
        /\ x.target \in new
        /\ x.source \notin new
        /\ x.source \in nodes => parent'[x.target] = parent[x.source]
        /\ x.handle = "agentBottom" =>
             Label[x.source] = "Agent" /\ Label[x.target] = "Agent"
        /\ x.handle = "tool" => Label[x.target] = "Tool"
  BY DEF Edge
<1> HIDE DEF X
<1> QED BY <1>1, <1>2, Reshape

\* An edge between two old nodes, from where nothing leads back.
LEMMA Joined ==
  ASSUME Shape,
         NEW s \in nodes, NEW t \in nodes, NEW h,
         NoPath(t, s), SameGroup(s, t), ~SubAgent(t),
         h # "agentBottom", h # "tool",
         edges' = edges \cup {Edge(s, h, t)},
         UNCHANGED <<nodes, parent>>
  PROVE  Shape'
<1>1. Acyclic'
  <2> SUFFICES ASSUME NEW S \in SUBSET nodes, S # {}
               PROVE  \E n \in S : \A e \in edges' : ~(e.source = n /\ e.target \in S)
    BY DEF Acyclic
  <2>1. PICK R \in SUBSET nodes : t \in R /\ s \notin R /\ Closed(R)
    BY DEF NoPath
  <2>2. CASE S \cap R = {}
    <3>1. PICK n \in S : \A e \in edges : ~(e.source = n /\ e.target \in S)
      BY DEF Shape, Acyclic
    <3>2. t \notin S
      BY <2>1, <2>2
    <3> QED BY <3>1, <3>2 DEF Edge
  <2>3. CASE S \cap R # {}
    <3>1. PICK n \in S \cap R : \A e \in edges : ~(e.source = n /\ e.target \in S \cap R)
      BY <2>3 DEF Shape, Acyclic
    <3>2. ASSUME NEW e \in edges', e.source = n, e.target \in S
          PROVE  FALSE
      <4>1. e \in edges
        BY <2>1, <3>1, <3>2 DEF Edge
      <4>2. e.target \in R
        BY <2>1, <3>1, <3>2, <4>1 DEF Closed
      <4> QED BY <3>1, <3>2, <4>1, <4>2
    <3> QED BY <3>1, <3>2
  <2> QED BY <2>2, <2>3
<1>2. EdgesStayInGroup'
  BY DEF Shape, EdgesStayInGroup, SameGroup, Edge
<1>3. Served'
  BY DEF Shape, Served, Edge
<1>4. OneOwner'
  BY DEF Shape, OneOwner, SubAgent, Edge
<1> QED BY <1>1, <1>2, <1>3, <1>4 DEF Shape
----------------------------------------------------------------------------
(* The forms.                                                              *)

\* A function on 1..n is a sequence.
LEMMA ListOf ==
  ASSUME NEW n \in Nat, NEW S, NEW f \in [1..n -> S]
  PROVE  f \in Seq(S) /\ Len(f) = n
OBVIOUS

\* Any list of conditions that there are handles for makes a form.
LEMMA AForm ==
  ASSUME NEW c \in Seq(SUBSET Ids), Len(c) <= Len(Cases), NEW T \in SUBSET Ids
  PROVE  [conditions |-> c, else |-> T] \in Forms
BY DEF Forms

\* The form of a new Switch.
LEMMA BlankForm == Blank \in Forms
<1>1. <<{}>> \in Seq(SUBSET Ids) /\ Len(<<{}>>) = 1
  OBVIOUS
<1>2. Len(Cases) \in Nat /\ Len(Cases) > 0
  BY GraphAssumption, LenProperties
<1>3. Len(<<{}>>) <= Len(Cases)
  BY <1>1, <1>2
<1> QED BY <1>1, <1>3, AForm DEF Blank

\* The form of s may be replaced by any other.
LEMMA FormReplaced ==
  ASSUME NEW s \in Switches, form \in [Switches -> Forms],
         NEW c \in Seq(SUBSET Ids), Len(c) <= Len(Cases), NEW T \in SUBSET Ids
  PROVE  [form EXCEPT ![s] = [conditions |-> c, else |-> T]] \in [Switches -> Forms]
BY AForm

\* A form keeps its shape when it follows a connection (updateSwitchFormData).
LEMMA LeadForms ==
  ASSUME NEW s \in Ids, NEW h, NEW T \in SUBSET Ids, form \in [Switches -> Forms]
  PROVE  Lead(s, h, T) \in [Switches -> Forms]
<1>1. CASE Label[s] # "Switch"
  BY <1>1 DEF Lead
<1>2. CASE Label[s] = "Switch"
  <2> DEFINE c == form[s].conditions
             d == [k \in DOMAIN c |-> IF h = Cases[k] THEN T ELSE c[k]]
             E == IF h = "else" THEN T ELSE form[s].else
  <2>1. s \in Switches /\ form[s] \in Forms
    BY <1>2 DEF Switches
  <2>2. c \in Seq(SUBSET Ids) /\ Len(c) <= Len(Cases) /\ form[s].else \in SUBSET Ids
    BY <2>1 DEF Forms
  <2>3. Len(c) \in Nat /\ DOMAIN c = 1..Len(c) /\ c \in [1..Len(c) -> SUBSET Ids]
    BY <2>2, LenProperties
  <2>4. d \in [1..Len(c) -> SUBSET Ids]
    BY <2>3
  <2>5. d \in Seq(SUBSET Ids) /\ Len(d) = Len(c)
    BY <2>3, <2>4, ListOf
  <2>6. E \in SUBSET Ids
    BY <2>2
  <2>7. Lead(s, h, T) = [form EXCEPT ![s] = [conditions |-> d, else |-> E]]
    BY <1>2 DEF Lead
  <2> HIDE DEF d, E
  <2> QED BY <2>1, <2>2, <2>5, <2>6, <2>7, FormReplaced
<1> QED BY <1>1, <1>2

\* The targets of a handle are ids.
LEMMA TargetsAreIds ==
  ASSUME NEW s, NEW h, NEW es, \A e \in es : e.target \in Ids
  PROVE  Targets(s, h, es) \in SUBSET Ids
BY DEF Targets
----------------------------------------------------------------------------
(* What every step needs.                                                  *)

\* Forms are among those TypeOK allows.
LEMMA FormsTyped ==
  ASSUME NEW f \in [Switches -> Forms]
  PROVE  f \in [Switches -> [conditions : Seq(SUBSET Ids), else : SUBSET Ids]]
BY DEF Forms

\* The handles a connection is drawn from are handles, and none an agent
\* serves by.
LEMMA DrawnFrom ==
  ASSUME IInv, NEW s \in nodes, NEW h \in SourceHandles(s)
  PROVE  h \in Handles /\ h # "agentBottom" /\ h # "tool"
<1>1. ASSUME NEW k \in DOMAIN form[s].conditions, Label[s] = "Switch"
      PROVE  k \in DOMAIN Cases /\ Cases[k] \in STRING \ Named
  <2>1. form[s] \in Forms
    BY <1>1 DEF IInv, TypeOK, Switches
  <2>2. /\ form[s].conditions \in Seq(SUBSET Ids)
        /\ Len(form[s].conditions) <= Len(Cases)
    BY <2>1 DEF Forms
  <2>3. k \in 1..Len(form[s].conditions) /\ Len(form[s].conditions) \in Nat
    BY <1>1, <2>2, LenProperties
  <2>4. Cases \in [1..Len(Cases) -> STRING \ Named] /\ Len(Cases) \in Nat
    BY GraphAssumption, LenProperties
  <2>5. k \in 1..Len(Cases)
    BY <2>2, <2>3, <2>4
  <2> QED BY <2>4, <2>5
<1> QED BY <1>1 DEF SourceHandles, Handles, Named

\* A fresh id is none that the store mentions.
LEMMA FreshIsNew ==
  ASSUME NEW n \in Fresh
  PROVE  /\ n \in Ids /\ n \notin nodes /\ n # created
         /\ \A e \in edges : e.source # n /\ e.target # n
         /\ \A m \in nodes : parent[m] # n
BY DEF Fresh

\* Nodes and edges leave: what is left is as it was, provided that no node
\* that goes is still led to by a node that stays, but from an agent.
LEMMA Dropped ==
  ASSUME IInv, NEW N, NEW C, Drop(N, C),
         created' \in {created, NoNode}, open' \in BOOLEAN,
         \A e \in edges \ C :
           /\ e.source \in nodes \ N
           /\ e.handle # "agentBottom"
           /\ Label[e.target] # "Tool"
           => e.target \notin N
  PROVE  IInv'
<1> USE DEF Drop
<1>1. TypeOK' /\ form' \in [Switches -> Forms]
  <2>1. form' \in [Switches -> Forms]
    BY BlankForm DEF IInv
  <2>2. nodes' \subseteq Ids /\ edges' \subseteq EdgeType /\ created' \in Ids \cup {NoNode}
    BY DEF IInv, TypeOK, EdgeType
  <2>3. parent' \in [Ids -> Ids \cup {NoNode}]
    BY DEF IInv, TypeOK
  <2> QED BY <2>1, <2>2, <2>3, FormsTyped DEF TypeOK, EdgeType
<1>2. Shape'
  <2>1. \A n \in nodes \cap nodes' : parent'[n] = parent[n]
    BY DEF IInv, TypeOK
  <2> QED BY <2>1, Shrunk DEF IInv, TypeOK
<1>3. Reach'
  BY DEF IInv, Reach
<1>4. Places'
  BY DEF IInv, TypeOK, Places
<1> QED BY <1>1, <1>2, <1>3, <1>4 DEF IInv
----------------------------------------------------------------------------
(* Drawing.                                                                *)

\* Join draws an edge of the right type and leaves forms behind.
LEMMA JoinTyped ==
  ASSUME IInv, NEW s \in Ids, NEW h \in Handles, NEW t \in Ids, Join(s, h, t)
  PROVE  /\ edges' = edges \cup {Edge(s, h, t)}
         /\ edges' \subseteq EdgeType
         /\ form' \in [Switches -> Forms]
<1>1. edges' = edges \cup {Edge(s, h, t)} /\ edges' \subseteq EdgeType
  BY DEF Join, Edge, EdgeType, IInv, TypeOK
<1>2. Targets(s, h, edges') \in SUBSET Ids
  BY <1>1, TargetsAreIds DEF EdgeType
<1>3. form' = Lead(s, h, Targets(s, h, edges'))
  BY DEF Join
<1> QED BY <1>1, <1>2, <1>3, LeadForms DEF IInv

\* A drawn connection: the only step that joins two old nodes.
LEMMA ConnectInv ==
  ASSUME IInv, NEW s \in nodes, NEW h \in SourceHandles(s), NEW t \in nodes,
         Connect(s, h, t)
  PROVE  IInv'
<1>1. h \in Handles /\ h # "agentBottom" /\ h # "tool"
  BY DrawnFrom
<1>2. s \in Ids /\ t \in Ids
  BY DEF IInv, TypeOK
<1>3. Join(s, h, t) /\ UNCHANGED <<nodes, parent, created, open>>
  BY DEF Connect, chooser
<1>4. /\ edges' = edges \cup {Edge(s, h, t)}
      /\ edges' \subseteq EdgeType
      /\ form' \in [Switches -> Forms]
  BY <1>1, <1>2, <1>3, JoinTyped
<1>5. TypeOK'
  BY <1>3, <1>4, FormsTyped DEF IInv, TypeOK, EdgeType
<1>6. Shape'
  <2>1. NoPath(t, s) /\ SameGroup(s, t) /\ ~SubAgent(t)
    BY DEF Connect, Accepts
  <2>2. UNCHANGED <<nodes, parent>>
    BY <1>3
  <2> QED BY <1>1, <1>4, <2>1, <2>2, Joined DEF IInv
<1>7. Reach'
  BY <1>3, <1>4 DEF IInv, Reach, Edge
<1>8. Places'
  BY <1>3 DEF IInv, Places
<1> QED BY <1>4, <1>5, <1>6, <1>7, <1>8 DEF IInv

\* One node comes, in the group of the node that an edge leads to it from.
LEMMA Hung ==
  ASSUME IInv, NEW s \in nodes, NEW h \in Handles, NEW n \in Fresh,
         h = "agentBottom" => Label[s] = "Agent" /\ Label[n] = "Agent",
         h = "tool" => Label[n] = "Tool",
         Label[n] # "Begin",
         Put({n}, parent[s]), Join(s, h, n), UNCHANGED <<created, open>>
  PROVE  IInv'
<1>1. n \in Ids /\ n \notin nodes /\ s \in Ids
  BY FreshIsNew DEF IInv, TypeOK
<1>2. \A e \in edges : e.source # n /\ e.target # n
  BY FreshIsNew
<1>3. /\ edges' = edges \cup {Edge(s, h, n)}
      /\ edges' \subseteq EdgeType
      /\ form' \in [Switches -> Forms]
  BY <1>1, JoinTyped
<1>4. /\ nodes' = nodes \cup {n}
      /\ parent' = [m \in Ids |-> IF m = n THEN parent[s] ELSE parent[m]]
  BY DEF Put
<1>5. TypeOK'
  BY <1>1, <1>3, <1>4, FormsTyped DEF IInv, TypeOK, EdgeType
<1>6. Shape'
  <2> DEFINE new == {n}
  <2>1. n \in new /\ nodes' \subseteq nodes \cup new /\ s \notin new
    BY <1>1, <1>4
  <2>2. \A m \in new : m \notin nodes /\ \A e \in edges : e.source # m /\ e.target # m
    BY <1>1, <1>2
  <2>3. \A m \in nodes \cap nodes' : parent'[m] = parent[m]
    BY <1>1, <1>4 DEF IInv, TypeOK
  <2>4. parent'[n] = parent[s] /\ Shape /\ nodes \subseteq Ids
    BY <1>1, <1>4 DEF IInv, TypeOK
  <2> HIDE DEF new
  <2> QED BY <1>3, <2>1, <2>2, <2>3, <2>4, Hooked
<1>7. Reach'
  BY <1>1, <1>2, <1>3, <1>4 DEF IInv, Reach, Edge
<1>8. Places'
  BY <1>1, <1>4 DEF IInv, Places, TypeOK
<1> QED BY <1>3, <1>5, <1>6, <1>7, <1>8 DEF IInv

\* A group comes with its start, and an edge to the group.
LEMMA GroupHung ==
  ASSUME IInv, NEW s \in nodes, NEW n \in Fresh, Label[n] = "Iteration",
         PutGroup(n, parent[s]), Join(s, "flow", n), UNCHANGED <<created, open>>
  PROVE  IInv'
<1> DEFINE new == {n, GroupStart}
<1>1. n \in Ids /\ n \notin nodes /\ s \in Ids /\ s \notin new
  BY FreshIsNew DEF IInv, TypeOK, PutGroup
<1>2. GroupStart \in Ids /\ GroupStart \notin nodes /\ Label[GroupStart] = "IterationStart"
  BY FreshIsNew, GraphAssumption DEF PutGroup
<1>3. \A m \in new : m \notin nodes /\ \A e \in edges : e.source # m /\ e.target # m
  BY FreshIsNew DEF PutGroup
<1>4. /\ edges' = edges \cup {Edge(s, "flow", n)}
      /\ edges' \subseteq EdgeType
      /\ form' \in [Switches -> Forms]
  BY <1>1, JoinTyped DEF Handles, Named
<1>5. /\ nodes' = nodes \cup new
      /\ parent' = [parent EXCEPT ![n] = parent[s], ![GroupStart] = n]
      /\ n # GroupStart
  BY <1>2 DEF PutGroup
<1>6. TypeOK'
  <2>1. parent' \in [Ids -> Ids \cup {NoNode}]
    BY <1>1, <1>2, <1>5 DEF IInv, TypeOK
  <2> QED BY <1>1, <1>2, <1>4, <1>5, <2>1, FormsTyped DEF IInv, TypeOK, EdgeType
<1>7. \A m \in nodes \cap nodes' : parent'[m] = parent[m]
  BY <1>1, <1>2, <1>5 DEF IInv, TypeOK
<1>8. parent'[n] = parent[s] /\ parent'[GroupStart] = n
  BY <1>1, <1>2, <1>5 DEF IInv, TypeOK
<1>9. Shape'
  <2>1. n \in new /\ nodes' \subseteq nodes \cup new /\ Shape /\ nodes \subseteq Ids
    BY <1>5 DEF IInv, TypeOK
  <2> HIDE DEF new
  <2> QED BY <1>1, <1>3, <1>4, <1>7, <1>8, <2>1, Hooked
<1>10. Reach'
  BY <1>1, <1>3, <1>4, <1>5 DEF IInv, Reach, Edge
<1>11. Places'
  <2>1. ASSUME NEW m \in nodes', parent'[m] # NoNode
        PROVE  Label[parent'[m]] = "Iteration"
    <3>1. CASE m = n
      <4>1. parent[s] # NoNode
        BY <1>8, <2>1, <3>1
      <4> QED BY <1>8, <3>1, <4>1 DEF IInv, Places
    <3>2. CASE m = GroupStart
      BY <1>8, <3>2
    <3>3. CASE m \in nodes
      <4>1. parent'[m] = parent[m]
        BY <1>7, <3>3
      <4> QED BY <2>1, <3>3, <4>1 DEF IInv, Places
    <3> QED BY <1>5, <3>1, <3>2, <3>3
  <2>2. ASSUME NEW m \in nodes', Label[m] = "Begin"
        PROVE  parent'[m] = NoNode
    <3>1. m \in nodes
      BY <1>2, <1>5, <2>2
    <3>2. parent'[m] = parent[m]
      BY <1>7, <3>1
    <3> QED BY <2>2, <3>1, <3>2 DEF IInv, Places
  <2>3. created' = created /\ (created # NoNode => Label[created] = "Placeholder")
    BY DEF IInv, Places
  <2> QED BY <2>1, <2>2, <2>3 DEF Places
<1> QED BY <1>4, <1>6, <1>9, <1>10, <1>11 DEF IInv

\* An operator added behind a handle.
LEMMA AddNextInv ==
  ASSUME IInv, NEW s \in nodes, NEW h \in SourceHandles(s), NEW n \in Fresh,
         AddNext(s, h, n)
  PROVE  IInv'
<1>1. h \in Handles /\ h # "agentBottom" /\ h # "tool"
  BY DrawnFrom
<1>2. UNCHANGED <<created, open>>
  BY DEF AddNext, chooser
<1>3. CASE Label[n] \in {"Message", "Switch", "Agent"}
  <2>1. Put({n}, parent[s]) /\ Join(s, h, n) /\ Label[n] # "Begin"
    BY <1>3 DEF AddNext
  <2> QED BY <1>1, <1>2, <2>1, Hung
<1>4. CASE Label[n] = "Iteration"
  <2>1. PutGroup(n, parent[s]) /\ Join(s, "flow", n)
    BY <1>4 DEF AddNext
  <2> QED BY <1>2, <1>4, <2>1, GroupHung
<1> QED BY <1>3, <1>4 DEF AddNext

\* A sub-agent or a tool added below an agent.
LEMMA AddBelowInv ==
  ASSUME IInv, NEW a \in nodes \cap Agents, NEW n \in Fresh, AddBelow(a, n)
  PROVE  IInv'
<1>1. Put({n}, parent[a]) /\ UNCHANGED <<created, open>>
  BY DEF AddBelow, chooser
<1>2. "agentBottom" \in Handles /\ "tool" \in Handles /\ Label[a] = "Agent"
  BY DEF Handles, Named, Agents
<1>3. CASE Label[n] = "Agent" /\ Join(a, "agentBottom", n)
  BY <1>1, <1>2, <1>3, Hung
<1>4. CASE Label[n] = "Tool" /\ Join(a, "tool", n)
  BY <1>1, <1>2, <1>4, Hung
<1> QED BY <1>3, <1>4 DEF AddBelow
\* A connection dropped on the pane.
LEMMA DragInv ==
  ASSUME IInv, NEW s \in nodes, NEW h \in SourceHandles(s), NEW p \in Fresh,
         DragToPane(s, h, p)
  PROVE  IInv'
<1>1. h \in Handles /\ h # "agentBottom" /\ h # "tool"
  BY DrawnFrom
<1>2. p \in Ids /\ p \notin nodes /\ s \in Ids /\ s # p
  BY FreshIsNew DEF IInv, TypeOK
<1>3. \A e \in edges : e.source # p /\ e.target # p
  BY FreshIsNew
<1>4. PICK old \in SUBSET nodes :
        LET es == (edges \ Touching(old)) \cup {Edge(s, h, p)} IN
        /\ nodes' = (nodes \ old) \cup {p}
        /\ parent' = [n \in Ids |-> IF n \in old THEN NoNode
                                    ELSE IF n = p THEN parent[s] ELSE parent[n]]
        /\ edges' = es
        /\ form' = Lead(s, h, Targets(s, h, es))
  BY DEF DragToPane
<1>5. Label[p] = "Placeholder" /\ created' = p /\ open' = TRUE
  BY DEF DragToPane
<1>6. edges' = (edges \ Touching(old)) \cup {Edge(s, h, p)} /\ edges' \subseteq EdgeType
  BY <1>1, <1>2, <1>4 DEF Edge, EdgeType, IInv, TypeOK
<1>7. form' \in [Switches -> Forms]
  <2>1. Targets(s, h, edges') \in SUBSET Ids
    BY <1>6, TargetsAreIds DEF EdgeType
  <2>2. form' = Lead(s, h, Targets(s, h, edges'))
    BY <1>4
  <2> QED BY <1>2, <2>1, <2>2, LeadForms DEF IInv
<1>8. /\ parent' \in [Ids -> Ids \cup {NoNode}]
      /\ \A n \in nodes \cap nodes' : parent'[n] = parent[n]
      /\ parent'[p] = parent[s]
  BY <1>2, <1>4 DEF IInv, TypeOK
<1>9. TypeOK'
  BY <1>2, <1>4, <1>5, <1>6, <1>7, <1>8, FormsTyped DEF IInv, TypeOK, EdgeType
<1>10. Shape'
  <2> DEFINE new == {p}
  <2>1. p \in new /\ nodes' \subseteq nodes \cup new /\ s \notin new
    BY <1>2, <1>4
  <2>2. \A m \in new : m \notin nodes /\ \A e \in edges : e.source # m /\ e.target # m
    BY <1>2, <1>3
  <2>3. edges' \subseteq edges \cup {Edge(s, h, p)} /\ Shape /\ nodes \subseteq Ids
    BY <1>6 DEF IInv, TypeOK
  <2> HIDE DEF new
  <2> QED BY <1>1, <1>8, <2>1, <2>2, <2>3, Hooked
<1>11. Reach'
  BY <1>3, <1>4, <1>6 DEF IInv, Reach, Edge, Touching
<1>12. Places'
  BY <1>2, <1>4, <1>5, <1>8 DEF IInv, Places
<1> QED BY <1>7, <1>9, <1>10, <1>11, <1>12 DEF IInv

\* The list is closed without a choice.
LEMMA DismissInv ==
  ASSUME IInv, Dismiss
  PROVE  IInv'
<1>1. /\ Drop({created} \cap nodes, Touching({created} \cap nodes))
      /\ created' = NoNode /\ open' \in BOOLEAN
  BY DEF Dismiss
<1>2. \A e \in edges \ Touching({created} \cap nodes) : e.target \notin {created} \cap nodes
  BY DEF Touching
<1> QED BY <1>1, <1>2, Dropped

\* An operator chosen in the list.
LEMMA PickInv ==
  ASSUME IInv, NEW n \in Fresh, Pick(n)
  PROVE  IInv'
<1> DEFINE gone == {created} \cap nodes
           p == IF gone = {} THEN NoNode ELSE parent[created]
           new == IF Label[n] = "Iteration" THEN {n, GroupStart} ELSE {n}
<1>1. /\ Label[n] \in {"Message", "Switch", "Agent", "Iteration"}
      /\ new \subseteq Fresh
      /\ nodes' = (nodes \ gone) \cup new
      /\ parent' = [m \in Ids |-> IF m \in gone THEN NoNode
                                  ELSE IF m = n THEN p
                                  ELSE IF m \in new THEN n ELSE parent[m]]
      /\ created' = NoNode
      /\ open' = FALSE
  BY DEF Pick
<1>2. /\ n \in new /\ new \subseteq Ids
      /\ \A m \in new : m \notin nodes /\ m # created
                        /\ \A e \in edges : e.source # m /\ e.target # m
  BY <1>1, FreshIsNew
<1>3. \A m \in new \ {n} : m = GroupStart /\ Label[m] = "IterationStart" /\ Label[n] = "Iteration"
  BY <1>2, GraphAssumption
<1>4. p \in Ids \cup {NoNode} /\ gone \subseteq nodes
  BY DEF IInv, TypeOK
<1> HIDE DEF new, p
<1>5. /\ parent' \in [Ids -> Ids \cup {NoNode}]
      /\ parent'[n] = p
      /\ \A m \in new \ {n} : parent'[m] = n
      /\ \A m \in nodes \cap nodes' : parent'[m] = parent[m]
  BY <1>1, <1>2, <1>4 DEF IInv, TypeOK
<1>6. Places'
  <2>1. p # NoNode => Label[p] = "Iteration"
    BY DEF p, IInv, Places
  <2>2. \A m \in nodes' : parent'[m] # NoNode => Label[parent'[m]] = "Iteration"
    BY <1>1, <1>3, <1>5, <2>1 DEF IInv, Places
  <2>3. \A m \in nodes' : Label[m] = "Begin" => parent'[m] = NoNode
    BY <1>1, <1>3, <1>5 DEF IInv, Places
  <2> QED BY <1>1, <2>2, <2>3 DEF Places
<1>7. nodes' \subseteq Ids /\ nodes' \subseteq nodes \cup new /\ Shape /\ nodes \subseteq Ids
  BY <1>1, <1>2 DEF IInv, TypeOK
<1>8. CASE Waiting = {}
  <2>1. edges' = edges \ Touching(gone) /\ UNCHANGED form
    BY <1>8 DEF Pick
  <2>2. TypeOK' /\ form' \in [Switches -> Forms]
    BY <1>1, <1>5, <1>7, <2>1, FormsTyped DEF IInv, TypeOK
  <2>3. Shape'
    BY <1>2, <1>5, <1>7, <2>1, Grown
  <2>4. Reach'
    BY <1>1, <1>2, <2>1 DEF IInv, Reach, Touching
  <2> QED BY <1>6, <2>2, <2>3, <2>4 DEF IInv
<1>9. CASE Waiting # {}
  <2>1. PICK w \in Waiting :
          LET es == edges \cup {Edge(w.source, w.handle, n)} IN
          /\ edges' = es \ Touching(gone)
          /\ form' = Lead(w.source, w.handle, Targets(w.source, w.handle, es))
    BY <1>9 DEF Pick
  <2>2. /\ w \in edges /\ w.target = created
        /\ w.source \in Ids /\ w.handle \in Handles /\ w.source \notin new
        /\ created # NoNode
    BY <1>2, GraphAssumption DEF Waiting, IInv, TypeOK
  <2> DEFINE es == edges \cup {Edge(w.source, w.handle, n)}
  <2>3. es \subseteq EdgeType
    BY <1>2, <2>2 DEF Edge, EdgeType, IInv, TypeOK
  <2>4. form' \in [Switches -> Forms]
    <3>1. Targets(w.source, w.handle, es) \in SUBSET Ids
      BY <2>3, TargetsAreIds DEF EdgeType
    <3> QED BY <2>1, <2>2, <3>1, LeadForms DEF IInv
  <2>5. TypeOK'
    BY <1>1, <1>5, <1>7, <2>1, <2>3, <2>4, FormsTyped DEF TypeOK, EdgeType
  <2>6. w.handle # "agentBottom" /\ w.handle # "tool"
    BY <2>2 DEF IInv, Places, Shape, Served
  <2>7. w.source \in nodes => parent'[n] = parent[w.source]
    <3>1. SUFFICES ASSUME w.source \in nodes PROVE p = parent[w.source]
      BY <1>5
    <3>2. created \in nodes
      BY <2>2, <2>6, <3>1 DEF IInv, Reach, Places
    <3> QED BY <2>2, <3>1, <3>2 DEF p, IInv, Shape, EdgesStayInGroup
  <2>8. edges' \subseteq edges \cup {Edge(w.source, w.handle, n)}
    BY <2>1
  <2>9. Shape'
    BY <1>2, <1>5, <1>7, <2>2, <2>6, <2>7, <2>8, Hooked
  <2>10. Reach'
    BY <1>1, <1>2, <2>1 DEF IInv, Reach, Touching, Edge
  <2> QED BY <1>6, <2>4, <2>5, <2>9, <2>10 DEF IInv
<1> QED BY <1>8, <1>9
----------------------------------------------------------------------------
(* Deleting.                                                               *)

\* The x of an edge.
LEMMA CutEdgeInv ==
  ASSUME IInv, NEW e \in edges, CutEdge(e)
  PROVE  IInv'
<1>1. /\ edges' = edges \ {e}
      /\ form' = Lead(e.source, e.handle, Targets(e.source, e.handle, edges) \ {e.target})
      /\ UNCHANGED <<nodes, parent, created, open>>
  BY DEF CutEdge, chooser
<1>2. form' \in [Switches -> Forms]
  <2>1. e.source \in Ids
    BY DEF IInv, TypeOK
  <2>2. Targets(e.source, e.handle, edges) \ {e.target} \in SUBSET Ids
    BY TargetsAreIds DEF IInv, TypeOK
  <2> QED BY <1>1, <2>1, <2>2, LeadForms DEF IInv
<1>3. TypeOK'
  BY <1>1, <1>2, FormsTyped DEF IInv, TypeOK
<1>4. Shape'
  BY <1>1, Shrunk DEF IInv, TypeOK
<1>5. Reach' /\ Places'
  BY <1>1 DEF IInv, Reach, Places
<1> QED BY <1>2, <1>3, <1>4, <1>5 DEF IInv

\* A node below an agent is led to by agents only, unless it is a tool.
LEMMA BelowIsServed ==
  ASSUME IInv, NEW n, NEW es \in SUBSET edges, NEW e \in edges,
         e.target \in Below(n, es)
  PROVE  e.handle = "agentBottom" \/ Label[e.target] = "Tool"
<1>1. PICK f \in Serving(es) : f.target = e.target
  BY DEF Below
<1>2. f \in edges /\ f.handle \in {"agentBottom", "tool"}
  BY <1>1 DEF Serving
<1>3. CASE f.handle = "agentBottom"
  BY <1>1, <1>2, <1>3 DEF IInv, Shape, OneOwner
<1>4. CASE f.handle = "tool"
  BY <1>1, <1>2, <1>4 DEF IInv, Shape, Served
<1> QED BY <1>2, <1>3, <1>4

\* The bin of a toolbar, one case for each of its three functions.
LEMMA DeleteNodeInv ==
  ASSUME IInv, NEW n \in nodes, DeleteNode(n)
  PROVE  IInv'
<1>1. created' \in {created, NoNode} /\ open' \in BOOLEAN
  BY DEF DeleteNode, chooser, IInv, TypeOK
<1>2. CASE DeleteAgent(n)
  <2>1. \A e \in edges \ Touching({n}) :
          /\ e.source \in nodes \ ({n} \cup Below(n, edges))
          /\ e.handle # "agentBottom"
          /\ Label[e.target] # "Tool"
          => e.target \notin {n} \cup Below(n, edges)
    BY BelowIsServed DEF Touching
  <2> QED BY <1>1, <1>2, <2>1, Dropped DEF DeleteAgent
<1>3. CASE DeleteIteration(n)
  <2> DEFINE N == {n} \cup {m \in nodes : parent[m] = n}
  <2>1. \A e \in edges \ Touching({n}) : e.source \in nodes \ N => e.target \notin N
    BY DEF Touching, IInv, Shape, EdgesStayInGroup
  <2>2. Drop(N, Touching({n}))
    BY <1>3 DEF DeleteIteration
  <2> HIDE DEF N
  <2> QED BY <1>1, <2>1, <2>2, Dropped
<1>4. CASE DeleteOther(n)
  <2>1. \A e \in edges \ Touching({n}) : e.target \notin {n}
    BY DEF Touching
  <2> QED BY <1>1, <1>4, <2>1, Dropped DEF DeleteOther
<1> QED BY <1>2, <1>3, <1>4 DEF DeleteNode

\* The last tool of an agent is removed.
LEMMA RemoveToolInv ==
  ASSUME IInv, NEW a, RemoveTool(a)
  PROVE  IInv'
<1>1. PICK e \in edges : Drop({e.target}, Touching({e.target}))
  BY DEF RemoveTool
<1>2. created' \in {created, NoNode} /\ open' \in BOOLEAN
  BY DEF RemoveTool, chooser, IInv, TypeOK
<1>3. \A f \in edges \ Touching({e.target}) : f.target \notin {e.target}
  BY DEF Touching
<1> QED BY <1>1, <1>2, <1>3, Dropped

\* The edges of one handle are removed.
LEMMA ClearHandleInv ==
  ASSUME IInv, NEW n, NEW h, ClearHandle(n, h)
  PROVE  IInv'
<1>1. edges' \subseteq edges /\ UNCHANGED <<nodes, parent, form, created, open>>
  BY DEF ClearHandle, chooser
<1>2. TypeOK' /\ form' \in [Switches -> Forms]
  BY <1>1, FormsTyped DEF IInv, TypeOK
<1>3. Shape'
  BY <1>1, Shrunk DEF IInv, TypeOK
<1>4. Reach' /\ Places'
  BY <1>1 DEF IInv, Reach, Places
<1> QED BY <1>2, <1>3, <1>4 DEF IInv

\* Delete with any selection, as handleBeforeDelete completes it.
LEMMA PressDeleteInv ==
  ASSUME IInv, NEW N, NEW C \in SUBSET edges, PressDelete(N, C)
  PROVE  IInv'
<1> DEFINE W == Within(N)
           touched == C \cup Touching(W)
           below == UNION {Below(a, touched) : a \in W \cap Agents}
           kept == {e \in touched : /\ Label[e.source] \in {"Begin", "IterationStart"}
                                    /\ e.target \notin W
                                    /\ e.source \in W}
           gone == Deletable(W) \cup (below \cap nodes)
<1>1. Drop(gone, touched \ kept) /\ UNCHANGED <<created, open>>
  BY DEF PressDelete, Delete, chooser
<1> HIDE DEF W
<1>2. touched \in SUBSET edges
  BY DEF Touching
<1>3. ASSUME NEW e \in edges \ (touched \ kept),
             e.handle # "agentBottom", Label[e.target] # "Tool"
      PROVE  e.target \notin gone
  <2>1. e.target \notin W
    BY DEF Touching
  <2>2. e.target \notin below
    BY <1>2, <1>3, BelowIsServed
  <2> QED BY <2>1, <2>2 DEF Deletable
<1> HIDE DEF gone, touched, kept
<1>4. \A e \in edges \ (touched \ kept) :
        /\ e.source \in nodes \ gone
        /\ e.handle # "agentBottom"
        /\ Label[e.target] # "Tool"
        => e.target \notin gone
  BY <1>3
<1>5. created' \in {created, NoNode} /\ open' \in BOOLEAN
  BY <1>1 DEF IInv, TypeOK
<1> QED BY <1>1, <1>4, <1>5, Dropped
----------------------------------------------------------------------------
(* The form of a Switch, and copies.                                       *)

\* A step that writes nothing but a list of conditions.
LEMMA ConditionsSet ==
  ASSUME IInv, NEW s \in Switches, NEW c \in Seq(SUBSET Ids), Len(c) <= Len(Cases),
         SetConditions(s, c), UNCHANGED <<nodes, parent, edges, created, open>>
  PROVE  IInv'
<1>1. form' = [form EXCEPT ![s] = [conditions |-> c, else |-> form[s].else]]
  BY Zenon DEF SetConditions
<1>2. form[s].else \in SUBSET Ids
  BY DEF IInv, Forms
<1>3. form' \in [Switches -> Forms]
  BY <1>1, <1>2, FormReplaced DEF IInv
<1>4. TypeOK'
  BY <1>3, FormsTyped DEF IInv, TypeOK
<1>5. Shape'
  BY Shrunk DEF IInv, TypeOK
<1>6. Reach' /\ Places'
  BY DEF IInv, Reach, Places
<1> QED BY <1>3, <1>4, <1>5, <1>6 DEF IInv

\* A condition is added to a Switch.
LEMMA AddCaseInv ==
  ASSUME IInv, NEW s \in Switches, AddCase(s)
  PROVE  IInv'
<1> DEFINE c == form[s].conditions
<1>1. c \in Seq(SUBSET Ids) /\ Len(c) < Len(Cases)
  BY DEF IInv, Forms, AddCase
<1>2. Append(c, {}) \in Seq(SUBSET Ids) /\ Len(Append(c, {})) = Len(c) + 1
  BY <1>1
<1>3. Len(c) \in Nat /\ Len(Cases) \in Nat
  BY <1>1, GraphAssumption, LenProperties
<1>4. Len(Append(c, {})) <= Len(Cases)
  BY <1>1, <1>2, <1>3
<1> QED BY <1>2, <1>4, ConditionsSet DEF AddCase, chooser

\* A condition is removed from a Switch.
LEMMA RemoveCaseInv ==
  ASSUME IInv, NEW s \in Switches, NEW k \in 1..Len(Cases), RemoveCase(s, k)
  PROVE  IInv'
<1> DEFINE c == form[s].conditions
           d == SubSeq(c, 1, k - 1) \o SubSeq(c, k + 1, Len(c))
<1>1. c \in Seq(SUBSET Ids) /\ Len(c) <= Len(Cases) /\ k \in DOMAIN c
  BY DEF IInv, Forms, RemoveCase
<1>2. Len(c) \in Nat /\ DOMAIN c = 1..Len(c) /\ Len(Cases) \in Nat /\ k \in 1..Len(c)
  BY <1>1, GraphAssumption, LenProperties
<1>3. \A i \in 1..Len(c) : c[i] \in SUBSET Ids
  BY <1>1, ElementOfSeq
<1>4. /\ SubSeq(c, 1, k - 1) \in Seq(SUBSET Ids)
      /\ Len(SubSeq(c, 1, k - 1)) = IF 1 <= k - 1 THEN k - 1 - 1 + 1 ELSE 0
  BY <1>2, <1>3, SubSeqProperties
<1>5. /\ SubSeq(c, k + 1, Len(c)) \in Seq(SUBSET Ids)
      /\ Len(SubSeq(c, k + 1, Len(c))) =
           IF k + 1 <= Len(c) THEN Len(c) - (k + 1) + 1 ELSE 0
  BY <1>2, <1>3, SubSeqProperties
<1>6. d \in Seq(SUBSET Ids) /\ Len(d) = Len(SubSeq(c, 1, k - 1)) + Len(SubSeq(c, k + 1, Len(c)))
  BY <1>4, <1>5, ConcatProperties
<1>7. Len(d) <= Len(Cases)
  BY <1>1, <1>2, <1>4, <1>5, <1>6
<1>8. SetConditions(s, d) /\ UNCHANGED <<nodes, parent, edges, created, open>>
  BY DEF RemoveCase, chooser
<1> HIDE DEF d
<1> QED BY <1>6, <1>7, <1>8, ConditionsSet

\* A node is copied, an Iteration with its children.
LEMMA DuplicateInv ==
  ASSUME IInv, NEW n \in nodes, NEW copy, Duplicate(n, copy)
  PROVE  IInv'
<1> DEFINE from == DOMAIN copy
           new == {copy[m] : m \in from}
<1>1. /\ from = {n} \cup (IF Label[n] = "Iteration" THEN {m \in nodes : parent[m] = n} ELSE {})
      /\ new \subseteq Fresh
      /\ \A m \in from : Label[copy[m]] = Label[m]
      /\ nodes' = nodes \cup new
      /\ parent' = [m \in Ids |->
                      IF m \notin new THEN parent[m]
                      ELSE IF m = copy[n] THEN parent[n] ELSE copy[n]]
      /\ form' = [s \in Switches |->
                    IF \E m \in from : copy[m] = s
                      THEN form[CHOOSE m \in from : copy[m] = s] ELSE form[s]]
      /\ UNCHANGED <<edges, created, open>>
  BY DEF Duplicate, chooser
<1>2. /\ n \in from /\ from \subseteq nodes /\ copy[n] \in new
      /\ (\E m \in from : m # n) => Label[n] = "Iteration"
      /\ Label[n] # "Iteration" => new = {copy[n]}
  BY <1>1
<1>3. /\ new \subseteq Ids
      /\ \A m \in new : m \notin nodes /\ \A e \in edges : e.source # m /\ e.target # m
  BY <1>1, FreshIsNew
<1>4. \A m \in from : m \in Ids /\ parent[m] \in Ids \cup {NoNode}
  BY <1>2 DEF IInv, TypeOK
<1>5. form' \in [Switches -> Forms]
  <2>1. SUFFICES ASSUME NEW s \in Switches, NEW m \in from, copy[m] = s,
                        m = CHOOSE l \in from : copy[l] = s
                 PROVE  m \in Switches
    BY <1>1 DEF IInv
  <2> QED BY <1>1, <1>4, <2>1 DEF Switches
<1>6. /\ parent' \in [Ids -> Ids \cup {NoNode}]
      /\ \A m \in nodes \cap nodes' : parent'[m] = parent[m]
      /\ parent'[copy[n]] = parent[n]
      /\ \A m \in new \ {copy[n]} : parent'[m] = copy[n]
  BY <1>1, <1>2, <1>3, <1>4 DEF IInv, TypeOK
<1>7. nodes' \subseteq nodes \cup new /\ nodes' \subseteq Ids /\ Shape /\ nodes \subseteq Ids
  BY <1>1, <1>3 DEF IInv, TypeOK
<1>8. Places'
  <2>1. \A m \in nodes' : parent'[m] # NoNode => Label[parent'[m]] = "Iteration"
    <3> SUFFICES ASSUME NEW m \in nodes', parent'[m] # NoNode
                 PROVE  Label[parent'[m]] = "Iteration"
      OBVIOUS
    <3>1. CASE m \in nodes
      BY <1>6, <3>1 DEF IInv, Places
    <3>2. CASE m = copy[n]
      BY <1>6, <3>2 DEF IInv, Places
    <3>3. CASE m \in new \ {copy[n]}
      BY <1>1, <1>2, <1>6, <3>3
    <3> QED BY <1>1, <3>1, <3>2, <3>3
  <2>2. \A m \in nodes' : Label[m] = "Begin" => parent'[m] = NoNode
    <3> SUFFICES ASSUME NEW m \in nodes', Label[m] = "Begin"
                 PROVE  parent'[m] = NoNode
      OBVIOUS
    <3>1. CASE m \in nodes
      BY <1>6, <3>1 DEF IInv, Places
    <3>2. CASE m = copy[n]
      BY <1>1, <1>2, <1>6, <3>2 DEF IInv, Places
    <3>3. CASE m \in new \ {copy[n]}
      <4>1. PICK l \in from : m = copy[l] /\ l # n
        BY <3>3
      <4>2. Label[l] = "Begin" /\ parent[l] = n /\ l \in nodes
        BY <1>1, <1>2, <4>1
      <4>3. n # NoNode
        BY <1>7, GraphAssumption
      <4> QED BY <4>2, <4>3 DEF IInv, Places
    <3> QED BY <1>1, <3>1, <3>2, <3>3
  <2> QED BY <1>1, <2>1, <2>2 DEF IInv, Places
<1> HIDE DEF new, from
<1>9. TypeOK'
  BY <1>1, <1>5, <1>6, <1>7, FormsTyped DEF IInv, TypeOK
<1>10. Shape'
  BY <1>1, <1>3, <1>6, <1>7, Grown
<1>11. Reach'
  BY <1>1, <1>3 DEF IInv, Reach
<1> QED BY <1>5, <1>8, <1>9, <1>10, <1>11 DEF IInv
----------------------------------------------------------------------------
(* The invariant is inductive.                                             *)

\* The canvas of a new agent.
LEMMA InitInv == Init => IInv
<1> SUFFICES ASSUME Init PROVE IInv
  OBVIOUS
<1>1. form \in [Switches -> Forms]
  BY BlankForm DEF Init
<1>2. TypeOK
  BY <1>1, FormsTyped DEF Init, TypeOK
<1>3. Shape
  BY DEF Init, Shape, Acyclic, EdgesStayInGroup, Served, OneOwner
<1>4. Reach /\ Places
  BY DEF Init, Reach, Places
<1> QED BY <1>1, <1>2, <1>3, <1>4 DEF IInv

\* Every gesture keeps the invariant.
LEMMA NextInv == IInv /\ [Next]_vars => IInv'
<1> SUFFICES ASSUME IInv, [Next]_vars PROVE IInv'
  OBVIOUS
<1>1. ASSUME NEW s \in nodes, NEW h \in SourceHandles(s),
             \/ \E t \in nodes : Connect(s, h, t)
             \/ \E n \in Fresh : AddNext(s, h, n) \/ DragToPane(s, h, n)
             \/ ClearHandle(s, h)
      PROVE  IInv'
  BY <1>1, ConnectInv, AddNextInv, DragInv, ClearHandleInv
<1>2. ASSUME NEW a \in nodes \cap Agents,
             RemoveTool(a) \/ \E n \in Fresh : AddBelow(a, n)
      PROVE  IInv'
  BY <1>2, RemoveToolInv, AddBelowInv
<1>3. ASSUME NEW n \in Fresh, Pick(n) PROVE IInv'
  BY <1>3, PickInv
<1>4. CASE Dismiss
  BY <1>4, DismissInv
<1>5. ASSUME NEW e \in edges, CutEdge(e) PROVE IInv'
  BY <1>5, CutEdgeInv
<1>6. ASSUME NEW n \in nodes, DeleteNode(n) PROVE IInv'
  BY <1>6, DeleteNodeInv
<1>7. ASSUME NEW N \in Selections(nodes), NEW C \in Selections(edges), PressDelete(N, C)
      PROVE  IInv'
  <2>1. C \in SUBSET edges
    BY DEF Selections
  <2> QED BY <1>7, <2>1, PressDeleteInv
<1>8. ASSUME NEW s \in nodes \cap Switches,
             AddCase(s) \/ \E k \in 1..Len(Cases) : RemoveCase(s, k)
      PROVE  IInv'
  BY <1>8, AddCaseInv, RemoveCaseInv
<1>9. ASSUME NEW n \in nodes, NEW copy \in Copies(n), Duplicate(n, copy) PROVE IInv'
  BY <1>9, DuplicateInv
<1>10. CASE UNCHANGED vars
  <2>1. UNCHANGED <<nodes, parent, edges, form, created, open>>
    BY <1>10 DEF vars
  <2>2. TypeOK' /\ form' \in [Switches -> Forms]
    BY <2>1 DEF IInv, TypeOK
  <2>3. Shape'
    BY <2>1, Shrunk DEF IInv, TypeOK
  <2>4. Reach' /\ Places'
    BY <2>1 DEF IInv, Reach, Places
  <2> QED BY <2>2, <2>3, <2>4 DEF IInv
<1> QED BY <1>1, <1>2, <1>3, <1>4, <1>5, <1>6, <1>7, <1>8, <1>9, <1>10 DEF Next

\* The invariant holds for any ids, conditions and bounds.
THEOREM Inductive == Spec => []IInv
BY InitInv, NextInv, PTL DEF Spec

----------------------------------------------------------------------------
(* The theorems.                                                           *)

\* The variables keep their types, the conditions of a Switch included.
THEOREM Typed == Spec => []TypeOK
<1>1. IInv => TypeOK
  BY DEF IInv
<1> QED BY <1>1, Inductive, PTL

\* However long the session, no sequence of gestures closes a cycle, though
\* only a drawn connection is checked (hasCanvasCycle).
THEOREM NeverCyclic == Spec => []Acyclic
<1>1. IInv => Acyclic
  BY DEF IInv, Shape
<1> QED BY <1>1, Inductive, PTL

\* No gesture joins nodes of different groups: not even the operator chosen
\* for a placeholder whose source was deleted meanwhile.
THEOREM GroupsStayClosed == Spec => []EdgesStayInGroup
<1>1. IInv => EdgesStayInGroup
  BY DEF IInv, Shape
<1> QED BY <1>1, Inductive, PTL

\* The DSL names no successor that is not one of its components.
LEMMA SuccessorsFromInv == IInv => SuccessorsExist
<1> SUFFICES ASSUME IInv, NEW n \in Components, NEW t \in Successors(n), Label[t] # "Tool"
             PROVE  t \in Components
  BY DEF SuccessorsExist
<1>1. PICK x \in DslEdges :
        /\ x.source = n /\ x.target = t
        /\ Label[n] = "Agent" => x.handle # "agentBottom"
  BY DEF Successors
<1>2. x \in edges /\ n \in nodes
  BY DEF DslEdges, Components
<1>3. x.handle # "agentBottom"
  BY <1>1, <1>2 DEF IInv, Shape, Served
<1>4. t \in nodes
  BY <1>1, <1>2, <1>3 DEF IInv, Reach
<1>5. Label[t] # "Placeholder"
  BY <1>1, <1>4 DEF DslEdges, Touching, Placeholders, IInv, TypeOK
<1>6. ASSUME NEW e \in DslEdges, e.target = t, e.handle = "agentBottom"
      PROVE  FALSE
  BY <1>1, <1>2, <1>3, <1>6 DEF IInv, Shape, OneOwner, DslEdges
<1> QED BY <1>4, <1>5, <1>6 DEF Components

\* No way of deleting leaves the DSL with a successor it does not hold.
THEOREM DslIsClosed == Spec => []SuccessorsExist
BY SuccessorsFromInv, Inductive, PTL
----------------------------------------------------------------------------
(* What no step does.                                                      *)

\* What serves an agent is an agent or a tool.
LEMMA BelowLabels ==
  ASSUME IInv, NEW n, NEW es \in SUBSET edges, NEW m \in Below(n, es)
  PROVE  Label[m] \in {"Agent", "Tool"}
<1>1. PICK f \in Serving(es) : f.target = m
  BY DEF Below
<1>2. f \in edges /\ f.handle \in {"agentBottom", "tool"}
  BY <1>1 DEF Serving
<1> QED BY <1>1, <1>2 DEF IInv, Shape, Served

\* The entries that leave with a group, for any step that drops N.
EntryLeaves(n) ==
  /\ Label[n] # "Begin"
  /\ Label[n] = "IterationStart" => parent[n] \notin nodes'

\* The bin of a toolbar takes a start only with its group.
LEMMA DeleteNodeEntries ==
  ASSUME IInv, NEW n \in nodes, DeleteNode(n), NEW m \in nodes \ nodes'
  PROVE  EntryLeaves(m)
<1>1. CASE Label[n] = "Agent" /\ DeleteAgent(n)
  <2>1. m = n \/ m \in Below(n, edges)
    BY <1>1 DEF DeleteAgent, Drop
  <2> QED BY <1>1, <2>1, BelowLabels DEF EntryLeaves
<1>2. CASE Label[n] = "Iteration" /\ DeleteIteration(n)
  <2>1. (m = n \/ parent[m] = n) /\ n \notin nodes' /\ n # NoNode
    BY <1>2, GraphAssumption DEF DeleteIteration, Drop, IInv, TypeOK
  <2> QED BY <1>2, <2>1 DEF EntryLeaves, IInv, Places
<1>3. CASE Label[n] \in {"Message", "Switch"} /\ DeleteOther(n)
  BY <1>3 DEF DeleteOther, Drop, EntryLeaves
<1> QED BY <1>1, <1>2, <1>3 DEF DeleteNode

\* So does Delete, and neither takes Begin.
LEMMA PressDeleteEntries ==
  ASSUME IInv, NEW N, NEW C \in SUBSET edges, PressDelete(N, C), NEW m \in nodes \ nodes'
  PROVE  EntryLeaves(m)
<1> DEFINE W == Within(N)
           touched == C \cup Touching(W)
           below == UNION {Below(a, touched) : a \in W \cap Agents}
<1>1. nodes' = nodes \ (Deletable(W) \cup (below \cap nodes))
  BY DEF PressDelete, Delete, Drop
<1> HIDE DEF W
<1>2. touched \in SUBSET edges
  BY DEF Touching
<1>3. CASE m \in below
  BY <1>2, <1>3, BelowLabels DEF EntryLeaves
<1>4. CASE m \in Deletable(W)
  <2>1. Label[m] # "Begin" /\ (Label[m] = "IterationStart" => parent[m] \in W)
    BY <1>4 DEF Deletable
  <2>2. ASSUME Label[m] = "IterationStart" PROVE parent[m] \notin nodes'
    <3>1. parent[m] = NoNode \/ Label[parent[m]] = "Iteration"
      BY DEF IInv, Places
    <3>2. CASE parent[m] = NoNode
      BY <1>1, <3>2, GraphAssumption DEF IInv, TypeOK
    <3>3. CASE Label[parent[m]] = "Iteration"
      <4>1. parent[m] \in Deletable(W)
        BY <2>1, <2>2, <3>3 DEF Deletable
      <4> QED BY <1>1, <4>1
    <3> QED BY <3>1, <3>2, <3>3
  <2> QED BY <2>1, <2>2 DEF EntryLeaves
<1> QED BY <1>1, <1>3, <1>4

\* Neither Begin nor, without its group, the start of a group is deleted.
THEOREM EntriesStay == Spec => EntriesLeaveWithGroup
<1>1. ASSUME IInv, [Next]_vars
      PROVE  [\A n \in nodes \ nodes' :
               /\ Label[n] # "Begin"
               /\ Label[n] = "IterationStart" => parent[n] \notin nodes']_vars
  <2> SUFFICES ASSUME Next, NEW m \in nodes \ nodes' PROVE EntryLeaves(m)
    BY <1>1 DEF EntryLeaves
  <2> USE <1>1
  <2>1. ASSUME NEW s \in nodes, NEW h \in SourceHandles(s),
               \/ \E t \in nodes : Connect(s, h, t)
               \/ \E n \in Fresh : AddNext(s, h, n)
               \/ ClearHandle(s, h)
        PROVE  FALSE
    BY <2>1 DEF Connect, AddNext, Put, PutGroup, ClearHandle
  <2>2. ASSUME NEW s \in nodes, NEW h \in SourceHandles(s), NEW n \in Fresh,
               DragToPane(s, h, n)
        PROVE  EntryLeaves(m)
    <3>1. m \in Placeholders
      BY <2>2 DEF DragToPane
    <3> QED BY <3>1 DEF Placeholders, EntryLeaves
  <2>3. ASSUME NEW a \in nodes \cap Agents, NEW n \in Fresh, AddBelow(a, n) PROVE FALSE
    BY <2>3 DEF AddBelow, Put
  <2>4. ASSUME NEW a \in nodes \cap Agents, RemoveTool(a) PROVE EntryLeaves(m)
    <3>1. PICK e \in edges : e.handle = "tool" /\ Drop({e.target}, Touching({e.target}))
      BY <2>4 DEF RemoveTool
    <3>2. m = e.target /\ Label[e.target] = "Tool"
      BY <3>1 DEF Drop, IInv, Shape, Served
    <3> QED BY <3>2 DEF EntryLeaves
  <2>5. ASSUME m = created PROVE EntryLeaves(m)
    BY <2>5, GraphAssumption DEF EntryLeaves, IInv, TypeOK, Places
  <2>6. ASSUME NEW n \in Fresh, Pick(n) PROVE EntryLeaves(m)
    <3>1. m = created
      BY <2>6 DEF Pick
    <3> QED BY <3>1, <2>5
  <2>7. CASE Dismiss
    <3>1. m = created
      BY <2>7 DEF Dismiss, Drop
    <3> QED BY <3>1, <2>5
  <2>8. ASSUME NEW e \in edges, CutEdge(e) PROVE FALSE
    BY <2>8 DEF CutEdge
  <2>9. ASSUME NEW n \in nodes, DeleteNode(n) PROVE EntryLeaves(m)
    BY <2>9, DeleteNodeEntries
  <2>10. ASSUME NEW N \in Selections(nodes), NEW C \in Selections(edges), PressDelete(N, C)
         PROVE  EntryLeaves(m)
    <3>1. C \in SUBSET edges
      BY DEF Selections
    <3> QED BY <2>10, <3>1, PressDeleteEntries
  <2>11. ASSUME NEW s \in nodes \cap Switches,
                AddCase(s) \/ \E k \in 1..Len(Cases) : RemoveCase(s, k)
         PROVE  FALSE
    BY <2>11 DEF AddCase, RemoveCase
  <2>12. ASSUME NEW n \in nodes, NEW copy \in Copies(n), Duplicate(n, copy) PROVE FALSE
    BY <2>12 DEF Duplicate
  <2> QED BY <2>1, <2>2, <2>3, <2>4, <2>6, <2>7, <2>8, <2>9, <2>10, <2>11, <2>12 DEF Next
<1> QED BY <1>1, Inductive, PTL DEF Spec, EntriesLeaveWithGroup

\* The list of a dragged connection never closes over its placeholder.
THEOREM PlaceholderGoes == Spec => PlaceholderLeavesWithList
<1>1. ASSUME [Next]_vars
      PROVE  [open /\ ~open' => created \notin nodes']_vars
  <2> SUFFICES ASSUME Next, open, ~open' PROVE created \notin nodes'
    BY <1>1
  <2>1. ASSUME NEW n \in Fresh, Pick(n) PROVE created \notin nodes'
    <3>1. PICK new \in SUBSET Fresh : nodes' = (nodes \ ({created} \cap nodes)) \cup new
      BY <2>1 DEF Pick
    <3> QED BY <3>1, FreshIsNew
  <2>2. CASE Dismiss
    BY <2>2 DEF Dismiss, Drop
  <2>3. ASSUME UNCHANGED open \/ open' = TRUE PROVE FALSE
    BY <2>3
  <2> QED BY <2>1, <2>2, <2>3
    DEF Next, chooser, Connect, AddNext, DragToPane, ClearHandle, RemoveTool, AddBelow,
        CutEdge, DeleteNode, PressDelete, AddCase, RemoveCase, Duplicate
<1> QED BY <1>1, PTL DEF Spec, PlaceholderLeavesWithList
=============================================================================
