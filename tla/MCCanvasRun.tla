---------------------------- MODULE MCCanvasRun ----------------------------
(* Small agents: each exercises one way the path is extended.               *)
EXTENDS CanvasShapes, TLC

\* A DSL from what differs from a component without parent, references,
\* exception branch and items.
Canvas(kind, downstream, refs, parent, start, cases, goto, default, count, collect, guarded) ==
  LET N == DOMAIN kind IN
  [kind |-> kind,
   downstream |-> downstream @@ [c \in N |-> <<>>],
   refs |-> refs @@ [c \in N |-> {}],
   parent |-> parent @@ [c \in N |-> Nothing],
   start |-> start @@ [c \in N |-> c],
   cases |-> cases @@ [c \in N |-> {}],
   goto |-> goto @@ [c \in N |-> <<>>],
   default |-> default,
   count |-> count @@ [c \in N |-> 0],
   collect |-> collect @@ [c \in N |-> c],
   guarded |-> guarded]

None == [c \in {} |-> 0]

\* A fork whose branches have different lengths, joined by j; c has an
\* exception branch to e, d a default value.
Fork ==
  Canvas("begin" :> "begin" @@ [c \in {"a", "b", "c", "d", "e", "j"} |-> "work"],
         "begin" :> <<"a">> @@ "a" :> <<"b", "c">> @@ "b" :> <<"j">>
           @@ "c" :> <<"d">> @@ "d" :> <<"j">>,
         "b" :> {"a"} @@ "d" :> {"c"} @@ "j" :> {"b", "d"},
         None, None, None, "c" :> <<"e">>, {"d"}, None, None, {})

\* A switch whose cases lead to m; m refers to both a and b.
Choice ==
  Canvas("begin" :> "begin" @@ "s" :> "switch" @@ [c \in {"a", "b", "m"} |-> "work"],
         "begin" :> <<"s">> @@ "a" :> <<"m">> @@ "b" :> <<"m">>,
         "m" :> {"a", "b"}, None, None, "s" :> {<<"a">>, <<"b">>, <<"a", "b">>, <<>>},
         None, {}, None, None, {})

\* An Iteration of n items over a chain of two components.
Each(n) ==
  Canvas("begin" :> "begin" @@ "it" :> "iteration" @@ "item" :> "iterationitem"
           @@ [c \in {"a", "b", "m"} |-> "work"],
         "begin" :> <<"it">> @@ "it" :> <<"m">> @@ "item" :> <<"a">> @@ "a" :> <<"b">>,
         "a" :> {"item"} @@ "b" :> {"a"} @@ "m" :> {"it"},
         [c \in {"item", "a", "b"} |-> "it"], "it" :> "item", None,
         None, {"b"}, "it" :> n, "it" :> "b", {})

\* A Loop whose body may leave by ExitLoop.
Repeat(guarded) ==
  Canvas("begin" :> "begin" @@ "lo" :> "loop" @@ "item" :> "loopitem" @@ "s" :> "switch"
           @@ "x" :> "exitloop" @@ [c \in {"a", "m"} |-> "work"],
         "begin" :> <<"lo">> @@ "lo" :> <<"m">> @@ "item" :> <<"s">>,
         None, [c \in {"item", "s", "a", "x"} |-> "lo"], "lo" :> "item",
         "s" :> {<<"a">>, <<"x">>}, None, {}, "lo" :> 2, None, guarded)

\* A fill-up between two components.
Ask ==
  Canvas("begin" :> "begin" @@ "f" :> "userfillup" @@ [c \in {"a", "b", "m"} |-> "work"],
         "begin" :> <<"a">> @@ "a" :> <<"f">> @@ "f" :> <<"b">> @@ "b" :> <<"m">>,
         "b" :> {"a", "f"}, None, None, None, None, {}, None, None, {})

\* An Iteration whose body forks into branches of one and two components.
EachFork ==
  Canvas("begin" :> "begin" @@ "it" :> "iteration" @@ "item" :> "iterationitem"
           @@ [c \in {"a", "b", "d", "m"} |-> "work"],
         "begin" :> <<"it">> @@ "it" :> <<"m">> @@ "item" :> <<"a", "d">> @@ "a" :> <<"b">>,
         "a" :> {"item"} @@ "b" :> {"a"} @@ "d" :> {"item"},
         [c \in {"item", "a", "b", "d"} |-> "it"], "it" :> "item", None,
         None, {}, "it" :> 2, "it" :> "b", {})

\* An Iteration of two items between two forks: g and h join at it, m and n
\* follow it.
Between ==
  Canvas("begin" :> "begin" @@ "it" :> "iteration" @@ "item" :> "iterationitem"
           @@ [c \in {"a", "g", "h", "m", "n"} |-> "work"],
         "begin" :> <<"g", "h">> @@ "g" :> <<"it">> @@ "h" :> <<"it">> @@ "it" :> <<"m", "n">>
           @@ "item" :> <<"a">>,
         "a" :> {"item"} @@ "it" :> {"h"} @@ "m" :> {"it"} @@ "n" :> {"it"},
         [c \in {"item", "a"} |-> "it"], "it" :> "item", None,
         None, {}, "it" :> 2, "it" :> "a", {})

\* A fill-up in one of two branches.
AskFork ==
  Canvas("begin" :> "begin" @@ "f" :> "userfillup" @@ [c \in {"a", "b", "m"} |-> "work"],
         "begin" :> <<"a">> @@ "a" :> <<"f", "b">> @@ "f" :> <<"m">> @@ "b" :> <<"m">>,
         None, None, None, None, None, {}, None, None, {})

\* The fork with its branches the other way round: d comes into the batch
\* before j, which refers to it.
ForkBack ==
  Canvas("begin" :> "begin" @@ [c \in {"a", "b", "c", "d", "j"} |-> "work"],
         "begin" :> <<"a">> @@ "a" :> <<"c", "b">> @@ "b" :> <<"j">>
           @@ "c" :> <<"d">> @@ "d" :> <<"j">>,
         "j" :> {"b", "d"}, None, None, None, None, {}, None, None, {})

RunCanvases == {Fork, Choice, Each(0), Each(2), Between, Repeat({}), Repeat({"lo"}), Ask}

ItemsCanvases == {EachFork}

PauseCanvases == {AskFork}

JoinCanvases == {ForkBack}

\* The components from which edges lead to c.
Above(d, c) ==
  LET A[n \in Nat] ==
        IF n = 0 THEN {c}
        ELSE LET B == A[n - 1] IN B \cup {x \in Nodes(d) : \E y \in B : LeadsTo(d, x, y)}
  IN  A[Cardinality(Nodes(d))] \ {c}

Depth(d) == [c \in Nodes(d) |-> Cardinality(Above(d, c))]

\* The pairs of one list, and those of lists of S with lists of T.
Row(s) == UNION {{<<s[k], s[l]>> : k \in 1 .. l - 1} : l \in DOMAIN s}

Cross(S, T) == UNION {{<<s[k], t[l]>> : k \in DOMAIN s, l \in DOMAIN t} : s \in S, t \in T}

\* What Together adds to the pairs P.
More(d, P) ==
  LET Onwards(b) ==
        {a \in Cross(Lists(d, b[1]), Lists(d, b[2])) : a[1] # a[2]}
          \cup Cross(Lists(d, b[1]), {d.goto[b[2]]})
  IN  P \cup UNION {Row(s) : s \in UNION {Lists(d, c) : c \in Nodes(d)}}
        \cup UNION {Onwards(b) : b \in P}
        \cup {<<b[1], b[1]>> : b \in {b \in P : b[1] # b[2] /\ <<b[2], b[1]>> \in P}}

RECURSIVE Grown(_, _)
Grown(d, P) == LET Q == More(d, P) IN IF Q = P THEN P ELSE Grown(d, Q)

\* The pairs a batch of d may hold: the least P with Together(d, P).
Order(d) == Grown(d, {})

\* The agents of the first run have the shapes the proofs assume; those of the
\* runs that find a violation do not.
ASSUME RunShapes ==
  /\ \A d \in RunCanvases :
       /\ Grouped(d) /\ InScope(d) /\ Together(d, Order(d))
       /\ Apart(d, Order(d)) /\ AsksAlone(d, Order(d))
       /\ Steered(d) => FreeOnly(d, Order(d)) /\ Ranks(d, Depth(d)) /\ Collects(d)
  /\ ~FreeOnly(EachFork, Order(EachFork))
  /\ ~AsksAlone(AskFork, Order(AskFork))
  /\ ~Apart(ForkBack, Order(ForkBack))
=============================================================================
