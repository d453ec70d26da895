--------------------------- MODULE DocIngestProofs ---------------------------
(***************************************************************************)
(* Proofs about DocIngest, for every set of parts, every set of API calls  *)
(* and every bound: what is left of an API call, the types, that CANCEL is *)
(* final, and the bookkeeping (DocInv) that the proofs of the other        *)
(* properties start from (DocIngestRerunProofs, DocIngestFirstRunProofs).  *)
(***************************************************************************)
EXTENDS DocIngest, SequenceTheorems, FiniteSetTheorems, TLAPS

(* What may be left of a call.  The calls that queue a run end with        *)
(* QueueTasks: Q...; before it run has R... and, with "delete", W...,      *)
(* parse P...; then cancel C..., stop_parsing S... and the removals X....  *)

Statements == {"uncount", "mark", "mark-empty", "cancel", "stop", "flags", "rows", "store",
               "drop", "plan", "prune", "chunks", "insert", "begin", "publish"}

QPublish == <<"publish">>
QBegin   == <<"begin", "publish">>
QInsert  == <<"insert", "begin", "publish">>
QChunks  == <<"chunks", "insert", "begin", "publish">>
QPrune   == <<"prune", "chunks", "insert", "begin", "publish">>
QRows    == <<"rows", "prune", "chunks", "insert", "begin", "publish">>
QPlan    == QueueTasks
RMark    == <<"mark">> \o QPlan
RUncount == (<<"uncount">> \o <<"mark">>) \o QPlan
WStore   == <<"store">> \o QPlan
WRows    == <<"rows", "store">> \o QPlan
WEmpty   == <<"mark-empty", "rows", "store">> \o QPlan
WUncount == (<<"uncount">> \o <<"mark-empty", "rows", "store">>) \o QPlan
PRows    == <<"rows">> \o QPlan
PStore   == <<"store", "rows">> \o QPlan
PEmpty   == <<"mark-empty", "store", "rows">> \o QPlan
CCancel  == <<"cancel">>
CFlags   == <<"flags", "cancel">>
SStore   == <<"store">>
SStop    == <<"stop", "store">>
SFlags   == <<"flags", "stop", "store">>
XDrop    == <<"drop">>
XStore   == <<"store", "drop">>
XRows    == <<"rows", "store", "drop">>
XFlags   == <<"flags", "rows", "store", "drop">>
XUncount == RemoveDocument
XRm      == <<"rows">> \o RemoveDocument

\* The statements of a run up to the insertion of its tasks.
Planned == {QInsert, QChunks, QPrune, QRows}
Wiping == {WStore, WRows, WEmpty}
Preparing ==
  Planned \cup Wiping \cup {QPlan, RMark, RUncount, WUncount, PRows, PStore, PEmpty}
Publishing == {QBegin, QPublish}
Stopping == {CCancel, CFlags, SStore, SStop, SFlags}
Removing == {XDrop, XStore, XRows, XFlags, XUncount, XRm}

ApiOK == api \in {<<>>} \cup Preparing \cup Publishing \cup Stopping \cup Removing

----------------------------------------------------------------------------
(* Executing a call.                                                       *)

LEMMA ConcatHeadTail ==
  ASSUME NEW s \in Seq(Statements), NEW t \in Seq(Statements), s # <<>>
  PROVE  /\ Head(s \o t) = Head(s)
         /\ Tail(s \o t) = Tail(s) \o t
         /\ Len(s \o t) = Len(s) + Len(t)
         /\ s \o t \in Seq(Statements)
OBVIOUS

\* QueueTasks and its tails.
LEMMA QueueTails ==
  /\ QPlan \in Seq(Statements)
  /\ Len(QPublish) = 1 /\ Head(QPublish) = "publish" /\ Tail(QPublish) = <<>>
  /\ Len(QBegin) = 2 /\ Head(QBegin) = "begin" /\ Tail(QBegin) = QPublish
  /\ Len(QInsert) = 3 /\ Head(QInsert) = "insert" /\ Tail(QInsert) = QBegin
  /\ Len(QChunks) = 4 /\ Head(QChunks) = "chunks" /\ Tail(QChunks) = QInsert
  /\ Len(QPrune) = 5 /\ Head(QPrune) = "prune" /\ Tail(QPrune) = QChunks
  /\ Len(QRows) = 6 /\ Head(QRows) = "rows" /\ Tail(QRows) = QPrune
  /\ Len(QPlan) = 7 /\ Head(QPlan) = "plan" /\ Tail(QPlan) = QRows
<1>1. QPlan \in Seq(Statements)
  BY DEF QPlan, QueueTasks, Statements
<1>2. /\ Len(QPublish) = 1 /\ Head(QPublish) = "publish" /\ Tail(QPublish) = <<>>
      /\ Len(QBegin) = 2 /\ Head(QBegin) = "begin" /\ Tail(QBegin) = QPublish
      /\ Len(QInsert) = 3 /\ Head(QInsert) = "insert" /\ Tail(QInsert) = QBegin
  BY DEF QPublish, QBegin, QInsert
<1>3. /\ Len(QChunks) = 4 /\ Head(QChunks) = "chunks" /\ Tail(QChunks) = QInsert
      /\ Len(QPrune) = 5 /\ Head(QPrune) = "prune" /\ Tail(QPrune) = QChunks
  BY DEF QInsert, QChunks, QPrune
<1>4. /\ Len(QRows) = 6 /\ Head(QRows) = "rows" /\ Tail(QRows) = QPrune
      /\ Len(QPlan) = 7 /\ Head(QPlan) = "plan" /\ Tail(QPlan) = QRows
  BY DEF QPrune, QRows, QPlan, QueueTasks
<1> QED BY <1>1, <1>2, <1>3, <1>4

\* A sequence of statements before QueueTasks.
LEMMA BeforePlan ==
  ASSUME NEW s \in Seq(Statements), s # <<>>
  PROVE  Len(s \o QPlan) = Len(s) + 7 /\ Head(s \o QPlan) = Head(s)
         /\ Tail(s \o QPlan) = Tail(s) \o QPlan
<1>1. QPlan \in Seq(Statements) /\ Len(QPlan) = 7
  BY QueueTails
<1>2. /\ Head(s \o QPlan) = Head(s)
      /\ Tail(s \o QPlan) = Tail(s) \o QPlan
      /\ Len(s \o QPlan) = Len(s) + Len(QPlan)
  BY <1>1, ConcatHeadTail
<1> QED BY <1>1, <1>2, Zenon

\* What precedes QueueTasks in run and parse.
LEMMA RunTails ==
  /\ Len(RMark) = 8 /\ Head(RMark) = "mark" /\ Tail(RMark) = QPlan
  /\ Len(RUncount) = 9 /\ Head(RUncount) = "uncount" /\ Tail(RUncount) = RMark
  /\ Len(WStore) = 8 /\ Head(WStore) = "store" /\ Tail(WStore) = QPlan
  /\ Len(WRows) = 9 /\ Head(WRows) = "rows" /\ Tail(WRows) = WStore
  /\ Len(WEmpty) = 10 /\ Head(WEmpty) = "mark-empty" /\ Tail(WEmpty) = WRows
  /\ Len(WUncount) = 11 /\ Head(WUncount) = "uncount" /\ Tail(WUncount) = WEmpty
  /\ Len(PRows) = 8 /\ Head(PRows) = "rows" /\ Tail(PRows) = QPlan
  /\ Len(PStore) = 9 /\ Head(PStore) = "store" /\ Tail(PStore) = PRows
  /\ Len(PEmpty) = 10 /\ Head(PEmpty) = "mark-empty" /\ Tail(PEmpty) = PStore
<1> DEFINE m == <<"mark">>
           e == <<"mark-empty", "rows", "store">>
           u == <<"uncount">>
<1>1. /\ m \in Seq(Statements) /\ m # <<>>
      /\ Len(m) = 1 /\ Head(m) = "mark" /\ Tail(m) = <<>>
      /\ e \in Seq(Statements) /\ e # <<>>
      /\ Len(e) = 3 /\ Head(e) = "mark-empty" /\ Tail(e) = <<"rows", "store">>
      /\ u \in Seq(Statements) /\ u # <<>>
      /\ Len(u) = 1 /\ Head(u) = "uncount" /\ Tail(u) = <<>>
  BY DEF Statements
<1>2. <<>> \o QPlan = QPlan /\ <<>> \o m = m /\ <<>> \o e = e
  BY <1>1, QueueTails, ConcatEmptySeq
<1>3. /\ <<"store">> \in Seq(Statements) /\ <<"store">> # <<>>
      /\ Len(<<"store">>) = 1 /\ Head(<<"store">>) = "store" /\ Tail(<<"store">>) = <<>>
      /\ <<"rows">> \in Seq(Statements) /\ <<"rows">> # <<>>
      /\ Len(<<"rows">>) = 1 /\ Head(<<"rows">>) = "rows" /\ Tail(<<"rows">>) = <<>>
      /\ <<"rows", "store">> \in Seq(Statements) /\ <<"rows", "store">> # <<>>
      /\ Len(<<"rows", "store">>) = 2 /\ Head(<<"rows", "store">>) = "rows"
      /\ Tail(<<"rows", "store">>) = <<"store">>
      /\ <<"store", "rows">> \in Seq(Statements) /\ <<"store", "rows">> # <<>>
      /\ Len(<<"store", "rows">>) = 2 /\ Head(<<"store", "rows">>) = "store"
      /\ Tail(<<"store", "rows">>) = <<"rows">>
  BY DEF Statements
<1>4. LET p == <<"mark-empty", "store", "rows">> IN
      /\ p \in Seq(Statements) /\ p # <<>>
      /\ Len(p) = 3 /\ Head(p) = "mark-empty" /\ Tail(p) = <<"store", "rows">>
  BY DEF Statements
<1> HIDE DEF m, e, u
<1>5. Len(RMark) = 1 + 7 /\ Head(RMark) = "mark" /\ Tail(RMark) = QPlan
  <2>1. RMark = m \o QPlan BY DEF RMark, m
  <2> QED BY <1>1, <1>2, <2>1, BeforePlan, Zenon
<1>6. Len(WStore) = 1 + 7 /\ Head(WStore) = "store" /\ Tail(WStore) = QPlan
  BY <1>2, <1>3, BeforePlan, Zenon DEF WStore
<1>7. Len(PRows) = 1 + 7 /\ Head(PRows) = "rows" /\ Tail(PRows) = QPlan
  BY <1>2, <1>3, BeforePlan, Zenon DEF PRows
<1>8. Len(WRows) = 2 + 7 /\ Head(WRows) = "rows" /\ Tail(WRows) = WStore
  BY <1>3, BeforePlan, Zenon DEF WRows, WStore
<1>9. Len(PStore) = 2 + 7 /\ Head(PStore) = "store" /\ Tail(PStore) = PRows
  BY <1>3, BeforePlan, Zenon DEF PStore, PRows
<1>10. Len(WEmpty) = 3 + 7 /\ Head(WEmpty) = "mark-empty" /\ Tail(WEmpty) = WRows
  <2>1. WEmpty = e \o QPlan BY DEF WEmpty, e
  <2> QED BY <1>1, <2>1, BeforePlan, Zenon DEF WRows
<1>11. Len(PEmpty) = 3 + 7 /\ Head(PEmpty) = "mark-empty" /\ Tail(PEmpty) = PStore
  BY <1>4, BeforePlan, Zenon DEF PEmpty, PStore
<1>12. ASSUME NEW t \in Seq(Statements), t # <<>>, <<>> \o t = t
       PROVE  /\ Len((u \o t) \o QPlan) = (1 + Len(t)) + 7
              /\ Head((u \o t) \o QPlan) = "uncount"
              /\ Tail((u \o t) \o QPlan) = t \o QPlan
  <2>1. /\ u \o t \in Seq(Statements) /\ Len(u \o t) = Len(u) + Len(t)
        /\ Head(u \o t) = Head(u) /\ Tail(u \o t) = Tail(u) \o t
    BY <1>1, <1>12, ConcatHeadTail
  <2>2. u \o t # <<>>
    BY <1>1, <1>12, <2>1
  <2> QED BY <1>1, <1>12, <2>1, <2>2, BeforePlan, Zenon
<1>13. Len(RUncount) = (1 + 1) + 7 /\ Head(RUncount) = "uncount" /\ Tail(RUncount) = RMark
  <2>1. RUncount = (u \o m) \o QPlan /\ RMark = m \o QPlan BY DEF RUncount, RMark, u, m
  <2> QED BY <1>1, <1>2, <1>12, <2>1, Zenon
<1>14. Len(WUncount) = (1 + 3) + 7 /\ Head(WUncount) = "uncount" /\ Tail(WUncount) = WEmpty
  <2>1. WUncount = (u \o e) \o QPlan /\ WEmpty = e \o QPlan BY DEF WUncount, WEmpty, u, e
  <2> QED BY <1>1, <1>2, <1>12, <2>1, Zenon
<1>15. /\ Len(RMark) = 8 /\ Len(WStore) = 8 /\ Len(PRows) = 8 /\ Len(WRows) = 9
       /\ Len(PStore) = 9 /\ Len(WEmpty) = 10 /\ Len(PEmpty) = 10
       /\ Len(RUncount) = 9 /\ Len(WUncount) = 11
  BY <1>5, <1>6, <1>7, <1>8, <1>9, <1>10, <1>11, <1>13, <1>14
<1> QED BY <1>5, <1>6, <1>7, <1>8, <1>9, <1>10, <1>11, <1>13, <1>14, <1>15, Zenon

\* The calls that stop or remove.
LEMMA StopTails ==
  /\ Len(CCancel) = 1 /\ Head(CCancel) = "cancel" /\ Tail(CCancel) = <<>>
  /\ Len(CFlags) = 2 /\ Head(CFlags) = "flags" /\ Tail(CFlags) = CCancel
  /\ Len(SStore) = 1 /\ Head(SStore) = "store" /\ Tail(SStore) = <<>>
  /\ Len(SStop) = 2 /\ Head(SStop) = "stop" /\ Tail(SStop) = SStore
  /\ Len(SFlags) = 3 /\ Head(SFlags) = "flags" /\ Tail(SFlags) = SStop
  /\ Len(XDrop) = 1 /\ Head(XDrop) = "drop" /\ Tail(XDrop) = <<>>
  /\ Len(XStore) = 2 /\ Head(XStore) = "store" /\ Tail(XStore) = XDrop
  /\ Len(XRows) = 3 /\ Head(XRows) = "rows" /\ Tail(XRows) = XStore
  /\ Len(XFlags) = 4 /\ Head(XFlags) = "flags" /\ Tail(XFlags) = XRows
  /\ Len(XUncount) = 5 /\ Head(XUncount) = "uncount" /\ Tail(XUncount) = XFlags
  /\ Len(XRm) = 6 /\ Head(XRm) = "rows" /\ Tail(XRm) = XUncount
<1>1. /\ Len(CCancel) = 1 /\ Head(CCancel) = "cancel" /\ Tail(CCancel) = <<>>
      /\ Len(CFlags) = 2 /\ Head(CFlags) = "flags" /\ Tail(CFlags) = CCancel
      /\ Len(SStore) = 1 /\ Head(SStore) = "store" /\ Tail(SStore) = <<>>
      /\ Len(SStop) = 2 /\ Head(SStop) = "stop" /\ Tail(SStop) = SStore
      /\ Len(SFlags) = 3 /\ Head(SFlags) = "flags" /\ Tail(SFlags) = SStop
  BY DEF CCancel, CFlags, SStore, SStop, SFlags
<1>2. /\ Len(XDrop) = 1 /\ Head(XDrop) = "drop" /\ Tail(XDrop) = <<>>
      /\ Len(XStore) = 2 /\ Head(XStore) = "store" /\ Tail(XStore) = XDrop
      /\ Len(XRows) = 3 /\ Head(XRows) = "rows" /\ Tail(XRows) = XStore
      /\ Len(XFlags) = 4 /\ Head(XFlags) = "flags" /\ Tail(XFlags) = XRows
      /\ Len(XUncount) = 5 /\ Head(XUncount) = "uncount" /\ Tail(XUncount) = XFlags
  BY DEF XDrop, XStore, XRows, XFlags, XUncount, RemoveDocument
<1>3. <<"rows">> \in Seq(Statements) /\ XUncount \in Seq(Statements)
  BY DEF XUncount, RemoveDocument, Statements
<1>4. <<>> \o XUncount = XUncount
  BY <1>3, ConcatEmptySeq
<1>5. /\ Len(<<"rows">>) = 1 /\ Head(<<"rows">>) = "rows" /\ Tail(<<"rows">>) = <<>>
      /\ <<"rows">> # <<>>
  OBVIOUS
<1>6. Len(XRm) = 1 + 5 /\ Head(XRm) = "rows" /\ Tail(XRm) = XUncount
  <2>1. XRm = <<"rows">> \o XUncount BY Zenon DEF XRm, XUncount
  <2>2. /\ Head(<<"rows">> \o XUncount) = Head(<<"rows">>)
        /\ Tail(<<"rows">> \o XUncount) = Tail(<<"rows">>) \o XUncount
        /\ Len(<<"rows">> \o XUncount) = Len(<<"rows">>) + Len(XUncount)
    BY <1>3, <1>5, ConcatHeadTail, Zenon
  <2>3. Len(XUncount) = 5 BY <1>2
  <2> QED BY <1>4, <1>5, <2>1, <2>2, <2>3, Zenon
<1>7. Len(XRm) = 6 BY <1>6
<1> QED BY <1>1, <1>2, <1>6, <1>7, Zenon

\* A number of its own for each of them.
Mark(h) ==
  IF h \in {"cancel", "flags", "uncount"} THEN 1
  ELSE IF h \in {"drop", "stop", "rows"} THEN 2
  ELSE IF h = "store" THEN 3 ELSE 0
Tag(x) ==
  4 * Len(x) + IF x \in {XRm, PEmpty} THEN Mark(Head(x)) + 1 ELSE Mark(Head(x))

\* The tag tells all of these apart, so that Phases and StatementTable need not
\* compare the sequences element by element.
LEMMA Tags ==
  /\ Tag(<<>>) < 4
  /\ Tag(QPublish) = 4 /\ Tag(CCancel) = 5 /\ Tag(XDrop) = 6 /\ Tag(SStore) = 7
  /\ Tag(QBegin) = 8 /\ Tag(CFlags) = 9 /\ Tag(SStop) = 10 /\ Tag(XStore) = 11
  /\ Tag(QInsert) = 12 /\ Tag(SFlags) = 13 /\ Tag(XRows) = 14
  /\ Tag(QChunks) = 16 /\ Tag(XFlags) = 17
  /\ Tag(QPrune) = 20 /\ Tag(XUncount) = 21
  /\ Tag(QRows) = 26 /\ Tag(XRm) = 27
  /\ Tag(QPlan) = 28
  /\ Tag(RMark) = 32 /\ Tag(PRows) = 34 /\ Tag(WStore) = 35
  /\ Tag(RUncount) = 37 /\ Tag(WRows) = 38 /\ Tag(PStore) = 39
  /\ Tag(WEmpty) = 40 /\ Tag(PEmpty) = 41
  /\ Tag(WUncount) = 45
<1>1. XRm # QRows
  BY QueueTails, StopTails, Zenon
<1>2. PEmpty # WEmpty
  BY RunTails
<1>3. Len(XRm) = 6 /\ Head(XRm) = "rows" /\ Len(PEmpty) = 10 /\ Head(PEmpty) = "mark-empty"
  BY StopTails, RunTails, Zenon
<1>4. Tag(<<>>) < 4
  <2>1. Len(<<>>) = 0
    OBVIOUS
  <2>2. <<>> \notin {XRm, PEmpty}
    BY <1>3, <2>1
  <2>3. Mark(Head(<<>>)) \in 0 .. 3
    BY DEF Mark
  <2> QED BY <2>1, <2>2, <2>3 DEF Tag
<1>5. ASSUME NEW x, NEW n, NEW h, Len(x) = n, Head(x) = h, x \notin {XRm, PEmpty}
      PROVE  Tag(x) = 4 * n + Mark(h)
  BY <1>5, Zenon DEF Tag
<1>6. ASSUME NEW x, NEW n, NEW h, Len(x) = n, Head(x) = h, n # 6, n # 10
      PROVE  Tag(x) = 4 * n + Mark(h)
  BY <1>3, <1>5, <1>6, Zenon
<1>7. /\ 1 # 6 /\ 1 # 10 /\ 2 # 6 /\ 2 # 10 /\ 3 # 6 /\ 3 # 10 /\ 4 # 6 /\ 4 # 10
      /\ 5 # 6 /\ 5 # 10 /\ 7 # 6 /\ 7 # 10 /\ 8 # 6 /\ 8 # 10 /\ 9 # 6 /\ 9 # 10
      /\ 11 # 6 /\ 11 # 10
  OBVIOUS
<1>8. /\ Tag(QPublish) = 4 * 1 + Mark("publish") /\ Tag(QBegin) = 4 * 2 + Mark("begin")
      /\ Tag(QInsert) = 4 * 3 + Mark("insert") /\ Tag(QChunks) = 4 * 4 + Mark("chunks")
      /\ Tag(QPrune) = 4 * 5 + Mark("prune") /\ Tag(QPlan) = 4 * 7 + Mark("plan")
  <2>1. Tag(QPublish) = 4 * 1 + Mark("publish")  BY <1>6, <1>7, QueueTails, Zenon
  <2>2. Tag(QBegin) = 4 * 2 + Mark("begin")  BY <1>6, <1>7, QueueTails, Zenon
  <2>3. Tag(QInsert) = 4 * 3 + Mark("insert")  BY <1>6, <1>7, QueueTails, Zenon
  <2>4. Tag(QChunks) = 4 * 4 + Mark("chunks")  BY <1>6, <1>7, QueueTails, Zenon
  <2>5. Tag(QPrune) = 4 * 5 + Mark("prune")  BY <1>6, <1>7, QueueTails, Zenon
  <2>6. Tag(QPlan) = 4 * 7 + Mark("plan")  BY <1>6, <1>7, QueueTails, Zenon
  <2> QED BY <2>1, <2>2, <2>3, <2>4, <2>5, <2>6, Zenon
<1>9. Tag(QRows) = 4 * 6 + Mark("rows") /\ Tag(WEmpty) = 4 * 10 + Mark("mark-empty")
  <2>1. Len(QRows) = 6 /\ Head(QRows) = "rows" /\ Len(WEmpty) = 10 /\ Head(WEmpty) = "mark-empty"
    BY QueueTails, RunTails, Zenon
  <2>2. QRows \notin {XRm, PEmpty} /\ WEmpty \notin {XRm, PEmpty}
    BY <1>1, <1>2, <1>3, <2>1
  <2> QED BY <1>5, <2>1, <2>2, Zenon
<1>10. /\ Tag(CCancel) = 4 * 1 + Mark("cancel") /\ Tag(XDrop) = 4 * 1 + Mark("drop")
       /\ Tag(SStore) = 4 * 1 + Mark("store") /\ Tag(CFlags) = 4 * 2 + Mark("flags")
       /\ Tag(SStop) = 4 * 2 + Mark("stop") /\ Tag(XStore) = 4 * 2 + Mark("store")
       /\ Tag(SFlags) = 4 * 3 + Mark("flags") /\ Tag(XRows) = 4 * 3 + Mark("rows")
       /\ Tag(XFlags) = 4 * 4 + Mark("flags") /\ Tag(XUncount) = 4 * 5 + Mark("uncount")
  <2>1. /\ Len(CCancel) = 1 /\ Head(CCancel) = "cancel" /\ Len(XDrop) = 1 /\ Head(XDrop) = "drop"
        /\ Len(SStore) = 1 /\ Head(SStore) = "store" /\ Len(CFlags) = 2 /\ Head(CFlags) = "flags"
        /\ Len(SStop) = 2 /\ Head(SStop) = "stop" /\ Len(XStore) = 2 /\ Head(XStore) = "store"
        /\ Len(SFlags) = 3 /\ Head(SFlags) = "flags" /\ Len(XRows) = 3 /\ Head(XRows) = "rows"
        /\ Len(XFlags) = 4 /\ Head(XFlags) = "flags" /\ Len(XUncount) = 5 /\ Head(XUncount) = "uncount"
    BY StopTails, Zenon
  <2>2. Tag(CCancel) = 4 * 1 + Mark("cancel")  BY <1>6, <1>7, <2>1, Zenon
  <2>3. Tag(XDrop) = 4 * 1 + Mark("drop")  BY <1>6, <1>7, <2>1, Zenon
  <2>4. Tag(SStore) = 4 * 1 + Mark("store")  BY <1>6, <1>7, <2>1, Zenon
  <2>5. Tag(CFlags) = 4 * 2 + Mark("flags")  BY <1>6, <1>7, <2>1, Zenon
  <2>6. Tag(SStop) = 4 * 2 + Mark("stop")  BY <1>6, <1>7, <2>1, Zenon
  <2>7. Tag(XStore) = 4 * 2 + Mark("store")  BY <1>6, <1>7, <2>1, Zenon
  <2>8. Tag(SFlags) = 4 * 3 + Mark("flags")  BY <1>6, <1>7, <2>1, Zenon
  <2>9. Tag(XRows) = 4 * 3 + Mark("rows")  BY <1>6, <1>7, <2>1, Zenon
  <2>10. Tag(XFlags) = 4 * 4 + Mark("flags")  BY <1>6, <1>7, <2>1, Zenon
  <2>11. Tag(XUncount) = 4 * 5 + Mark("uncount")  BY <1>6, <1>7, <2>1, Zenon
  <2> QED BY <2>2, <2>3, <2>4, <2>5, <2>6, <2>7, <2>8, <2>9, <2>10, <2>11, Zenon
<1>11. /\ Tag(RMark) = 4 * 8 + Mark("mark") /\ Tag(PRows) = 4 * 8 + Mark("rows")
       /\ Tag(WStore) = 4 * 8 + Mark("store") /\ Tag(RUncount) = 4 * 9 + Mark("uncount")
       /\ Tag(WRows) = 4 * 9 + Mark("rows") /\ Tag(PStore) = 4 * 9 + Mark("store")
       /\ Tag(WUncount) = 4 * 11 + Mark("uncount")
  <2>1. Tag(RMark) = 4 * 8 + Mark("mark")  BY <1>6, <1>7, RunTails, Zenon
  <2>2. Tag(PRows) = 4 * 8 + Mark("rows")  BY <1>6, <1>7, RunTails, Zenon
  <2>3. Tag(WStore) = 4 * 8 + Mark("store")  BY <1>6, <1>7, RunTails, Zenon
  <2>4. Tag(RUncount) = 4 * 9 + Mark("uncount")  BY <1>6, <1>7, RunTails, Zenon
  <2>5. Tag(WRows) = 4 * 9 + Mark("rows")  BY <1>6, <1>7, RunTails, Zenon
  <2>6. Tag(PStore) = 4 * 9 + Mark("store")  BY <1>6, <1>7, RunTails, Zenon
  <2>7. Tag(WUncount) = 4 * 11 + Mark("uncount")  BY <1>6, <1>7, RunTails, Zenon
  <2> QED BY <2>1, <2>2, <2>3, <2>4, <2>5, <2>6, <2>7, Zenon
<1>12. /\ Tag(XRm) = 4 * 6 + (Mark("rows") + 1)
       /\ Tag(PEmpty) = 4 * 10 + (Mark("mark-empty") + 1)
  BY <1>3 DEF Tag
<1> QED BY <1>4, <1>8, <1>9, <1>10, <1>11, <1>12 DEF Mark

\* A call is at one place at a time.
LEMMA Phases ==
  /\ <<>> \notin Preparing \cup Publishing \cup Stopping \cup Removing
  /\ Preparing \cap (Publishing \cup Stopping \cup Removing) = {}
  /\ Publishing \cap (Stopping \cup Removing) = {}
  /\ Stopping \cap Removing = {}
<1>1. \A x \in Preparing : Tag(x) \in {12, 16, 20, 26, 28, 32, 34, 35, 37, 38, 39, 40, 41, 45}
  BY Tags DEF Preparing, Planned, Wiping
<1>2. \A x \in Publishing : Tag(x) \in {4, 8}
  BY Tags DEF Publishing
<1>3. \A x \in Stopping : Tag(x) \in {5, 7, 9, 10, 13}
  BY Tags DEF Stopping
<1>4. \A x \in Removing : Tag(x) \in {6, 11, 14, 17, 21, 27}
  BY Tags DEF Removing
<1>5. Tag(<<>>) < 4
  BY Tags
<1> QED BY <1>1, <1>2, <1>3, <1>4, <1>5

\* The statement that is executed next, and what is left of the call then.
LEMMA StatementTable ==
  ASSUME NEW s, Statement(s)
  PROVE  /\ api = QPublish => s = "publish" /\ api' = <<>>
         /\ api = QBegin => s = "begin" /\ api' = QPublish
         /\ api = QInsert => s = "insert" /\ api' = QBegin
         /\ api = QChunks => s = "chunks" /\ api' = QInsert
         /\ api = QPrune => s = "prune" /\ api' = QChunks
         /\ api = QRows => s = "rows" /\ api' = QPrune
         /\ api = QPlan => s = "plan" /\ api' = QRows
         /\ api = RMark => s = "mark" /\ api' = QPlan
         /\ api = RUncount => s = "uncount" /\ api' = RMark
         /\ api = WStore => s = "store" /\ api' = QPlan
         /\ api = WRows => s = "rows" /\ api' = WStore
         /\ api = WEmpty => s = "mark-empty" /\ api' = WRows
         /\ api = WUncount => s = "uncount" /\ api' = WEmpty
         /\ api = PRows => s = "rows" /\ api' = QPlan
         /\ api = PStore => s = "store" /\ api' = PRows
         /\ api = PEmpty => s = "mark-empty" /\ api' = PStore
         /\ api = CCancel => s = "cancel" /\ api' = <<>>
         /\ api = CFlags => s = "flags" /\ api' = CCancel
         /\ api = SStore => s = "store" /\ api' = <<>>
         /\ api = SStop => s = "stop" /\ api' = SStore
         /\ api = SFlags => s = "flags" /\ api' = SStop
         /\ api = XDrop => s = "drop" /\ api' = <<>>
         /\ api = XStore => s = "store" /\ api' = XDrop
         /\ api = XRows => s = "rows" /\ api' = XStore
         /\ api = XFlags => s = "flags" /\ api' = XRows
         /\ api = XUncount => s = "uncount" /\ api' = XFlags
         /\ api = XRm => s = "rows" /\ api' = XUncount
<1>1. api # <<>> /\ Head(api) = s /\ api' = Tail(api)
  BY DEF Statement
<1>2. /\ api = QPublish => s = "publish" /\ api' = <<>>
      /\ api = QBegin => s = "begin" /\ api' = QPublish
      /\ api = QInsert => s = "insert" /\ api' = QBegin
      /\ api = QChunks => s = "chunks" /\ api' = QInsert
      /\ api = QPrune => s = "prune" /\ api' = QChunks
      /\ api = QRows => s = "rows" /\ api' = QPrune
      /\ api = QPlan => s = "plan" /\ api' = QRows
  <2>1. /\ api = QPublish => s = "publish" /\ api' = <<>>
        /\ api = QBegin => s = "begin" /\ api' = QPublish
        /\ api = QInsert => s = "insert" /\ api' = QBegin
        /\ api = QChunks => s = "chunks" /\ api' = QInsert
    BY <1>1, QueueTails, Zenon
  <2>2. /\ api = QPrune => s = "prune" /\ api' = QChunks
        /\ api = QRows => s = "rows" /\ api' = QPrune
        /\ api = QPlan => s = "plan" /\ api' = QRows
    BY <1>1, QueueTails, Zenon
  <2> QED BY <2>1, <2>2, Zenon
<1>3. /\ api = RMark => s = "mark" /\ api' = QPlan
      /\ api = RUncount => s = "uncount" /\ api' = RMark
      /\ api = WStore => s = "store" /\ api' = QPlan
      /\ api = WRows => s = "rows" /\ api' = WStore
      /\ api = WEmpty => s = "mark-empty" /\ api' = WRows
      /\ api = WUncount => s = "uncount" /\ api' = WEmpty
      /\ api = PRows => s = "rows" /\ api' = QPlan
      /\ api = PStore => s = "store" /\ api' = PRows
      /\ api = PEmpty => s = "mark-empty" /\ api' = PStore
  BY <1>1, RunTails, Zenon
<1>4. /\ api = CCancel => s = "cancel" /\ api' = <<>>
      /\ api = CFlags => s = "flags" /\ api' = CCancel
      /\ api = SStore => s = "store" /\ api' = <<>>
      /\ api = SStop => s = "stop" /\ api' = SStore
      /\ api = SFlags => s = "flags" /\ api' = SStop
      /\ api = XDrop => s = "drop" /\ api' = <<>>
      /\ api = XStore => s = "store" /\ api' = XDrop
      /\ api = XRows => s = "rows" /\ api' = XStore
      /\ api = XFlags => s = "flags" /\ api' = XRows
      /\ api = XUncount => s = "uncount" /\ api' = XFlags
      /\ api = XRm => s = "rows" /\ api' = XUncount
  <2>1. /\ api = CCancel => s = "cancel" /\ api' = <<>>
        /\ api = CFlags => s = "flags" /\ api' = CCancel
    BY <1>1, StopTails, Zenon
  <2>2. /\ api = SStore => s = "store" /\ api' = <<>>
        /\ api = SStop => s = "stop" /\ api' = SStore
        /\ api = SFlags => s = "flags" /\ api' = SStop
    BY <1>1, StopTails, Zenon
  <2>3. /\ api = XDrop => s = "drop" /\ api' = <<>>
        /\ api = XStore => s = "store" /\ api' = XDrop
        /\ api = XRows => s = "rows" /\ api' = XStore
    BY <1>1, StopTails, Zenon
  <2>4. /\ api = XFlags => s = "flags" /\ api' = XRows
        /\ api = XUncount => s = "uncount" /\ api' = XFlags
        /\ api = XRm => s = "rows" /\ api' = XUncount
    BY <1>1, StopTails, Zenon
  <2> QED BY <2>1, <2>2, <2>3, <2>4, Zenon
<1> QED BY <1>2, <1>3, <1>4, Zenon

\* Where a statement is executed.
LEMMA StatementCases ==
  ASSUME ApiOK
  PROVE  /\ Statement("uncount") => \/ api = RUncount /\ api' = RMark
                                    \/ api = WUncount /\ api' = WEmpty
                                    \/ api = XUncount /\ api' = XFlags
         /\ Statement("mark") => api = RMark /\ api' = QPlan
         /\ Statement("mark-empty") => \/ api = WEmpty /\ api' = WRows
                                       \/ api = PEmpty /\ api' = PStore
         /\ Statement("cancel") => api = CCancel /\ api' = <<>>
         /\ Statement("stop") => api = SStop /\ api' = SStore
         /\ Statement("flags") => \/ api = CFlags /\ api' = CCancel
                                  \/ api = SFlags /\ api' = SStop
                                  \/ api = XFlags /\ api' = XRows
         /\ Statement("rows") => \/ api = QRows /\ api' = QPrune
                                 \/ api = WRows /\ api' = WStore
                                 \/ api = PRows /\ api' = QPlan
                                 \/ api = XRows /\ api' = XStore
                                 \/ api = XRm /\ api' = XUncount
         /\ Statement("store") => \/ api = WStore /\ api' = QPlan
                                  \/ api = PStore /\ api' = PRows
                                  \/ api = SStore /\ api' = <<>>
                                  \/ api = XStore /\ api' = XDrop
         /\ Statement("drop") => api = XDrop /\ api' = <<>>
         /\ Statement("plan") => api = QPlan /\ api' = QRows
         /\ Statement("prune") => api = QPrune /\ api' = QChunks
         /\ Statement("chunks") => api = QChunks /\ api' = QInsert
         /\ Statement("insert") => api = QInsert /\ api' = QBegin
         /\ Statement("begin") => api = QBegin /\ api' = QPublish
         /\ Statement("publish") => api = QPublish /\ api' = <<>>
<1> QED BY StatementTable
        DEF ApiOK, Preparing, Planned, Wiping, Publishing, Stopping, Removing, Statement

\* What no statement changes.
LEMMA StatementFrame ==
  ASSUME NEW s, Statement(s)
  PROVE  /\ requests' = requests /\ tries' = tries
         /\ todo' = todo /\ leased' = leased /\ done' = done
         /\ stage' = stage /\ snap' = snap
         /\ crashes' = crashes /\ errors' = errors
BY DEF Statement, queueVars, procVars

\* The phase of a call: it never goes back to preparing a run.
LEMMA StatementPhases ==
  ASSUME ApiOK, NEW s, Statement(s)
  PROVE  /\ api' \in Preparing => api \in Preparing /\ s # "insert"
         /\ api \in Preparing /\ s # "insert" => api' \in Preparing
         /\ api' \in Publishing => api \in Publishing \/ s = "insert"
         /\ api' \in Stopping => api \in Stopping
         /\ api' \in Removing => api \in Removing
<1>1. /\ QRows \in Preparing /\ QPrune \in Preparing /\ QChunks \in Preparing
      /\ QInsert \in Preparing /\ QPlan \in Preparing /\ RMark \in Preparing
      /\ WStore \in Preparing /\ WRows \in Preparing /\ WEmpty \in Preparing
      /\ PRows \in Preparing /\ PStore \in Preparing
      /\ QBegin \in Publishing /\ QPublish \in Publishing
      /\ SStore \in Stopping /\ SStop \in Stopping /\ CCancel \in Stopping
      /\ XDrop \in Removing /\ XStore \in Removing /\ XRows \in Removing
      /\ XFlags \in Removing /\ XUncount \in Removing
  BY DEF Preparing, Planned, Wiping, Publishing, Stopping, Removing
<1>2. CASE api \in Preparing
  <2>1. \/ api' \in Preparing /\ s # "insert"
        \/ api' \in Publishing /\ s = "insert"
    BY <1>1, <1>2, StatementTable DEF Preparing, Planned, Wiping
  <2> QED BY <1>2, <2>1, Phases
<1>3. CASE api \in Publishing
  <2>1. api' \in Publishing \cup {<<>>}
    BY <1>1, <1>3, StatementTable DEF Publishing
  <2> QED BY <1>3, <2>1, Phases
<1>4. CASE api \in Stopping
  <2>1. api' \in Stopping \cup {<<>>}
    BY <1>1, <1>4, StatementTable DEF Stopping
  <2> QED BY <1>4, <2>1, Phases
<1>5. CASE api \in Removing
  <2>1. api' \in Removing \cup {<<>>}
    BY <1>1, <1>5, StatementTable DEF Removing
  <2> QED BY <1>5, <2>1, Phases
<1>6. api # <<>>
  BY DEF Statement
<1> QED BY <1>2, <1>3, <1>4, <1>5, <1>6 DEF ApiOK

\* The call a user makes.
LEMMA CallCases ==
  ASSUME UserRequest
  PROVE  /\ api = <<>> /\ run # "gone"
         /\ UNCHANGED <<run, docProg, docChunks, kbChunks, rows, prog, ids, tries, flag,
                        store, todo, leased, done, stage, snap, reused, pruned, unsent,
                        runs, crashes, errors>>
         /\ \/ /\ runs < MaxRuns
               /\ \/ api' = RMark /\ (run # "DONE" \/ "run-keep" \in Requests)
                  \/ api' = RUncount /\ run = "DONE" /\ "run" \in Requests
                  \/ api' \in {WEmpty, WUncount}
                  \/ api' = PEmpty /\ docProg # Some
            \/ api' = CFlags /\ (run \in {"RUNNING", "CANCEL"} \/ \E j \in rows : prog[j] # Full)
            \/ api' = SFlags /\ docProg \notin {Zero, Full}
            \/ api' = XUncount
            \/ api' = XRm /\ "rm" \in Requests
<1>1. /\ api = <<>> /\ run # "gone"
      /\ UNCHANGED <<run, docProg, docChunks, kbChunks, rows, prog, ids, tries, flag,
                     store, todo, leased, done, stage, snap, reused, pruned, unsent,
                     runs, crashes, errors>>
  BY DEF UserRequest, Run, CancelRun, SdkParse, SdkStop, SdkDelete, Rm, Call, docVars,
         taskVars, queueVars, procVars, planVars
<1>2. ASSUME NEW r \in RunCalls, Run(r)
      PROVE  /\ runs < MaxRuns
             /\ \/ api' = RMark /\ (run # "DONE" \/ "run-keep" \in Requests)
                \/ api' = RUncount /\ run = "DONE" /\ "run" \in Requests
                \/ api' \in {WEmpty, WUncount}
  <2> DEFINE u == IF r # "run-keep" /\ run = "DONE" THEN <<"uncount">> ELSE <<>>
             m == IF r = "run-delete" THEN <<"mark-empty", "rows", "store">> ELSE <<"mark">>
  <2>1. runs < MaxRuns /\ r \in Requests /\ api' = (u \o m) \o QPlan
    BY <1>2 DEF Run, Call, StartsRun, QPlan
  <2>2. <<>> \o <<"mark">> = <<"mark">>
        /\ <<>> \o <<"mark-empty", "rows", "store">> = <<"mark-empty", "rows", "store">>
    <3>1. <<"mark">> \in Seq(Statements) /\ <<"mark-empty", "rows", "store">> \in Seq(Statements)
      BY DEF Statements
    <3> QED BY <3>1, ConcatEmptySeq
  <2>3. CASE r = "run-delete"
    <3>1. m = <<"mark-empty", "rows", "store">>
      BY <2>3
    <3>2. u = <<"uncount">> \/ u = <<>>
      OBVIOUS
    <3>3. api' \in {WEmpty, WUncount}
      <4> HIDE DEF u, m
      <4> QED BY <2>1, <2>2, <3>1, <3>2, Zenon DEF WEmpty, WUncount
    <3> QED BY <2>1, <3>3
  <2>4. CASE r # "run-delete"
    <3>1. m = <<"mark">>
      BY <2>4
    <3>2. \/ u = <<"uncount">> /\ r = "run" /\ run = "DONE"
          \/ u = <<>> /\ (run # "DONE" \/ r = "run-keep")
      BY <2>4 DEF RunCalls
    <3>3. CASE u = <<"uncount">> /\ r = "run" /\ run = "DONE"
      <4> HIDE DEF u, m
      <4> QED BY <2>1, <3>1, <3>3, Zenon DEF RUncount
    <3>4. CASE u = <<>> /\ (run # "DONE" \/ r = "run-keep")
      <4> HIDE DEF u, m
      <4> QED BY <2>1, <2>2, <3>1, <3>4, Zenon DEF RMark
    <3> QED BY <3>2, <3>3, <3>4
  <2> QED BY <2>3, <2>4
<1>3. CancelRun => api' = CFlags /\ (run \in {"RUNNING", "CANCEL"} \/ \E j \in rows : prog[j] # Full)
  BY Zenon DEF CancelRun, Call, CFlags
<1>4. SdkParse => runs < MaxRuns /\ api' = PEmpty /\ docProg # Some
  BY Zenon DEF SdkParse, StartsRun, Call, PEmpty, QPlan
<1>5. SdkStop => api' = SFlags /\ docProg \notin {Zero, Full}
  BY Zenon DEF SdkStop, Call, SFlags
<1>6. SdkDelete => api' = XUncount
  BY Zenon DEF SdkDelete, Call, XUncount
<1>7. Rm => api' = XRm /\ "rm" \in Requests
  BY Zenon DEF Rm, Call, XRm, XUncount
<1> HIDE DEF Some, Zero, Full
<1> QED BY <1>1, <1>2, <1>3, <1>4, <1>5, <1>6, <1>7, Zenon DEF UserRequest

\* Handlers, summaries and the server's thread leave the call alone.
LEMMA ProcessFrame ==
  ASSUME \/ \E j \in Job : Handle(j) \/ Error(j) \/ Crash(j)
         \/ ServerChooses \/ Sync(Server)
  PROVE  UNCHANGED <<api, requests, reused, pruned, unsent, runs>>
BY DEF Handle, Sync, Collect, Refuse, Check, Build, InsertChunks, RecordIds, CountChunks,
       CountKbChunks, Finish, Cleanup, AckTask, Error, Crash, ServerChooses, ReadTasks,
       ReadDocument, WriteDocument, apiVars, planVars

\* A call is always at one of these points.
LEMMA NextApiOK ==
  ASSUME ApiOK, [Next]_vars
  PROVE  ApiOK'
<1>1. CASE UserRequest
  BY <1>1, CallCases DEF ApiOK, Preparing, Wiping, Stopping, Removing
<1>2. CASE ApiStatement
  <2>1. ASSUME NEW s \in Statements, Statement(s) PROVE ApiOK'
    BY <2>1, StatementCases
       DEF ApiOK, Preparing, Planned, Wiping, Publishing, Stopping, Removing, Statements
  <2>2. CASE PublishTask
    BY <2>2 DEF PublishTask, ApiOK
  <2> QED BY <1>2, <2>1, <2>2
          DEF ApiStatement, UncountDocument, MarkRunning, MarkCanceled, SetFlags, DeleteRows,
              DeleteChunks, DropDocument, PlanTasks, PruneChunks, SetChunkNum, InsertTasks,
              BeginParse, PublishDone, Statements
<1>3. CASE (\E j \in Job : Handle(j) \/ Error(j) \/ Crash(j)) \/ ServerChooses \/ Sync(Server)
  BY <1>3, ProcessFrame DEF ApiOK
<1>4. CASE UNCHANGED vars
  BY <1>4 DEF vars, apiVars, ApiOK
<1> QED BY <1>1, <1>2, <1>3, <1>4 DEF Next

----------------------------------------------------------------------------
(* Types.                                                                  *)

\* MaxRuns bounds the runs that are inserted.
RunsBound == runs \in 0 .. MaxRuns /\ (api \in Preparing => runs < MaxRuns)

\* What a summary that is not written yet says of document.run.
SnapOK ==
  \A s \in Job \cup {Server} :
    /\ stage[s] = "read-doc" => snap[s].run \in {"FAIL", "DONE", "unread"}
    /\ stage[s] = "write-log" => snap[s].run \in DocRuns

TypeInv == TypeOK /\ ApiOK /\ RunsBound /\ SnapOK

\* The task of a part in the run that is inserted next is a task; the server's
\* thread is none.
LEMMA JobPart ==
  /\ \A j \in Job : Part(j) \in Parts
  /\ Server \notin Job
  /\ RunsBound /\ runs < MaxRuns => \A p \in Parts : <<runs + 1, p>> \in Job
BY IngestAssumption DEF Job, Part, Server, RunsBound

\* A statement of a call keeps the types.
LEMMA ApiTypeOK ==
  ASSUME TypeInv, ApiStatement
  PROVE  TypeOK'
<1>0. TypeOK /\ ApiOK /\ RunsBound
  BY DEF TypeInv
<1>1. CASE UncountDocument
  BY <1>0, <1>1, StatementFrame DEF UncountDocument, TypeOK, planVars
<1>2. CASE MarkRunning
  BY <1>0, <1>2, StatementFrame DEF MarkRunning, TypeOK, planVars, DocRuns, Progress
<1>3. CASE MarkCanceled
  BY <1>0, <1>3, StatementFrame DEF MarkCanceled, TypeOK, planVars, DocRuns, Progress
<1>4. CASE SetFlags
  BY <1>0, <1>4, StatementFrame DEF SetFlags, TypeOK, docVars, planVars
<1>5. CASE DeleteRows
  BY <1>0, <1>5, StatementFrame DEF DeleteRows, TypeOK, docVars, planVars
<1>6. CASE DeleteChunks
  BY <1>0, <1>6, StatementFrame DEF DeleteChunks, TypeOK, docVars, planVars
<1>7. CASE DropDocument
  BY <1>0, <1>7, StatementFrame DEF DropDocument, TypeOK, planVars
<1>8. CASE PlanTasks
  <2>1. reused' \in SUBSET Parts /\ pruned' \in SUBSET Parts
    BY <1>0, <1>8, JobPart DEF PlanTasks, TypeOK, Reusable
  <2> QED BY <1>0, <1>8, <2>1, StatementFrame DEF PlanTasks, TypeOK, docVars
<1>9. CASE PruneChunks
  BY <1>0, <1>9, StatementFrame DEF PruneChunks, TypeOK, docVars
<1>10. CASE SetChunkNum
  <2>1. docChunks' \in Int
    <3>1. IsFiniteSet(reused)
      BY <1>0, IngestAssumption, FS_Subset DEF TypeOK
    <3> QED BY <1>10, <3>1, FS_CardinalityType DEF SetChunkNum
  <2> QED BY <1>0, <1>10, <2>1, StatementFrame DEF SetChunkNum, TypeOK, planVars
<1>11. CASE InsertTasks
  <2>1. api \in Preparing
    BY <1>0, <1>11, StatementCases DEF InsertTasks, Preparing, Planned
  <2>2. \A p \in Parts : <<runs + 1, p>> \in Job
    BY <1>0, <2>1, JobPart DEF RunsBound
  <2> DEFINE new == {<<runs + 1, p>> : p \in Parts}
  <2>3. new \subseteq Job
    BY <2>2
  <2>4. rows' \in SUBSET Job /\ unsent' \in SUBSET Job /\ reused' \in SUBSET Parts
    BY <1>0, <1>11, <2>3 DEF InsertTasks, TypeOK
  <2>5. prog' \in [Job -> Progress] /\ ids' \in [Job -> SUBSET Parts]
    BY <1>0, <1>11, JobPart DEF InsertTasks, TypeOK, Progress
  <2> QED BY <1>0, <1>11, <2>4, <2>5, StatementFrame DEF InsertTasks, TypeOK, docVars
<1>12. CASE BeginParse
  BY <1>0, <1>12, StatementFrame DEF BeginParse, TypeOK, planVars, DocRuns, Progress
<1>13. CASE PublishTask
  BY <1>0, <1>13 DEF PublishTask, Queue!Submit, TypeOK, docVars, taskVars, procVars
<1>14. CASE PublishDone
  BY <1>0, <1>14, StatementFrame DEF PublishDone, TypeOK, docVars, planVars
<1> QED BY <1>1, <1>2, <1>3, <1>4, <1>5, <1>6, <1>7, <1>8, <1>9, <1>10, <1>11, <1>12,
           <1>13, <1>14 DEF ApiStatement

\* What a handler's action changes.
LEMMA UpdateProgressType ==
  ASSUME TypeOK, NEW j \in Job, NEW p \in Progress, UpdateProgress(j, p)
  PROVE  prog' \in [Job -> Progress]
BY DEF UpdateProgress, TypeOK

\* Each statement of _sync_progress keeps the types: what is written was read
\* and is no "unread".
LEMMA SyncTypeOK ==
  ASSUME TypeOK, SnapOK, NEW s \in Job \cup {Server}, Sync(s)
  PROVE  TypeOK'
<1> USE DEF Stages, SyncStages, SetStage, SyncEnds, Idle
<1>1. CASE ReadTasks(s)
  <2>1. Summary \in [run : DocRuns \cup {"none", "unread"}, prog : Progress]
    BY DEF Summary, DocRuns, Progress
  <2> QED BY <1>1, <2>1 DEF ReadTasks, TypeOK, docVars, taskVars, queueVars, apiVars, planVars
<1>2. CASE ReadDocument(s)
  <2>1. snap' \in [Job \cup {Server} ->
                     [run : DocRuns \cup {"none", "unread"}, prog : Progress]]
    <3>1. CASE run \in {"gone", "CANCEL"}
      BY <1>2, <3>1 DEF ReadDocument, TypeOK, NoSnap, Progress
    <3>2. CASE run \notin {"gone", "CANCEL"}
      <4> DEFINE r == IF snap[s].run = "unread" THEN run ELSE snap[s].run
      <4>1. snap' = [snap EXCEPT ![s] = [snap[s] EXCEPT !.run = r]]
        BY <1>2, <3>2 DEF ReadDocument
      <4>2. r \in DocRuns \cup {"none", "unread"}
        BY <3>2 DEF TypeOK
      <4>3. [snap[s] EXCEPT !.run = r] \in [run : DocRuns \cup {"none", "unread"}, prog : Progress]
        <5> HIDE DEF r
        <5> QED BY <4>2 DEF TypeOK
      <4> HIDE DEF r
      <4> QED BY <4>1, <4>3 DEF TypeOK
    <3> QED BY <3>1, <3>2
  <2>2. stage' \in [Job \cup {Server} -> Stages]
    BY <1>2 DEF ReadDocument, TypeOK
  <2> QED BY <1>2, <2>1, <2>2 DEF ReadDocument, TypeOK, docVars, taskVars, queueVars,
                                  apiVars, planVars
<1>3. CASE WriteDocument(s)
  <2>1. run' \in DocRuns \cup {"gone"} /\ docProg' \in Progress
    BY <1>3 DEF WriteDocument, Write, TypeOK, SnapOK
  <2> QED BY <1>3, <2>1 DEF WriteDocument, TypeOK, taskVars, queueVars, apiVars, planVars,
                            NoSnap, Progress
<1> QED BY <1>1, <1>2, <1>3 DEF Sync

\* Handlers keep the types, when they fail or die too.
LEMMA HandlerTypeOK ==
  ASSUME TypeOK, SnapOK, NEW j \in Job, Handle(j) \/ Error(j) \/ Crash(j)
  PROVE  TypeOK'
<1> USE DEF Stages, SyncStages, Checks, NextStage, SetStage, Idle
<1>1. CASE Collect(j)
  BY <1>1 DEF Collect, CountAttempt, Queue!Lease, TypeOK, Progress, docVars, apiVars, planVars
<1>2. CASE Refuse(j)
  BY <1>2 DEF Refuse, Queue!Complete, TypeOK, docVars, taskVars, apiVars, planVars
<1>3. CASE Check(j)
  BY <1>3, UpdateProgressType DEF Check, TypeOK, docVars, queueVars, apiVars, planVars, Progress
<1>4. CASE Build(j)
  BY <1>4, UpdateProgressType DEF Build, TypeOK, docVars, queueVars, apiVars, planVars, Progress
<1>5. CASE InsertChunks(j)
  BY <1>5, JobPart DEF InsertChunks, TypeOK, docVars, taskVars, queueVars, apiVars, planVars
<1>6. CASE RecordIds(j)
  BY <1>6, JobPart DEF RecordIds, TypeOK, docVars, queueVars, apiVars, planVars
<1>7. CASE CountChunks(j)
  BY <1>7 DEF CountChunks, TypeOK, taskVars, queueVars, apiVars, planVars
<1>8. CASE CountKbChunks(j)
  BY <1>8 DEF CountKbChunks, TypeOK, taskVars, queueVars, apiVars, planVars
<1>9. CASE Finish(j)
  BY <1>9, UpdateProgressType DEF Finish, TypeOK, docVars, queueVars, apiVars, planVars, Progress
<1>10. CASE Cleanup(j)
  BY <1>10 DEF Cleanup, TypeOK, docVars, taskVars, queueVars, apiVars, planVars
<1>11. CASE Error(j)
  BY <1>11, UpdateProgressType DEF Error, TypeOK, docVars, queueVars, apiVars, planVars, Progress
<1>12. CASE Crash(j)
  BY <1>12 DEF Crash, Queue!Return, TypeOK, docVars, taskVars, apiVars, planVars, NoSnap, Progress
<1>13. CASE AckTask(j)
  BY <1>13 DEF AckTask, Queue!Complete, TypeOK, docVars, taskVars, apiVars, planVars
<1>14. CASE Sync(j)
  BY <1>14, SyncTypeOK
<1> QED BY <1>1, <1>2, <1>3, <1>4, <1>5, <1>6, <1>7, <1>8, <1>9, <1>10, <1>11, <1>12,
           <1>13, <1>14 DEF Handle

\* Every step keeps the types.
LEMMA NextTypeOK ==
  ASSUME TypeInv, [Next]_vars
  PROVE  TypeOK'
<1>1. TypeOK /\ SnapOK
  BY DEF TypeInv
<1>2. CASE UserRequest
  BY <1>1, <1>2, CallCases DEF TypeOK
<1>3. CASE ApiStatement
  BY <1>3, ApiTypeOK
<1>4. ASSUME NEW j \in Job, Handle(j) \/ Error(j) \/ Crash(j)
      PROVE  TypeOK'
  BY <1>1, <1>4, HandlerTypeOK
<1>5. CASE ServerChooses
  BY <1>1, <1>5 DEF ServerChooses, SetStage, TypeOK, Stages, SyncStages, docVars, taskVars,
                    queueVars, apiVars, planVars
<1>6. CASE Sync(Server)
  BY <1>1, <1>6, SyncTypeOK
<1>7. CASE UNCHANGED vars
  BY <1>1, <1>7 DEF TypeOK, vars, docVars, taskVars, queueVars, procVars, apiVars, planVars
<1> QED BY <1>2, <1>3, <1>4, <1>5, <1>6, <1>7 DEF Next

\* A call that is about to insert a run has room for it.
LEMMA NextRunsBound ==
  ASSUME TypeInv, [Next]_vars
  PROVE  RunsBound'
<1>1. ApiOK /\ RunsBound
  BY DEF TypeInv
<1>2. CASE UserRequest
  <2>1. CASE runs < MaxRuns
    BY <1>1, <1>2, <2>1, CallCases DEF RunsBound
  <2>2. CASE ~(runs < MaxRuns)
    <3>1. api' \in Stopping \cup Removing
      BY <1>2, <2>2, CallCases DEF Stopping, Removing
    <3> QED BY <1>1, <1>2, <3>1, CallCases, Phases DEF RunsBound
  <2> QED BY <2>1, <2>2
<1>3. CASE ApiStatement
  <2>1. ASSUME NEW s \in Statements, Statement(s), runs' = runs
        PROVE  RunsBound'
    BY <1>1, <2>1, StatementPhases DEF RunsBound
  <2>2. CASE InsertTasks
    <3>1. api = QInsert /\ api' = QBegin /\ runs' = runs + 1
      BY <1>1, <2>2, StatementCases DEF InsertTasks
    <3>2. QInsert \in Preparing /\ QBegin \notin Preparing
      BY Phases DEF Preparing, Planned, Publishing
    <3> QED BY <1>1, <3>1, <3>2, IngestAssumption DEF RunsBound
  <2>3. CASE PublishTask
    BY <1>1, <2>3 DEF PublishTask, RunsBound
  <2> QED BY <1>3, <2>1, <2>2, <2>3
          DEF ApiStatement, UncountDocument, MarkRunning, MarkCanceled, SetFlags, DeleteRows,
              DeleteChunks, DropDocument, PlanTasks, PruneChunks, SetChunkNum,
              BeginParse, PublishDone, Statements, planVars
<1>4. CASE (\E j \in Job : Handle(j) \/ Error(j) \/ Crash(j)) \/ ServerChooses \/ Sync(Server)
  BY <1>1, <1>4, ProcessFrame DEF RunsBound
<1>5. CASE UNCHANGED vars
  BY <1>1, <1>5 DEF vars, apiVars, planVars, RunsBound
<1> QED BY <1>2, <1>3, <1>4, <1>5 DEF Next

\* A summary that is about to be written has a state to write.
LEMMA NextSnapOK ==
  ASSUME TypeInv, [Next]_vars
  PROVE  SnapOK'
<1>1. TypeOK /\ SnapOK
  BY DEF TypeInv
<1> USE DEF SetStage, Idle
<1>2. ASSUME NEW s \in Job \cup {Server}, Sync(s)
      PROVE  SnapOK'
  <2>1. CASE ReadTasks(s)
    <3>1. Summary.run \in {"FAIL", "DONE", "unread"}
      BY DEF Summary
    <3> QED BY <1>1, <2>1, <3>1 DEF ReadTasks, SyncEnds, SnapOK, TypeOK
  <2>2. CASE ReadDocument(s)
    BY <1>1, <2>2 DEF ReadDocument, SyncEnds, SnapOK, TypeOK, DocRuns
  <2>3. CASE WriteDocument(s)
    BY <1>1, <2>3 DEF WriteDocument, SyncEnds, SnapOK, TypeOK
  <2> QED BY <1>2, <2>1, <2>2, <2>3 DEF Sync
<1>3. ASSUME NEW j \in Job, Handle(j) \/ Error(j) \/ Crash(j)
      PROVE  SnapOK'
  <2>1. CASE Collect(j) \/ Refuse(j) \/ InsertChunks(j) \/ RecordIds(j) \/ CountChunks(j)
             \/ CountKbChunks(j) \/ Finish(j) \/ Cleanup(j) \/ AckTask(j)
    BY <1>1, <2>1 DEF Collect, Refuse, InsertChunks, RecordIds, CountChunks, CountKbChunks,
                      Finish, Cleanup, AckTask, SnapOK, TypeOK
  <2>2. CASE Check(j)
    BY <1>1, <2>2 DEF Check, Checks, NextStage, SnapOK, TypeOK
  <2>3. CASE Build(j) \/ Error(j)
    BY <1>1, <2>3 DEF Build, Error, SnapOK, TypeOK
  <2>4. CASE Crash(j)
    BY <1>1, <2>4 DEF Crash, SnapOK, TypeOK
  <2> QED BY <1>2, <1>3, <2>1, <2>2, <2>3, <2>4 DEF Handle
<1>4. CASE ServerChooses
  BY <1>1, <1>4 DEF ServerChooses, SnapOK, TypeOK
<1>5. CASE UserRequest
  BY <1>1, <1>5, CallCases DEF SnapOK
<1>6. CASE ApiStatement
  <2>1. stage' = stage /\ snap' = snap
    BY <1>6, StatementFrame
       DEF ApiStatement, UncountDocument, MarkRunning, MarkCanceled, SetFlags, DeleteRows,
           DeleteChunks, DropDocument, PlanTasks, PruneChunks, SetChunkNum, InsertTasks,
           BeginParse, PublishDone, PublishTask, procVars
  <2> QED BY <1>1, <2>1 DEF SnapOK
<1>7. CASE UNCHANGED vars
  BY <1>1, <1>7 DEF vars, procVars, SnapOK
<1> QED BY <1>2, <1>3, <1>4, <1>5, <1>6, <1>7 DEF Next

\* The types hold initially, and between calls nothing is left of one.
LEMMA InitTypeInv == Init => TypeInv
<1> SUFFICES ASSUME Init PROVE TypeInv
  OBVIOUS
<1>1. TypeOK
  BY DEF Init, Queue!Init, TypeOK, Progress, DocRuns, Stages, Idle, NoSnap
<1>2. ApiOK /\ RunsBound
  BY IngestAssumption, Phases DEF Init, ApiOK, RunsBound
<1>3. SnapOK
  BY DEF Init, SnapOK, Idle
<1> QED BY <1>1, <1>2, <1>3 DEF TypeInv

\* TypeInv is inductive.
LEMMA NextTypeInv == TypeInv /\ [Next]_vars => TypeInv'
BY NextTypeOK, NextApiOK, NextRunsBound, NextSnapOK DEF TypeInv

\* Every variable keeps its type, however many parts, runs, calls, crashes and
\* errors there are.
THEOREM DocTypeOK == Spec => []TypeOK
<1>1. TypeInv => TypeOK
  BY DEF TypeInv
<1> QED BY InitTypeInv, NextTypeInv, <1>1, PTL DEF Spec

----------------------------------------------------------------------------
(* A canceled document.                                                    *)

\* A summary is not written into it.
LEMMA SyncKeepsCancel ==
  ASSUME NEW s, Sync(s), run = "CANCEL"
  PROVE  UNCHANGED <<run, docProg>>
BY DEF Sync, ReadTasks, ReadDocument, WriteDocument, Write, docVars

\* No step but a statement of a call changes a canceled document.
LEMMA NextKeepsCancel ==
  ASSUME ApiOK, [Next]_vars, run = "CANCEL", api' = api
  PROVE  run' = "CANCEL" /\ docProg' = docProg
<1>1. CASE UserRequest
  BY <1>1, CallCases
<1>2. CASE ApiStatement
  <2>1. ASSUME NEW s, Statement(s)
        PROVE  FALSE
    BY <2>1, StatementTable, Tags
       DEF ApiOK, Preparing, Planned, Wiping, Publishing, Stopping, Removing, Statement
  <2>2. CASE PublishTask
    BY <2>2 DEF PublishTask, docVars
  <2> QED BY <1>2, <2>1, <2>2
          DEF ApiStatement, UncountDocument, MarkRunning, MarkCanceled, SetFlags, DeleteRows,
              DeleteChunks, DropDocument, PlanTasks, PruneChunks, SetChunkNum, InsertTasks,
              BeginParse, PublishDone
<1>3. CASE (\E j \in Job : Handle(j) \/ Error(j) \/ Crash(j)) \/ ServerChooses \/ Sync(Server)
  BY <1>3, SyncKeepsCancel
     DEF Handle, Collect, Refuse, Check, Build, InsertChunks, RecordIds, CountChunks,
         CountKbChunks, Finish, Cleanup, AckTask, Error, Crash, ServerChooses, docVars
<1>4. CASE UNCHANGED vars
  BY <1>4 DEF vars, docVars
<1> QED BY <1>1, <1>2, <1>3, <1>4 DEF Next

\* A canceled document stays CANCEL, at progress 0, until the user's next
\* call, whatever handlers and summaries are still under way, and however
\* many parts, runs, crashes and errors there are.
THEOREM DocCancelIsFinal == Spec => CancelIsFinal
<1>1. TypeInv /\ [Next]_vars
        => [run = "CANCEL" /\ api' = api => run' = "CANCEL" /\ docProg' = docProg]_vars
  BY NextKeepsCancel DEF TypeInv
<1> QED BY InitTypeInv, NextTypeInv, <1>1, PTL DEF Spec, CancelIsFinal

----------------------------------------------------------------------------
(* Bookkeeping.                                                            *)

\* A handler is at work on exactly the jobs it has leased.
StagesOK ==
  /\ \A j \in Job : stage[j] # Idle <=> j \in leased
  /\ stage[Server] \in SyncStages \cup {Idle}

\* A job is in one place: not published, waiting, leased or completed.
QueueOK ==
  /\ todo \cap leased = {} /\ todo \cap done = {} /\ leased \cap done = {}
  /\ unsent \cap (todo \cup leased \cup done) = {}

\* Nothing is known of a run before it is inserted.
RunsOK ==
  /\ \A j \in todo \cup leased \cup done \cup flag : j[1] <= runs
  /\ \A j \in Job : j[1] > runs => prog[j] = Zero /\ ids[j] = {} /\ tries[j] = 0
  /\ runs = 0 => run # "DONE" /\ docProg = Zero /\ stage[Server] = Idle
  /\ api \in Publishing => runs # 0
  /\ unsent \subseteq rows
  /\ unsent # {} => api \in Publishing

\* Calls that have deleted the task rows.
WithoutRows == {WStore, QPrune, QChunks, QInsert, XStore, XDrop}

\* The task rows are those of the last run, or none.
RowsOK ==
  /\ rows = {} \/ (rows = {<<runs, p>> : p \in Parts} /\ runs # 0)
  /\ api \in WithoutRows \/ run = "gone" => rows = {}
  /\ rows = {} => runs = 0 \/ run = "gone" \/ api \in Preparing \cup Removing
  /\ run = "gone" => api = <<>>

\* What queue_tasks takes over or prunes is forgotten when it is done with.
PlanOK ==
  /\ reused # {} => api \in Planned
  /\ pruned # {} => api \in {QRows, QPrune}
  /\ \A j \in Job : ids[j] \subseteq {Part(j)}

\* Stages of do_handle_task with the chunks in the store, and all of them.
Late == {"inserted", "record", "recorded", "count", "count-kb", "counted", "finish"}
Early == {"begin", "build", "ready", "insert"}

\* The task of a handler at work has the progress that get_task gave it.
ProgOK == \A j \in rows : stage[j] \in Early \cup Late => prog[j] = Some

Book == StagesOK /\ QueueOK /\ RunsOK /\ RowsOK /\ PlanOK /\ ProgOK

\* The statements of a call leave the queue and the handlers alone.
LEMMA ApiFrame ==
  ASSUME ApiStatement
  PROVE  /\ UNCHANGED <<tries, leased, done, stage, snap, crashes, errors>>
         /\ PublishTask \/ todo' = todo
BY StatementFrame
   DEF ApiStatement, UncountDocument, MarkRunning, MarkCanceled, SetFlags, DeleteRows,
       DeleteChunks, DropDocument, PlanTasks, PruneChunks, SetChunkNum, InsertTasks,
       BeginParse, PublishDone, PublishTask, Queue!Submit, taskVars, procVars

\* Stages and the queue agree: only leased tasks are worked on.
LEMMA NextStagesOK ==
  ASSUME TypeOK, StagesOK, QueueOK, [Next]_vars
  PROVE  StagesOK'
<1>1. Server \notin Job
  BY JobPart
<1> USE DEF SetStage, Idle
<1>2. ASSUME NEW j \in Job, Sync(j)
      PROVE  StagesOK'
  BY <1>1, <1>2 DEF Sync, ReadTasks, ReadDocument, WriteDocument, SyncEnds, queueVars, StagesOK,
                    TypeOK
<1>3. CASE Sync(Server) \/ ServerChooses
  BY <1>1, <1>3 DEF Sync, ReadTasks, ReadDocument, WriteDocument, SyncEnds, ServerChooses,
                    queueVars, StagesOK, TypeOK, SyncStages
<1>4. ASSUME NEW j \in Job, Handle(j) \/ Error(j) \/ Crash(j)
      PROVE  StagesOK'
  <2>1. CASE Collect(j)
    BY <1>1, <2>1 DEF Collect, Queue!Lease, StagesOK, QueueOK, TypeOK
  <2>2. CASE Refuse(j) \/ AckTask(j) \/ Crash(j)
    BY <1>1, <2>2 DEF Refuse, AckTask, Crash, Queue!Complete, Queue!Return, StagesOK, TypeOK
  <2>3. CASE InsertChunks(j) \/ RecordIds(j) \/ CountChunks(j) \/ CountKbChunks(j) \/ Finish(j)
               \/ Cleanup(j)
    BY <1>1, <2>3 DEF InsertChunks, RecordIds, CountChunks, CountKbChunks, Finish, Cleanup,
                      queueVars, StagesOK, TypeOK
  <2>4. CASE Check(j)
    BY <1>1, <2>4 DEF Check, Checks, NextStage, queueVars, StagesOK, TypeOK
  <2>5. CASE Build(j) \/ Error(j)
    BY <1>1, <2>5 DEF Build, Error, queueVars, StagesOK, TypeOK
  <2> QED BY <1>2, <1>4, <2>1, <2>2, <2>3, <2>4, <2>5 DEF Handle
<1>5. CASE UserRequest
  BY <1>5, CallCases DEF StagesOK
<1>6. CASE ApiStatement
  BY <1>6, ApiFrame DEF StagesOK
<1>7. CASE UNCHANGED vars
  BY <1>7 DEF vars, queueVars, procVars, StagesOK
<1> QED BY <1>2, <1>3, <1>4, <1>5, <1>6, <1>7 DEF Next

\* The jobs of the run that is inserted.
LEMMA NewJobs ==
  ASSUME TypeInv, InsertTasks
  PROVE  /\ api = QInsert /\ api' = QBegin /\ runs' = runs + 1 /\ runs \in Nat /\ runs < MaxRuns
         /\ \A p \in Parts : <<runs + 1, p>> \in Job /\ <<runs + 1, p>>[1] = runs + 1
                             /\ Part(<<runs + 1, p>>) = p
<1>1. api = QInsert /\ api' = QBegin /\ runs' = runs + 1
  BY StatementCases DEF InsertTasks, TypeInv
<1>2. runs \in Nat /\ runs < MaxRuns
  BY <1>1, IngestAssumption DEF TypeInv, RunsBound, Preparing, Planned
<1> QED BY <1>1, <1>2, JobPart DEF TypeInv, Part

\* The queue holds tasks of runs that were inserted, each of them once.
LEMMA NextQueueOK ==
  ASSUME TypeInv, Book, [Next]_vars
  PROVE  QueueOK'
<1>1. TypeOK /\ QueueOK /\ RunsOK /\ RowsOK
  BY DEF TypeInv, Book
<1>2. ASSUME NEW j \in Job, Handle(j) \/ Error(j) \/ Crash(j)
      PROVE  QueueOK'
  BY <1>1, <1>2 DEF Handle, Sync, Collect, Refuse, Check, Build, InsertChunks, RecordIds,
      CountChunks, CountKbChunks, Finish, Cleanup, AckTask, Error, Crash, ReadTasks,
      ReadDocument, WriteDocument, apiVars, planVars, queueVars, Queue!Lease,
      Queue!Complete, Queue!Return, QueueOK
<1>3. CASE ServerChooses \/ Sync(Server)
  BY <1>1, <1>3 DEF ServerChooses, Sync, ReadTasks, ReadDocument, WriteDocument, apiVars,
      planVars, queueVars, QueueOK
<1>4. CASE UserRequest
  BY <1>1, <1>4, CallCases DEF QueueOK
<1>5. CASE ApiStatement
  <2>1. CASE InsertTasks
    <3>1. \A j \in unsent' : j[1] = runs + 1
      BY <1>1, <2>1, NewJobs DEF InsertTasks
    <3>2. \A j \in todo \cup leased \cup done : j[1] <= runs /\ runs \in Nat
      BY <1>1, <2>1, NewJobs DEF RunsOK
    <3>3. \A j \in todo \cup leased \cup done : j \in Job /\ j[1] \in Nat
      BY <1>1 DEF TypeOK, Job
    <3>4. todo' = todo /\ leased' = leased /\ done' = done
      BY <2>1, StatementFrame DEF InsertTasks
    <3> QED BY <1>1, <3>1, <3>2, <3>3, <3>4 DEF QueueOK
  <2>2. CASE PublishTask
    BY <1>1, <2>2 DEF PublishTask, Queue!Submit, QueueOK
  <2>3. CASE ~InsertTasks /\ ~PublishTask
    <3>1. unsent' = unsent
      BY <1>5, <2>3
         DEF ApiStatement, UncountDocument, MarkRunning, MarkCanceled, SetFlags, DeleteRows,
             DeleteChunks, DropDocument, PlanTasks, PruneChunks, SetChunkNum,
             BeginParse, PublishDone, planVars
    <3> QED BY <1>1, <1>5, <2>3, <3>1, ApiFrame DEF QueueOK
  <2> QED BY <2>1, <2>2, <2>3
<1>6. CASE UNCHANGED vars
  BY <1>1, <1>6 DEF vars, queueVars, apiVars, planVars, QueueOK
<1> QED BY <1>2, <1>3, <1>4, <1>5, <1>6 DEF Next

\* What handlers, summaries and the server's thread do to the rows.
LEMMA ProcessRows ==
  ASSUME TypeOK,
         \/ \E j \in Job : Handle(j) \/ Error(j) \/ Crash(j)
         \/ ServerChooses \/ Sync(Server)
  PROVE  /\ rows' = rows /\ flag' = flag
         /\ \A k \in Job \ rows : prog'[k] = prog[k] /\ ids'[k] = ids[k] /\ tries'[k] = tries[k]
         /\ \A k \in Job : prog[k] # Zero => prog'[k] # Zero
         /\ todo' \cup leased' \cup done' = todo \cup leased \cup done
<1>1. ASSUME NEW s, Sync(s)
      PROVE  UNCHANGED <<rows, flag, prog, ids, tries, todo, leased, done>>
  BY <1>1 DEF Sync, ReadTasks, ReadDocument, WriteDocument, taskVars, queueVars
<1>2. ASSUME NEW j \in Job, NEW p \in Progress, UpdateProgress(j, p)
      PROVE  /\ \A k \in Job \ rows : prog'[k] = prog[k]
             /\ \A k \in Job : prog[k] # Zero => prog'[k] # Zero
  BY <1>2 DEF UpdateProgress, TypeOK, Progress, Zero, Some, Full, Bad
<1>3. ASSUME NEW j \in Job, Handle(j) \/ Error(j) \/ Crash(j)
      PROVE  /\ rows' = rows /\ flag' = flag
             /\ \A k \in Job \ rows :
                   prog'[k] = prog[k] /\ ids'[k] = ids[k] /\ tries'[k] = tries[k]
             /\ \A k \in Job : prog[k] # Zero => prog'[k] # Zero
             /\ todo' \cup leased' \cup done' = todo \cup leased \cup done
  <2>1. CASE Collect(j)
    BY <2>1 DEF Collect, CountAttempt, Queue!Lease, TypeOK, Zero, Some, Bad
  <2>2. CASE Refuse(j) \/ AckTask(j) \/ Crash(j)
    BY <2>2 DEF Refuse, AckTask, Crash, Queue!Complete, Queue!Return, taskVars
  <2>3. CASE InsertChunks(j) \/ CountChunks(j) \/ CountKbChunks(j) \/ Cleanup(j)
    BY <2>3 DEF InsertChunks, CountChunks, CountKbChunks, Cleanup, taskVars, queueVars
  <2>4. CASE RecordIds(j)
    BY <2>4 DEF RecordIds, queueVars, TypeOK
  <2>5. CASE Check(j)
    BY <1>2, <2>5 DEF Check, queueVars, Progress
  <2>6. CASE Build(j) \/ Finish(j) \/ Error(j)
    BY <1>2, <2>6 DEF Build, Finish, Error, queueVars, Progress, TypeOK
  <2> QED BY <1>1, <1>3, <2>1, <2>2, <2>3, <2>4, <2>5, <2>6 DEF Handle
<1> QED BY <1>1, <1>3 DEF ServerChooses, taskVars, queueVars

\* Before the first run nobody works.
LEMMA NoRunYet ==
  ASSUME TypeInv, Book, runs = 0
  PROVE  /\ rows = {} /\ todo = {} /\ leased = {} /\ done = {}
         /\ \A j \in Job : stage[j] = Idle
         /\ stage[Server] = Idle /\ docProg = Zero
<1>1. \A j \in Job : j[1] \in Nat /\ j[1] >= 1
  BY DEF Job
<1>2. todo = {} /\ leased = {} /\ done = {}
  <2>1. \A j \in todo \cup leased \cup done : j \in Job /\ j[1] <= 0
    BY DEF TypeInv, TypeOK, Book, RunsOK
  <2> QED BY <1>1, <2>1
<1> QED BY <1>2 DEF Book, StagesOK, RowsOK, RunsOK

\* No row, flag or message is of a run that was not inserted.
LEMMA NextRunsOK ==
  ASSUME TypeInv, Book, [Next]_vars
  PROVE  RunsOK'
<1>1. TypeOK /\ ApiOK /\ StagesOK /\ QueueOK /\ RunsOK /\ RowsOK /\ runs \in Nat
  BY IngestAssumption DEF TypeInv, Book, RunsBound
<1>2. CASE UserRequest
  <2>1. api = <<>> /\ api' \notin Publishing
    BY <1>2, CallCases, Tags DEF Publishing
  <2> QED BY <1>1, <1>2, <2>1, CallCases, Phases DEF RunsOK
<1>3. CASE ApiStatement
  <2>1. CASE InsertTasks
    <3>1. runs' = runs + 1 /\ api' \in Publishing
      BY <2>1, NewJobs DEF Publishing
    <3>2. \A j \in Job : j[1] \in Nat
      BY DEF Job
    <3>3. \A j \in todo' \cup leased' \cup done' \cup flag' : j[1] <= runs'
      BY <1>1, <2>1, <3>1, <3>2, StatementFrame DEF InsertTasks, RunsOK, TypeOK
    <3>4. \A j \in Job : j[1] > runs' => prog'[j] = Zero /\ ids'[j] = {} /\ tries'[j] = 0
      BY <1>1, <2>1, <3>1, <3>2, NewJobs, StatementFrame DEF InsertTasks, RunsOK
    <3>5. unsent' \subseteq rows'
      BY <2>1 DEF InsertTasks
    <3> QED BY <1>1, <3>1, <3>3, <3>4, <3>5 DEF RunsOK
  <2>2. CASE PublishTask
    <3>1. \A j \in unsent : j[1] <= runs
      BY <1>1 DEF RunsOK, RowsOK
    <3>2. \A j \in todo' \cup leased' \cup done' \cup flag' : j[1] <= runs'
      BY <1>1, <2>2, <3>1 DEF PublishTask, Queue!Submit, RunsOK
    <3> QED BY <1>1, <2>2, <3>2 DEF PublishTask, RunsOK, docVars, taskVars, procVars
  <2>3. CASE BeginParse
    <3>1. api \in Publishing /\ api' \in Publishing
      BY <1>1, <2>3, StatementCases DEF BeginParse, Publishing
    <3> QED BY <1>1, <2>3, <3>1, StatementFrame DEF BeginParse, RunsOK, planVars
  <2>4. CASE PublishDone
    <3>1. api' = <<>>
      BY <1>1, <2>4, StatementCases DEF PublishDone
    <3> QED BY <1>1, <2>4, <3>1, Phases, StatementFrame DEF PublishDone, RunsOK, docVars, planVars
  <2>5. ASSUME NEW s, Statement(s), s # "insert", s # "begin", s # "publish",
               unsent' = unsent, runs' = runs, prog' = prog, ids' = ids
        PROVE  /\ unsent = {} /\ api' \notin Publishing
               /\ \A j \in Job : j[1] > runs' => prog'[j] = Zero /\ ids'[j] = {} /\ tries'[j] = 0
    <3>1. api \notin Publishing
      BY <2>5, StatementTable DEF Publishing
    <3>2. api' \notin Publishing
      BY <1>1, <2>5, <3>1, StatementPhases
    <3> QED BY <1>1, <2>5, <3>1, <3>2, StatementFrame DEF RunsOK
  <2>6. CASE UncountDocument \/ DeleteChunks \/ DropDocument \/ PlanTasks \/ PruneChunks
             \/ SetChunkNum \/ DeleteRows
    <3>1. unsent = {} /\ api' \notin Publishing
          /\ \A j \in Job : j[1] > runs' => prog'[j] = Zero /\ ids'[j] = {} /\ tries'[j] = 0
      BY <2>5, <2>6 DEF UncountDocument, DeleteChunks, DropDocument, PlanTasks, PruneChunks,
                        SetChunkNum, DeleteRows, planVars
    <3> QED BY <1>1, <2>6, <3>1, StatementFrame
            DEF UncountDocument, DeleteChunks, DropDocument, PlanTasks, PruneChunks,
                SetChunkNum, DeleteRows, planVars, docVars, RunsOK
  <2>7. CASE MarkRunning \/ MarkCanceled
    <3>1. unsent = {} /\ api' \notin Publishing
          /\ \A j \in Job : j[1] > runs' => prog'[j] = Zero /\ ids'[j] = {} /\ tries'[j] = 0
      BY <2>5, <2>7 DEF MarkRunning, MarkCanceled, planVars
    <3> QED BY <1>1, <2>7, <3>1, StatementFrame DEF MarkRunning, MarkCanceled, planVars, RunsOK
  <2>8. CASE SetFlags
    <3>1. unsent = {} /\ api' \notin Publishing
          /\ \A j \in Job : j[1] > runs' => prog'[j] = Zero /\ ids'[j] = {} /\ tries'[j] = 0
      BY <2>5, <2>8 DEF SetFlags, planVars
    <3>2. \A j \in rows : j[1] <= runs
      BY <1>1 DEF RowsOK
    <3> QED BY <1>1, <2>8, <3>1, <3>2, StatementFrame DEF SetFlags, docVars, planVars, RunsOK
  <2> QED BY <1>3, <2>1, <2>2, <2>3, <2>4, <2>6, <2>7, <2>8 DEF ApiStatement
<1>4. CASE (\E j \in Job : Handle(j) \/ Error(j) \/ Crash(j)) \/ ServerChooses \/ Sync(Server)
  <2>1. UNCHANGED <<api, unsent, runs>>
    BY <1>4, ProcessFrame
  <2>2. \A j \in Job : j[1] > runs => j \notin rows
    BY <1>1 DEF RowsOK
  <2>3. /\ \A j \in todo' \cup leased' \cup done' \cup flag' : j[1] <= runs
        /\ \A j \in Job : j[1] > runs => prog'[j] = Zero /\ ids'[j] = {} /\ tries'[j] = 0
        /\ unsent \subseteq rows'
    BY <1>1, <1>4, <2>2, ProcessRows DEF RunsOK
  <2>4. runs = 0 => run' # "DONE" /\ docProg' = Zero /\ stage'[Server] = Idle
    <3> SUFFICES ASSUME runs = 0 PROVE run' # "DONE" /\ docProg' = Zero /\ stage'[Server] = Idle
      OBVIOUS
    <3>1. /\ rows = {} /\ todo = {} /\ leased = {}
          /\ \A j \in Job : stage[j] = Idle
          /\ stage[Server] = Idle /\ docProg = Zero
      BY NoRunYet
    <3>2. ~ \E j \in Job : Handle(j) \/ Error(j) \/ Crash(j)
      <4>1. Checks = {"begin", "ready", "inserted", "recorded", "counted"}
        BY DEF Checks, NextStage
      <4> QED BY <3>1, <4>1
              DEF Handle, Sync, Collect, Refuse, Check, Build, InsertChunks, RecordIds,
                  CountChunks, CountKbChunks, Finish, Cleanup, AckTask, Error, Crash,
                  ReadTasks, ReadDocument, WriteDocument, Queue!Lease, Idle
    <3>3. ~ ServerChooses /\ ~ Sync(Server)
      BY <3>1 DEF ServerChooses, Sync, ReadTasks, ReadDocument, WriteDocument, Idle, Zero, Some
    <3> QED BY <1>4, <3>2, <3>3
  <2> QED BY <1>1, <2>1, <2>3, <2>4 DEF RunsOK
<1>5. CASE UNCHANGED vars
  BY <1>1, <1>5 DEF vars, docVars, taskVars, queueVars, procVars, apiVars, planVars, RunsOK
<1> QED BY <1>2, <1>3, <1>4, <1>5 DEF Next

\* No summary removes a document or brings it back.
LEMMA GoneStays ==
  ASSUME TypeInv,
         \/ \E j \in Job : Handle(j) \/ Error(j) \/ Crash(j)
         \/ ServerChooses \/ Sync(Server)
  PROVE  run' = "gone" <=> run = "gone"
<1>1. ASSUME NEW s \in Job \cup {Server}, WriteDocument(s)
      PROVE  run' = "gone" <=> run = "gone"
  BY <1>1 DEF WriteDocument, Write, TypeInv, SnapOK, DocRuns
<1> QED BY <1>1
        DEF Handle, Sync, Collect, Refuse, Check, Build, InsertChunks, RecordIds, CountChunks,
            CountKbChunks, Finish, Cleanup, AckTask, Error, Crash, ServerChooses, ReadTasks,
            ReadDocument, docVars

\* The rows are those of the last run while it is wanted, and none once they are
\* deleted.
LEMMA NextRowsOK ==
  ASSUME TypeInv, Book, [Next]_vars
  PROVE  RowsOK'
<1>1. TypeOK /\ ApiOK /\ RunsOK /\ RowsOK /\ runs \in Nat
  BY IngestAssumption DEF TypeInv, Book, RunsBound
<1>2. CASE UserRequest
  <2>1. /\ api = <<>> /\ run # "gone"
        /\ UNCHANGED <<rows, runs, run>>
        /\ api' \notin WithoutRows
        /\ api' # <<>>
    BY <1>2, CallCases, Tags DEF WithoutRows
  <2> QED BY <1>1, <2>1, Phases DEF RowsOK
<1>3. CASE ApiStatement
  <2>1. run # "gone" /\ api # <<>>
    BY <1>1, <1>3
       DEF RowsOK, ApiStatement, UncountDocument, MarkRunning, MarkCanceled, SetFlags,
           DeleteRows, DeleteChunks, DropDocument, PlanTasks, PruneChunks, SetChunkNum,
           InsertTasks, BeginParse, PublishDone, PublishTask, Statement
  <2>2. CASE InsertTasks
    <3>1. rows' = {<<runs', p>> : p \in Parts} /\ runs' # 0
      BY <1>1, <2>2, NewJobs DEF InsertTasks, RowsOK, WithoutRows
    <3>2. rows' # {}
      BY <3>1, IngestAssumption
    <3>3. api' \notin WithoutRows
      <4>1. api' = QBegin
        BY <2>2, NewJobs
      <4> QED BY <4>1, Tags DEF WithoutRows
    <3>4. run' # "gone"
      BY <2>1, <2>2 DEF InsertTasks, docVars
    <3> QED BY <3>1, <3>2, <3>3, <3>4 DEF RowsOK
  <2>3. CASE PublishTask
    BY <1>1, <2>3 DEF PublishTask, docVars, taskVars, RowsOK
  <2>4. CASE DropDocument
    <3>1. api = XDrop /\ api' = <<>>
      BY <1>1, <2>4, StatementCases DEF DropDocument
    <3> QED BY <1>1, <2>4, <3>1 DEF DropDocument, RowsOK, WithoutRows, planVars
  <2>5. CASE DeleteRows
    <3>1. api' \in Preparing \cup Removing
      BY <1>1, <2>5, StatementCases DEF DeleteRows, Preparing, Planned, Wiping, Removing
    <3> QED BY <2>1, <2>5, <3>1 DEF DeleteRows, RowsOK, docVars, planVars
  <2>6. ASSUME NEW s, Statement(s), s \notin {"insert", "rows", "drop", "publish"},
               run' # "gone", UNCHANGED <<rows, runs>>
        PROVE  RowsOK'
    <3>1. api' \in WithoutRows => api \in WithoutRows
      <4>1. CASE api \in Preparing \cup Publishing
        <5>1. api' \in {WStore, QPrune, QChunks, QInsert} => api \in {QPrune, QChunks}
          BY <2>6, <4>1, StatementTable, Tags DEF Preparing, Planned, Wiping, Publishing
        <5>2. api' \notin {XStore, XDrop}
          BY <2>6, <4>1, StatementTable, Tags DEF Preparing, Planned, Wiping, Publishing
        <5> QED BY <5>1, <5>2 DEF WithoutRows
      <4>2. CASE api \in Stopping
        BY <2>6, <4>2, StatementTable, Tags DEF Stopping, WithoutRows
      <4>3. CASE api \in Removing
        BY <2>6, <4>3, StatementTable, Tags DEF Removing, WithoutRows
      <4> QED BY <1>1, <2>1, <4>1, <4>2, <4>3 DEF ApiOK
    <3>2. api \in Preparing \cup Removing => api' \in Preparing \cup Removing
      BY <2>6, StatementTable DEF Preparing, Planned, Wiping, Removing
    <3> QED BY <1>1, <2>1, <2>6, <3>1, <3>2 DEF RowsOK
  <2>7. CASE PublishDone
    <3>1. api = QPublish /\ api' = <<>>
      BY <1>1, <2>7, StatementCases DEF PublishDone
    <3>2. api \notin Preparing \cup Removing /\ <<>> \notin WithoutRows
      BY <3>1, Phases DEF Publishing, WithoutRows, Preparing, Planned, Wiping, Removing
    <3> QED BY <1>1, <2>1, <2>7, <3>1, <3>2 DEF PublishDone, RowsOK, docVars, planVars
  <2>8. CASE UncountDocument \/ MarkRunning \/ MarkCanceled \/ SetFlags \/ DeleteChunks
             \/ PlanTasks \/ PruneChunks \/ SetChunkNum \/ BeginParse
    BY <2>1, <2>6, <2>8
       DEF UncountDocument, MarkRunning, MarkCanceled, SetFlags, DeleteChunks, PlanTasks,
           PruneChunks, SetChunkNum, BeginParse, docVars, planVars
  <2> QED BY <1>3, <2>2, <2>3, <2>4, <2>5, <2>7, <2>8 DEF ApiStatement
<1>4. CASE (\E j \in Job : Handle(j) \/ Error(j) \/ Crash(j)) \/ ServerChooses \/ Sync(Server)
  <2>1. UNCHANGED <<api, runs, rows>>
    BY <1>1, <1>4, ProcessFrame, ProcessRows
  <2>2. run' = "gone" <=> run = "gone"
    BY <1>4, GoneStays
  <2> QED BY <1>1, <2>1, <2>2 DEF RowsOK
<1>5. CASE UNCHANGED vars
  BY <1>1, <1>5 DEF vars, docVars, taskVars, apiVars, planVars, RowsOK
<1> QED BY <1>2, <1>3, <1>4, <1>5 DEF Next

\* A call has used up what it planned when it ends, and no task gets the chunk
\* ids of another's part.
LEMMA NextPlanOK ==
  ASSUME TypeInv, Book, [Next]_vars
  PROVE  PlanOK'
<1>1. TypeOK /\ ApiOK /\ PlanOK
  BY DEF TypeInv, Book
<1>2. CASE UserRequest
  <2>1. api \notin Planned /\ api \notin {QRows, QPrune}
    BY <1>2, CallCases, Tags DEF Planned
  <2> QED BY <1>1, <1>2, <2>1, CallCases DEF PlanOK
<1>3. CASE ApiStatement
  <2>1. CASE InsertTasks
    <3>1. pruned = {} /\ pruned' = {}
      <4>1. api = QInsert
        BY <2>1, NewJobs
      <4>2. pruned = {}
        BY <1>1, <4>1, Tags DEF PlanOK
      <4> QED BY <2>1, <4>2 DEF InsertTasks
    <3>2. \A j \in Job : ids'[j] \subseteq {Part(j)}
      BY <1>1, <2>1 DEF InsertTasks, PlanOK
    <3> QED BY <2>1, <3>1, <3>2 DEF InsertTasks, PlanOK
  <2>2. CASE PlanTasks
    <3>1. api' = QRows
      BY <1>1, <2>2, StatementCases DEF PlanTasks
    <3> QED BY <1>1, <2>2, <3>1 DEF PlanTasks, PlanOK, Planned
  <2>3. CASE PruneChunks
    <3>1. api' = QChunks
      BY <1>1, <2>3, StatementCases DEF PruneChunks
    <3> QED BY <1>1, <2>3, <3>1 DEF PruneChunks, PlanOK, Planned
  <2>4. CASE PublishTask
    BY <1>1, <2>4 DEF PublishTask, taskVars, PlanOK
  <2>5. ASSUME NEW s, Statement(s), s \notin {"insert", "plan", "prune"},
               UNCHANGED <<reused, pruned, ids>>
        PROVE  PlanOK'
    <3>1. api \in Planned => api' \in Planned
      BY <2>5, StatementTable DEF Planned
    <3>2. api \in {QRows, QPrune} => api' \in {QRows, QPrune}
      BY <2>5, StatementTable
    <3> QED BY <1>1, <2>5, <3>1, <3>2 DEF PlanOK
  <2>6. CASE UncountDocument \/ MarkRunning \/ MarkCanceled \/ SetFlags \/ DeleteChunks
             \/ DeleteRows \/ DropDocument \/ SetChunkNum \/ BeginParse \/ PublishDone
    BY <2>5, <2>6
       DEF UncountDocument, MarkRunning, MarkCanceled, SetFlags, DeleteChunks, DeleteRows,
           DropDocument, SetChunkNum, BeginParse, PublishDone, planVars
  <2> QED BY <1>3, <2>1, <2>2, <2>3, <2>4, <2>6 DEF ApiStatement
<1>4. CASE (\E j \in Job : Handle(j) \/ Error(j) \/ Crash(j)) \/ ServerChooses \/ Sync(Server)
  <2>1. \A j \in Job : ids'[j] \subseteq {Part(j)}
    <3>1. ASSUME NEW j \in Job, RecordIds(j)
          PROVE  \A k \in Job : ids'[k] \subseteq {Part(k)}
      BY <1>1, <3>1 DEF RecordIds, PlanOK, TypeOK
    <3>2. (\E j \in Job : RecordIds(j)) \/ ids' = ids
      BY <1>4
         DEF Handle, Sync, Collect, Refuse, Check, Build, InsertChunks, CountChunks,
             CountKbChunks, Finish, Cleanup, AckTask, Error, Crash, ServerChooses, ReadTasks,
             ReadDocument, WriteDocument, taskVars
    <3> QED BY <1>1, <3>1, <3>2 DEF PlanOK
  <2> QED BY <1>1, <1>4, <2>1, ProcessFrame DEF PlanOK
<1>5. CASE UNCHANGED vars
  BY <1>1, <1>5 DEF vars, taskVars, apiVars, planVars, PlanOK
<1> QED BY <1>2, <1>3, <1>4, <1>5 DEF Next

\* Between get_task and the end of the handler its task shows progress.
LEMMA NextProgOK ==
  ASSUME TypeInv, Book, [Next]_vars
  PROVE  ProgOK'
<1>1. TypeOK /\ StagesOK /\ RunsOK /\ ProgOK
  BY DEF TypeInv, Book
<1>2. CASE UserRequest
  BY <1>1, <1>2, CallCases DEF ProgOK
<1>3. CASE ApiStatement
  <2>1. CASE InsertTasks
    <3>1. \A j \in Job : j[1] = runs + 1 => stage[j] = Idle
      <4>1. \A j \in leased : j[1] <= runs
        BY <1>1 DEF RunsOK
      <4> QED BY <1>1, <2>1, <4>1, NewJobs DEF StagesOK
    <3>2. \A j \in rows' : j \in rows \/ (j \in Job /\ j[1] = runs + 1)
      <4>1. rows' = rows \cup {<<runs + 1, p>> : p \in Parts}
        BY <2>1 DEF InsertTasks
      <4>2. \A p \in Parts : <<runs + 1, p>> \in Job /\ <<runs + 1, p>>[1] = runs + 1
        BY <2>1, NewJobs
      <4>3. ASSUME NEW j \in rows', j \notin rows
            PROVE  j \in Job /\ j[1] = runs + 1
        <5>1. PICK p \in Parts : j = <<runs + 1, p>>
          BY <4>1, <4>3
        <5> QED BY <4>2, <5>1, Zenon
      <4> QED BY <4>3
    <3>3. \A j \in rows' : stage[j] \in Early \cup Late => j \in rows
      BY <3>1, <3>2 DEF Early, Late, Idle
    <3>4. rows = {}
      BY <2>1, NewJobs DEF Book, RowsOK, WithoutRows
    <3> QED BY <2>1, <3>3, <3>4, StatementFrame DEF InsertTasks, ProgOK
  <2>2. CASE ~InsertTasks
    <3>1. rows' \subseteq rows /\ prog' = prog /\ stage' = stage
      BY <1>3, <2>2, ApiFrame
         DEF ApiStatement, UncountDocument, MarkRunning, MarkCanceled, SetFlags, DeleteRows,
             DeleteChunks, DropDocument, PlanTasks, PruneChunks, SetChunkNum, PublishTask,
             BeginParse, PublishDone, taskVars
    <3> QED BY <1>1, <3>1 DEF ProgOK
  <2> QED BY <2>1, <2>2
<1> USE DEF SetStage
<1>4. ASSUME NEW s \in Job \cup {Server}, Sync(s)
      PROVE  ProgOK'
  BY <1>1, <1>4 DEF Sync, ReadTasks, ReadDocument, WriteDocument, SyncEnds, taskVars, ProgOK,
                    TypeOK, Early, Late, Idle
<1>5. ASSUME NEW j \in Job, Handle(j) \/ Error(j) \/ Crash(j)
      PROVE  ProgOK'
  <2>1. CASE Collect(j)
    BY <1>1, <2>1 DEF Collect, CountAttempt, Refused, ProgOK, TypeOK, Early, Late, Some, Bad
  <2>2. CASE Refuse(j) \/ AckTask(j) \/ Crash(j) \/ Cleanup(j)
    BY <1>1, <2>2 DEF Refuse, AckTask, Crash, Cleanup, taskVars, ProgOK, TypeOK, Early, Late, Idle
  <2>3. CASE InsertChunks(j) \/ CountChunks(j) \/ CountKbChunks(j)
    BY <1>1, <2>3 DEF InsertChunks, CountChunks, CountKbChunks, taskVars, ProgOK, TypeOK,
                      Early, Late
  <2>4. CASE RecordIds(j)
    BY <1>1, <2>4 DEF RecordIds, ProgOK, TypeOK, Early, Late
  <2>5. CASE Check(j)
    BY <1>1, <2>5 DEF Check, Checks, NextStage, UpdateProgress, ProgOK, TypeOK, Early, Late
  <2>6. CASE Build(j)
    BY <1>1, <2>6 DEF Build, UpdateProgress, ProgOK, TypeOK, Early, Late, Full, Bad
  <2>7. CASE Finish(j) \/ Error(j)
    BY <1>1, <2>7 DEF Finish, Error, UpdateProgress, ProgOK, TypeOK, Early, Late
  <2> QED BY <1>4, <1>5, <2>1, <2>2, <2>3, <2>4, <2>5, <2>6, <2>7 DEF Handle
<1>6. CASE ServerChooses
  BY <1>1, <1>6 DEF ServerChooses, taskVars, ProgOK, TypeOK, Early, Late
<1>7. CASE UNCHANGED vars
  BY <1>1, <1>7 DEF vars, taskVars, procVars, ProgOK
<1> QED BY <1>2, <1>3, <1>4, <1>5, <1>6, <1>7 DEF Next

\* The invariant the other proofs start from.
DocInv == TypeInv /\ Book

\* The bookkeeping holds initially.
LEMMA InitDocInv == Init => DocInv
<1> SUFFICES ASSUME Init PROVE Book
  BY InitTypeInv DEF DocInv
<1>1. Server \notin Job
  BY JobPart
<1>2. api = <<>> /\ api \notin Publishing \cup WithoutRows
  BY Tags DEF Init, Publishing, WithoutRows
<1>3. StagesOK /\ QueueOK
  BY <1>1 DEF Init, Queue!Init, StagesOK, QueueOK
<1>4. RunsOK /\ RowsOK
  BY <1>1, <1>2 DEF Init, Queue!Init, RunsOK, RowsOK
<1>5. PlanOK /\ ProgOK
  BY DEF Init, PlanOK, ProgOK
<1> QED BY <1>3, <1>4, <1>5 DEF Book

\* DocInv is inductive.
LEMMA NextDocInv == DocInv /\ [Next]_vars => DocInv'
<1> SUFFICES ASSUME DocInv, [Next]_vars PROVE DocInv'
  OBVIOUS
<1>1. TypeInv /\ Book /\ TypeOK /\ StagesOK /\ QueueOK
  BY DEF DocInv, TypeInv, Book
<1> QED BY <1>1, NextTypeInv, NextStagesOK, NextQueueOK, NextRunsOK, NextRowsOK, NextPlanOK,
           NextProgOK DEF DocInv, Book

\* The bookkeeping holds in every reachable state.
THEOREM DocBookkeeping == Spec => []DocInv
BY InitDocInv, NextDocInv, PTL DEF Spec

=============================================================================
