-------------------------- MODULE ExplorerSyncProofs --------------------------
(***************************************************************************)
(* The theorem that the page shows what the server has, when the user has  *)
(* waited for every answer.                                                *)
(*                                                                         *)
(* While an answer is missing the rows differ from the server's data. The  *)
(* invariant says where: a row that is wrong now is one that an answer     *)
(* under way has still to make, to remove or to fill, and what an answer   *)
(* was asked for is still there to be worked on when it comes.             *)
(***************************************************************************)
EXTENDS ExplorerProofs

-------------------------------------------------------------------------------
(* The inductive invariant.                                                *)
(* t: a tree, d: the server's data, S and A: the bags of requests sent and *)
(* of answers, sel: the selected object.                                   *)

Root == <<"bws">>

NodeAt(t, p) == t.dom[p][1].node
BoundTo(t, n, p) == IsShown(t, p) /\ NodeAt(t, p) = n
OpenIn(t, p) == IsShown(t, p) /\ t.dom[p][1].text = "-"

\* A path has one row, which reacts once and shows what its object knows; the
\* object is listed in the one of the row above, and has rows for all it lists.
PlainRow(t, p) ==
    LET n == NodeAt(t, p) IN
    /\ Len(t.dom[p]) = 1 /\ t.dom[p][1].handlers = 1 /\ n # Null
    /\ canHaveValue(NameIn(p)) => t.dom[p][1].info = t.nodes[n].info
    /\ Len(p) > 1 => n \in t.nodes[NodeAt(t, Parent(p))].subs
    /\ \A s \in t.nodes[n].subs : BoundTo(t, s, getPath(t, s))
PlainInv(t) == IsShown(t, Root) /\ \A p \in Paths : IsShown(t, p) => PlainRow(t, p)

\* The requests that write (and the cut before its DELETE), and those that
\* bring the page up to date.
Edits   == {"cut", "cutDelete", "delete", "put", "paste", "post"}
Updates == {"list", "info", "exists"}

\* One request is under way, apart from those that follow a list.
Pended(S, A) == BagToSet(S) \cup {a.request : a \in BagToSet(A)}
CallsInv(S, A) ==
    /\ IsABag(S) /\ \A r \in BagToSet(S) : r.op # "info" => S[r] = 1
    /\ A # EmptyBag =>
          \E a \in BagToSet(A) :
                 /\ A = SetToBag({a}) /\ a.request \notin BagToSet(S)
                 /\ a.request.op \notin {"info", "exists"}
    /\ \A r, q \in Pended(S, A) :
          r = q \/ (r.op \in Updates /\ q.op \in Updates /\ (r.op = "info" \/ q.op = "info"))

\* An object with a row, or one that was taken out of the tree.
Cut(t, n) == Relative(getPath(t, n))
Attached(t, n) == Cut(t, n) \/ BoundTo(t, n, getPath(t, n))

\* What a request under way was sent for is still there.
EditInv(t, r) ==
    /\ Attached(t, r.me)
    /\ IF r.op = "put"
       THEN /\ r.value \in Values
            /\ r.url \in {getPath(t, r.me)} \cup
                         {Append(getPath(t, r.me), name) : name \in {Writable, DisplayName}}
       ELSE r.url = getPath(t, r.me)
ListInv(t, d, r) == /\ BoundTo(t, r.me, r.url) /\ OpenIn(t, r.url)
                    /\ r.url \in DOMAIN d /\ t.nodes[r.me].subs = {}
ExistsInv(t, r)  == LET p == getPath(t, r.me) IN
                    /\ BoundTo(t, r.me, p) /\ OpenIn(t, p)
                    /\ r.url = Append(p, Writable) /\ ~IsShown(t, r.url)
CallInv(t, d, r) ==
    /\ r.op \in Edits => EditInv(t, r)
    /\ r.op = "list" => ListInv(t, d, r)
    /\ r.op = "exists" => ExistsInv(t, r)
    /\ r.op = "info" => BoundTo(t, r.me, r.url)

\* What is refreshed when an edit has succeeded.
Done(a) == a.reply.ok /\ a.request.op \in (Edits \ {"cut"}) \cup {"reset"}
Refreshed(t, r) == IF r.op = "reset" THEN Root
                   ELSE IF r.op \in {"delete", "cutDelete"} THEN Parent(getPath(t, r.me))
                   ELSE getPath(t, r.me)
AnswerInv(t, a) ==
    Done(a) /\ a.request.op # "reset" =>
        /\ ~Cut(t, a.request.me)
        /\ a.request.op \in {"delete", "cutDelete"} => Len(getPath(t, a.request.me)) > 1

\* Rows that an answer has still to make or to remove, and rows with a value
\* it has still to bring.
StrictlyWithin(p, q) == Within(p, q) /\ p # q
DueRows(t, S, A) ==
    {p \in Paths :
       \/ \E r \in Pended(S, A) : \/ r.op = "list" /\ p \in Children(r.url)
                                  \/ r.op = "exists" /\ p = r.url
       \/ \E a \in BagToSet(A) : Done(a) /\ StrictlyWithin(p, Refreshed(t, a.request))}
DueInfos(t, S, A) ==
    {p \in Paths :
       \/ \E r \in Pended(S, A) : r.op \in {"list", "info"} /\ p = r.url
       \/ \E a \in BagToSet(A) : Done(a) /\ p = Refreshed(t, a.request)}

\* The row is there when it should be, with its value or one that is due (I).
RowRight(t, d, I, p) ==
    /\ p # Root => (IsShown(t, p) <=> p \in DOMAIN d /\ OpenIn(t, Parent(p)))
    /\ IsShown(t, p) /\ canHaveValue(NameIn(p)) =>
          t.dom[p][1].info = d[p] \/ (p \in I /\ d[p] # NoInfo)

Calm(t, d, S, A, sel) ==
    /\ PlainInv(t)
    /\ CallsInv(S, A)
    /\ \A r \in Pended(S, A) : CallInv(t, d, r)
    /\ \A a \in BagToSet(A) : AnswerInv(t, a)
    /\ sel # Null => Attached(t, sel)
    /\ \A p \in Paths \ DueRows(t, S, A) : RowRight(t, d, DueInfos(t, S, A), p)

\* The server changes nothing between a list and its answer.
ListCurrent(a) ==
    a.request.op = "list" => /\ a.reply.ok /\ a.reply.info = Info(a.request.url)
                             /\ a.reply.members = Members(a.request.url)

SyncPart ==
    /\ hurried \in Nat /\ Exists(Root)
    /\ hurried = 0 => /\ Calm(tree, db, sent, answered, selected)
                      /\ \A a \in BagToSet(answered) : ListCurrent(a)

SyncInv == ExplorerInv /\ SyncPart
-------------------------------------------------------------------------------
(* Trees in which every row is bound.                                      *)

\* A row and the object it is bound to.
LEMMA ShownFacts ==
    ASSUME NEW t, TreeInv(t), PlainInv(t), NEW p, IsShown(t, p)
    PROVE  LET n == NodeAt(t, p) IN
           /\ p \in Paths /\ t.dom[p] # <<>> /\ Len(t.dom[p]) = 1 /\ t.dom[p][1] \in Rows
           /\ n \in Objects(t) /\ n # Null /\ getPath(t, n) = p /\ t.nodes[n].name = NameIn(p)
           /\ PlainRow(t, p)
           /\ Len(p) > 1 =>
                /\ Parent(p) \in Paths /\ IsShown(t, Parent(p))
                /\ n \in t.nodes[NodeAt(t, Parent(p))].subs
                /\ t.nodes[n].parent = NodeAt(t, Parent(p))
<1>. DEFINE n == NodeAt(t, p)
<1>1. t \in Trees /\ LinkInv(t) /\ RowsInv(t)
  BY DEF TreeInv
<1>2. p \in Paths /\ t.dom[p] # <<>> /\ PlainRow(t, p)
  BY DEF PlainInv, IsShown
<1>3. Len(t.dom[p]) = 1 /\ n # Null /\ t.dom[p][1] \in Rows /\ 1 \in 1 .. Len(t.dom[p])
  <2>1. Len(t.dom[p]) = 1 /\ n # Null
    BY <1>2 DEF PlainRow
  <2>. QED BY <1>1, <1>2, <2>1, RowListTypes
<1>4. n \in Objects(t) /\ getPath(t, n) = p
  BY <1>1, <1>2, <1>3 DEF RowsInv, NodeAt
<1>5. t.nodes[n].name = NameIn(p)
  <2>. HIDE DEF n
  <2>1. getPath(t, n)[Len(getPath(t, n))] = t.nodes[n].name
    BY <1>1, <1>4, PathProperties
  <2>. QED BY <1>4, <2>1 DEF NameIn
<1>6. ASSUME Len(p) > 1
      PROVE  /\ Parent(p) \in Paths /\ IsShown(t, Parent(p))
             /\ n \in t.nodes[NodeAt(t, Parent(p))].subs
             /\ t.nodes[n].parent = NodeAt(t, Parent(p))
  <2>1. Parent(p) \in Paths
    BY <1>2, <1>6, PathsTypes
  <2>2. IsShown(t, Parent(p))
    BY <1>1, <1>2, <1>6, <2>1 DEF IsShown, RowsInv
  <2>3. n \in t.nodes[NodeAt(t, Parent(p))].subs
    BY <1>2, <1>6 DEF PlainRow
  <2>. DEFINE m == NodeAt(t, Parent(p))
  <2>4. m \in Objects(t)
    <3>1. PlainRow(t, Parent(p))
      BY <2>1, <2>2 DEF PlainInv
    <3>2. Len(t.dom[Parent(p)]) = 1 /\ m # Null
      BY <3>1 DEF PlainRow
    <3>. QED BY <1>1, <2>1, <3>2 DEF RowsInv, NodeAt
  <2>5. t.nodes[n].parent = m
    <3>. HIDE DEF n, m
    <3>1. \A s \in t.nodes[m].subs : t.nodes[s].parent = m
      BY <1>1, <2>4 DEF LinkInv
    <3>. QED BY <2>3, <3>1 DEF m
  <2>. QED BY <2>1, <2>2, <2>3, <2>5
<1>. QED BY <1>2, <1>3, <1>4, <1>5, <1>6

\* What an object lists has its rows inside that of the object.
LEMMA SubFacts ==
    ASSUME NEW t, TreeInv(t), PlainInv(t), NEW p, NEW n, BoundTo(t, n, p),
           NEW s \in t.nodes[n].subs
    PROVE  LET c == getPath(t, s) IN
           /\ s \in Objects(t) /\ t.nodes[s].parent = n /\ s # Null
           /\ BoundTo(t, s, c) /\ c \in Paths
           /\ c = Append(p, t.nodes[s].name) /\ Parent(c) = p /\ Len(c) = Len(p) + 1
           /\ NameIn(c) = t.nodes[s].name
<1>. DEFINE c == getPath(t, s)
<1>1. t \in Trees /\ LinkInv(t) /\ n = NodeAt(t, p) /\ IsShown(t, p)
  BY DEF TreeInv, BoundTo
<1>2. n \in Objects(t) /\ n # Null /\ getPath(t, n) = p /\ PlainRow(t, p)
  BY <1>1, ShownFacts
<1>3. s \in Objects(t) /\ t.nodes[s].parent = n
  BY <1>1, <1>2 DEF LinkInv
<1>4. BoundTo(t, s, c)
  BY <1>1, <1>2 DEF PlainRow
<1>5. /\ c = Append(p, t.nodes[s].name) /\ Parent(c) = p /\ Len(c) = Len(p) + 1
      /\ c[Len(c)] = t.nodes[s].name
  <2>1. t.nodes[s].parent # Null /\ getPath(t, t.nodes[s].parent) = p
    BY <1>2, <1>3
  <2>. QED BY <1>1, <1>3, <2>1, PathProperties
<1>6. s # Null
  BY <1>1, <1>3, TreeTypes
<1>. QED BY <1>3, <1>4, <1>5, <1>6 DEF BoundTo, IsShown, NameIn

\* The first row is bound to the root object.
LEMMA RootBound ==
    ASSUME NEW t, TreeInv(t), PlainInv(t)
    PROVE  BoundTo(t, dataRoot, Root)
<1>1. IsShown(t, Root) /\ LinkInv(t)
  BY DEF PlainInv, TreeInv
<1>2. NodeAt(t, Root) \in Objects(t) /\ t.nodes[NodeAt(t, Root)].name = NameIn(Root)
  BY <1>1, ShownFacts
<1>3. NameIn(Root) = "bws"
  BY DEF NameIn, Root
<1>. QED BY <1>1, <1>2, <1>3 DEF LinkInv, BoundTo

\* An object has one row.
LEMMA BoundOnce ==
    ASSUME NEW t, TreeInv(t), PlainInv(t), NEW n, NEW p, BoundTo(t, n, p)
    PROVE  /\ n \in Objects(t) /\ n # Null /\ p = getPath(t, n) /\ p \in Paths
           /\ ~Cut(t, n) /\ Attached(t, n)
<1>1. n \in Objects(t) /\ n # Null /\ p = getPath(t, n) /\ p \in Paths
  BY ShownFacts DEF BoundTo
<1>2. p[1] = "bws"
  BY <1>1, PathsTypes
<1>. QED BY <1>1, <1>2 DEF Cut, Relative, Attached
-------------------------------------------------------------------------------
(* Rows within rows.                                                       *)

LEMMA ChildFacts ==
    ASSUME NEW p \in Paths, NEW q \in Paths
    PROVE  /\ q \in Children(p) <=> Len(q) > 1 /\ Parent(q) = p
           /\ q \in Children(p) => q = Append(p, NameIn(q)) /\ q # p /\ StrictlyWithin(q, p)
<1>1. p \in Seq(Names) /\ q \in Seq(Names) /\ Len(p) \in Nat \ {0} /\ Len(q) \in Nat \ {0}
  BY PathsTypes
<1>2. Len(Parent(q)) = Len(q) - 1 /\ \A i \in 1 .. Len(q) - 1 : Parent(q)[i] = q[i]
  BY <1>1, ParentElements
<1>3. q \in Children(p) => Len(q) > 1 /\ Parent(q) = p
  <2>. HAVE q \in Children(p)
  <2>1. Len(q) = Len(p) + 1 /\ SubSeq(q, 1, Len(p)) = p
    BY DEF Children, Within
  <2>2. Len(q) - 1 = Len(p)
    BY <1>1, <2>1
  <2>. QED BY <1>1, <2>1, <2>2 DEF Parent
<1>4. Len(q) > 1 /\ Parent(q) = p => q \in Children(p)
  <2>. HAVE Len(q) > 1 /\ Parent(q) = p
  <2>1. Len(p) = Len(q) - 1
    BY <1>2
  <2>. QED BY <1>1, <2>1 DEF Children, Within, Parent
<1>5. q \in Children(p) => q = Append(p, NameIn(q))
  <2>. HAVE q \in Children(p)
  <2>1. Len(p) = Len(q) - 1 /\ \A i \in 1 .. Len(p) : p[i] = q[i]
    BY <1>2, <1>3
  <2>. QED BY <1>1, <2>1 DEF NameIn
<1>6. q \in Children(p) => q # p /\ StrictlyWithin(q, p)
  BY <1>1 DEF Children, StrictlyWithin
<1>. QED BY <1>3, <1>4, <1>5, <1>6

LEMMA StrictFacts ==
    ASSUME NEW p \in Paths, NEW q \in Paths
    PROVE  /\ StrictlyWithin(q, p) =>
                /\ Len(q) > 1 /\ Len(q) > Len(p) /\ Parent(q) \in Paths
                /\ Parent(q) = p \/ StrictlyWithin(Parent(q), p)
           /\ Len(q) > 1 /\ (Parent(q) = p \/ StrictlyWithin(Parent(q), p)) => StrictlyWithin(q, p)
           /\ ~StrictlyWithin(p, p)
           /\ StrictlyWithin(q, p) /\ Len(q) = Len(p) + 1 => q \in Children(p)
<1>1. p \in Seq(Names) /\ q \in Seq(Names) /\ Len(p) \in Nat \ {0} /\ Len(q) \in Nat \ {0}
  BY PathsTypes
<1>2. /\ Within(q, p) /\ q # p => Len(q) > Len(p) /\ Within(Parent(q), p)
      /\ Within(Parent(q), p) => Within(q, p) /\ Len(q) > Len(p)
  BY <1>1, WithinParent
<1>3. Within(p, p)
  BY <1>1, WithinElements
<1>4. StrictlyWithin(q, p) =>
                /\ Len(q) > 1 /\ Len(q) > Len(p) /\ Parent(q) \in Paths
                /\ Parent(q) = p \/ StrictlyWithin(Parent(q), p)
  <2>. HAVE StrictlyWithin(q, p)
  <2>1. Len(q) > 1 /\ Len(q) > Len(p) /\ Within(Parent(q), p)
    BY <1>1, <1>2 DEF StrictlyWithin
  <2>2. Parent(q) \in Paths
    BY <2>1, PathsTypes
  <2>. QED BY <2>1, <2>2 DEF StrictlyWithin
<1>5. Len(q) > 1 /\ (Parent(q) = p \/ StrictlyWithin(Parent(q), p)) => StrictlyWithin(q, p)
  <2>. HAVE Len(q) > 1 /\ (Parent(q) = p \/ StrictlyWithin(Parent(q), p))
  <2>1. Within(Parent(q), p)
    BY <1>3 DEF StrictlyWithin
  <2>2. Within(q, p) /\ Len(q) > Len(p)
    BY <1>2, <2>1
  <2>3. q # p
    BY <1>1, <2>2
  <2>. QED BY <2>2, <2>3 DEF StrictlyWithin
<1>6. StrictlyWithin(q, p) /\ Len(q) = Len(p) + 1 => q \in Children(p)
  BY DEF StrictlyWithin, Children
<1>. QED BY <1>4, <1>5, <1>6 DEF StrictlyWithin

\* A row further inside is inside the row of a child.
LEMMA ChildShown ==
    ASSUME NEW t, TreeInv(t), NEW p \in Paths, NEW q, IsShown(t, q), StrictlyWithin(q, p)
    PROVE  \E c \in Children(p) : IsShown(t, c) /\ Within(q, c)
<1>1. t \in Trees /\ RowsInv(t) /\ q \in Paths /\ t.dom[q] # <<>>
  BY DEF TreeInv, IsShown
<1>2. /\ p \in Seq(Names) /\ q \in Seq(Names) /\ Len(p) \in Nat \ {0} /\ Len(q) \in Nat \ {0}
      /\ Len(q) > Len(p)
  BY <1>1, PathsTypes, StrictFacts
<1>. DEFINE c == SubSeq(q, 1, Len(p) + 1)
<1>3. c \in Seq(Names) /\ Len(c) = Len(p) + 1 /\ \A i \in 1 .. Len(p) + 1 : c[i] = q[i]
  BY <1>2
<1>. HIDE DEF c
<1>4. Within(q, c)
  BY <1>2, <1>3, WithinElements
<1>5. \A i \in 1 .. Len(p) : q[i] = p[i]
  BY <1>2, WithinElements DEF StrictlyWithin
<1>6. Within(c, p)
  BY <1>2, <1>3, <1>5, WithinElements
<1>7. Len(c) > 0
  BY <1>2, <1>3
<1>8. IsShown(t, c)
  BY <1>1, <1>3, <1>4, <1>7, AncestorShown
<1>. QED BY <1>3, <1>4, <1>6, <1>8 DEF Children, IsShown

LEMMA NothingBelow ==
    ASSUME NEW t, TreeInv(t), PlainInv(t), NEW p, NEW n, BoundTo(t, n, p), t.nodes[n].subs = {}
    PROVE  \A q \in Paths : StrictlyWithin(q, p) => ~IsShown(t, q)
<1>. SUFFICES ASSUME NEW q \in Paths, StrictlyWithin(q, p), IsShown(t, q) PROVE FALSE
  OBVIOUS
<1>1. p \in Paths /\ n = NodeAt(t, p)
  BY DEF BoundTo, IsShown
<1>2. PICK c \in Children(p) : IsShown(t, c)
  BY <1>1, ChildShown
<1>3. c \in Paths /\ Len(c) > 1 /\ Parent(c) = p
  BY <1>1, <1>2, ChildFacts DEF Children
<1>4. NodeAt(t, c) \in t.nodes[NodeAt(t, Parent(c))].subs
  BY <1>2, <1>3, ShownFacts
<1>. QED BY <1>1, <1>3, <1>4

\* What is below an object whose subs are all cut off is cut off with them.
LEMMA CutBelow ==
    ASSUME NEW t, TreeInv(t), PlainInv(t), NEW p, NEW me, BoundTo(t, me, p),
           NEW u, u \in Trees, LinkInv(u), Objects(u) = Objects(t),
           \A n \in Objects(t) :
              /\ u.nodes[n].name = t.nodes[n].name
              /\ u.nodes[n].parent = IF n \in t.nodes[me].subs THEN Null ELSE t.nodes[n].parent
    PROVE  \A q \in Paths : IsShown(t, q) /\ StrictlyWithin(q, p) => Cut(u, NodeAt(t, q))
<1>0. p \in Paths /\ me = NodeAt(t, p) /\ LinkInv(t)
  BY DEF BoundTo, IsShown, TreeInv
<1>. DEFINE Holds(q) == IsShown(t, q) /\ StrictlyWithin(q, p) => Cut(u, NodeAt(t, q))
            G == {k \in Nat : \A q \in Paths : Len(q) = k => Holds(q)}
<1>1. 0 \in G
  BY PathsTypes
<1>2. ASSUME NEW k \in G PROVE k + 1 \in G
  <2>. SUFFICES ASSUME NEW q \in Paths, Len(q) = k + 1, IsShown(t, q), StrictlyWithin(q, p)
                PROVE  Cut(u, NodeAt(t, q))
    OBVIOUS
  <2>. DEFINE n == NodeAt(t, q)
              m == NodeAt(t, Parent(q))
  <2>1. Len(q) > 1 /\ Parent(q) \in Paths /\ (Parent(q) = p \/ StrictlyWithin(Parent(q), p))
    BY <1>0, StrictFacts
  <2>2. /\ n \in Objects(t) /\ IsShown(t, Parent(q)) /\ n \in t.nodes[m].subs
        /\ t.nodes[n].parent = m
    BY <2>1, ShownFacts
  <2>3. m \in Objects(t) /\ m # Null /\ getPath(t, m) = Parent(q)
    BY <2>2, ShownFacts
  <2>4. CASE Parent(q) = p
    <3>1. u.nodes[n].parent = Null /\ u.nodes[n].name = t.nodes[n].name
      BY <1>0, <2>2, <2>4
    <3>2. getPath(u, n) = <<u.nodes[n].name>>
      BY <2>2, <3>1, PathProperties
    <3>3. getPath(u, n)[1] # "bws"
      <4>1. n # dataRoot
        <5>1. t.nodes[dataRoot].parent = Null
          BY <1>0 DEF LinkInv
        <5>. QED BY <2>2, <2>3, <5>1
      <4>2. t.nodes[n].name # "bws"
        BY <1>0, <2>2, <4>1 DEF LinkInv
      <4>. QED BY <3>1, <3>2, <4>2
    <3>. QED BY <3>3 DEF Cut, Relative
  <2>5. CASE StrictlyWithin(Parent(q), p)
    <3>1. Cut(u, m)
      <4>1. Len(Parent(q)) = k
        <5>1. q \in Seq(Names) /\ Len(q) > 0
          BY PathsTypes
        <5>2. Len(Parent(q)) = Len(q) - 1
          BY <5>1, ParentElements
        <5>. QED BY <5>2
      <4>. QED BY <2>1, <2>2, <2>5, <4>1
    <3>2. m # me
      BY <1>0, <2>3, <2>5, BoundOnce, StrictFacts
    <3>3. n \notin t.nodes[me].subs
      <4>1. \A s \in t.nodes[me].subs : t.nodes[s].parent = me
        BY <1>0, BoundOnce DEF LinkInv
      <4>. QED BY <2>2, <3>2, <4>1
    <3>4. u.nodes[n].parent = m
      BY <2>2, <3>3
    <3>5. getPath(u, n)[1] = getPath(u, m)[1]
      <4>1. n \in Objects(u) /\ u.nodes[n].parent # Null /\ u.nodes[n].parent = m
        BY <2>2, <2>3, <3>4
      <4>. HIDE DEF n, m
      <4>. QED BY <4>1, PathProperties
    <3>. QED BY <3>1, <3>5 DEF Cut, Relative
  <2>. QED BY <2>1, <2>4, <2>5
<1>. HIDE DEF G
<1>3. G \in SUBSET Nat
  BY DEF G
<1>4. G = Nat
  BY <1>1, <1>2, <1>3, SetInduction
<1>. QED BY <1>4, PathsTypes DEF G
-------------------------------------------------------------------------------
(* Taking rows away.                                                       *)

\* A property of the empty set that is kept when the element that a fold takes
\* from a set comes back to it is one of the set.
LEMMA FoldInduction ==
    ASSUME NEW S, IsFiniteSet(S), NEW G, {} \in G,
           \A s \in SUBSET S : s # {} /\ s \ {Chosen(s)} \in G => s \in G
    PROVE  S \in G
<1>. DEFINE same == [s \in SUBSET S |-> s]
<1>1. same[{}] \in G /\ same[S] = S
  OBVIOUS
<1>2. \A s \in SUBSET S : s # {} /\ same[s \ {Chosen(s)}] \in G => same[s] \in G
  OBVIOUS
<1>. HIDE DEF same
<1>3. same[S] \in G
  BY <1>1, <1>2, FoldStays
<1>. QED BY <1>1, <1>3

\* What is in the row of p is gone, and me, its object, lists nothing.
Emptied(t, u, me, p) ==
    /\ TreeInv(u) /\ Keeps(t, u) /\ Objects(u) = Objects(t)
    /\ getPath(u, me) = p
    /\ \A q \in Paths : u.dom[q] = IF StrictlyWithin(q, p) THEN <<>> ELSE t.dom[q]
    /\ \A n \in Objects(t) :
          /\ u.nodes[n].name = t.nodes[n].name /\ u.nodes[n].info = t.nodes[n].info
          /\ u.nodes[n].subs = IF n = me THEN {} ELSE t.nodes[n].subs
          /\ u.nodes[n].parent = IF n \in t.nodes[me].subs THEN Null ELSE t.nodes[n].parent

\* One call of remove(), when sub has its row, at c.
Removed(t, u, me, sub, c) ==
    /\ \A n \in Objects(t) :
          /\ u.nodes[n].name = t.nodes[n].name /\ u.nodes[n].info = t.nodes[n].info
          /\ u.nodes[n].subs = IF n = me THEN t.nodes[n].subs \ {sub} ELSE t.nodes[n].subs
          /\ u.nodes[n].parent = IF n = sub THEN Null ELSE t.nodes[n].parent
    /\ \A q \in Paths : u.dom[q] = IF q = c THEN Tail(t.dom[q])
                                   ELSE IF Within(q, c) THEN <<>> ELSE t.dom[q]

LEMMA RemoveExact ==
    ASSUME NEW t \in Trees, NEW me \in Objects(t), NEW sub \in Objects(t), me # sub,
           NEW c \in Paths, c = getPath(t, sub), t.dom[c] # <<>>
    PROVE  Removed(t, remove(t, me, sub), me, sub, c)
<1>. DEFINE nodes == [t.nodes EXCEPT ![sub].parent = Null, ![me].subs = @ \ {sub}]
            u     == remove(t, me, sub)
<1>1. t.nodes \in [Objects(t) -> Nodes]
  BY TreeTypes
<1>2. IsShown(t, c)
  BY DEF IsShown
<1>3. u = [dom |-> RemoveRow(t.dom, c), nodes |-> nodes]
  BY <1>2 DEF remove
<1>4. \A n \in Objects(t) :
         /\ nodes[n].name = t.nodes[n].name /\ nodes[n].info = t.nodes[n].info
         /\ nodes[n].subs = IF n = me THEN t.nodes[n].subs \ {sub} ELSE t.nodes[n].subs
         /\ nodes[n].parent = IF n = sub THEN Null ELSE t.nodes[n].parent
  <2>1. \A n \in Objects(t) : t.nodes[n] \in Nodes
    BY <1>1
  <2>. QED BY <1>1, <2>1 DEF Nodes
<1>. HIDE DEF nodes, u
<1>5. u.dom = RemoveRow(t.dom, c) /\ u.nodes = nodes
  BY <1>3
<1>6. \A q \in Paths : u.dom[q] = IF q = c THEN Tail(t.dom[q])
                                  ELSE IF Within(q, c) THEN <<>> ELSE t.dom[q]
  BY <1>5 DEF RemoveRow
<1>. QED BY <1>4, <1>5, <1>6 DEF u, Removed

LEMMA RemoveAllExact ==
    ASSUME NEW t, TreeInv(t), PlainInv(t), NEW p, NEW me, BoundTo(t, me, p)
    PROVE  Emptied(t, removeAll(t, me), me, p)
<1>. DEFINE D == Objects(t)
            S == t.nodes[me].subs
<1>1. /\ t \in Trees /\ LinkInv(t) /\ RowsInv(t) /\ me = NodeAt(t, p) /\ p \in Paths
      /\ me \in D /\ me # Null /\ getPath(t, me) = p
  BY BoundOnce DEF TreeInv, BoundTo
<1>2. ASSUME NEW x \in S
      PROVE  LET c == getPath(t, x) IN
             /\ x \in D /\ x # me /\ t.nodes[x].parent = me /\ BoundTo(t, x, c) /\ c \in Paths
             /\ c = Append(p, t.nodes[x].name) /\ Len(c) = Len(p) + 1 /\ c \in Children(p)
             /\ t.dom[c] # <<>> /\ Tail(t.dom[c]) = <<>> /\ Within(c, c)
  <2>. DEFINE c == getPath(t, x)
  <2>1. /\ x \in D /\ t.nodes[x].parent = me /\ BoundTo(t, x, c) /\ c \in Paths
        /\ c = Append(p, t.nodes[x].name) /\ Len(c) = Len(p) + 1 /\ Parent(c) = p
    BY SubFacts
  <2>2. Len(p) \in Nat \ {0} /\ c \in Seq(Names)
    BY <1>1, <2>1, PathsTypes
  <2>3. x # me
    BY <1>1, <2>1, <2>2
  <2>4. Len(t.dom[c]) = 1 /\ t.dom[c] # <<>> /\ t.dom[c] \in Seq(Rows)
    <3>1. IsShown(t, c)
      BY <2>1 DEF BoundTo
    <3>. HIDE DEF c
    <3>. QED BY <1>1, <3>1, ShownFacts, RowListTypes
  <2>5. Tail(t.dom[c]) = <<>>
    <3>. DEFINE d == t.dom[c]
    <3>1. d \in Seq(Rows) /\ Len(d) = 1 /\ d # <<>>
      BY <2>4
    <3>. HIDE DEF d
    <3>2. Tail(d) \in Seq(Rows) /\ Len(Tail(d)) = Len(d) - 1
      BY <3>1
    <3>4. \A z \in Seq(Rows) : z # <<>> => Len(z) \in Nat \ {0}
      OBVIOUS
    <3>. DEFINE e == Tail(d)
    <3>5. e \in Seq(Rows) /\ Len(e) = 0
      BY <3>1, <3>2
    <3>. HIDE DEF e
    <3>6. e = <<>>
      BY <3>4, <3>5
    <3>. QED BY <3>6 DEF d, e
  <2>6. c \in Children(p)
    <3>1. Len(c) > 1
      BY <2>1, <2>2
    <3>. QED BY <1>1, <2>1, <3>1, ChildFacts
  <2>7. Within(c, c)
    BY <2>2, WithinElements
  <2>. QED BY <2>1, <2>3, <2>4, <2>5, <2>6, <2>7
<1>3. \A x, y \in S : getPath(t, x) = getPath(t, y) => x = y
  BY <1>2 DEF BoundTo
<1>4. IsFiniteSet(S) /\ \E iter : RemovesAll(iter, t, me)
  BY <1>1, RemoveAllSteps
<1>5. PICK iter :
        /\ iter[{}] = t /\ removeAll(t, me) = iter[S]
        /\ \A s \in SUBSET S :
              /\ KeepsRow(t, iter[s], me)
              /\ s # {} => iter[s] = remove(iter[s \ {Chosen(s)}], me, Chosen(s))
  BY <1>4 DEF RemovesAll
<1>. DEFINE In(s, q) == \E x \in s : Within(q, getPath(t, x))
            Ok(s, u) ==
              /\ \A n \in D : /\ u.nodes[n].name = t.nodes[n].name
                              /\ u.nodes[n].info = t.nodes[n].info
                              /\ u.nodes[n].subs = IF n = me THEN S \ s ELSE t.nodes[n].subs
                              /\ u.nodes[n].parent = IF n \in s THEN Null ELSE t.nodes[n].parent
              /\ \A q \in Paths : u.dom[q] = IF In(s, q) THEN <<>> ELSE t.dom[q]
            G == {s \in SUBSET S : Ok(s, iter[s])}
<1>. HIDE DEF S
<1>6. {} \in G
  BY <1>5 DEF S
<1>7. ASSUME NEW s \in SUBSET S, s # {}, s \ {Chosen(s)} \in G PROVE s \in G
  <2>. DEFINE x == Chosen(s)
              w == s \ {x}
              u == iter[w]
              v == iter[s]
              c == getPath(t, x)
  <2>1. x \in s /\ x \in S
    BY <1>7 DEF Chosen
  <2>2. Ok(w, u) /\ w \in SUBSET S
    BY <1>7
  <2>3. KeepsRow(t, u, me) /\ v = remove(u, me, x)
    BY <1>5, <1>7
  <2>. HIDE DEF x, u, v
  <2>4. /\ x \in D /\ x # me /\ t.nodes[x].parent = me /\ BoundTo(t, x, c) /\ c \in Paths
        /\ c = Append(p, t.nodes[x].name) /\ Len(c) = Len(p) + 1
        /\ t.dom[c] # <<>> /\ Tail(t.dom[c]) = <<>> /\ Within(c, c)
    BY <1>2, <2>1
  <2>5. /\ TreeInv(u) /\ u \in Trees /\ LinkInv(u) /\ Objects(u) = D
        /\ getPath(u, me) = p
    BY <1>1, <2>3 DEF KeepsRow, TreeInv
  <2>6. getPath(u, x) = c
    <3>1. u.nodes[x].parent = me /\ u.nodes[x].name = t.nodes[x].name
      BY <2>2, <2>4
    <3>2. x \in Objects(u) /\ u.nodes[x].parent # Null
      BY <1>1, <2>4, <2>5, <3>1
    <3>3. getPath(u, x) = Append(getPath(u, u.nodes[x].parent), u.nodes[x].name)
      BY <2>5, <3>2, PathProperties
    <3>. QED BY <2>4, <2>5, <3>1, <3>3
  <2>7. ~In(w, c)
    <3>. SUFFICES ASSUME NEW y \in w, Within(c, getPath(t, y)) PROVE FALSE
      OBVIOUS
    <3>1. y \in S /\ y # x
      BY <2>2
    <3>2. Len(getPath(t, y)) = Len(p) + 1 /\ getPath(t, y) \in Paths
      BY <1>2, <3>1
    <3>3. c = getPath(t, y)
      <4>1. c \in Seq(Names) /\ Len(c) \in Nat
        BY <2>4, PathsTypes
      <4>2. SubSeq(c, 1, Len(c)) = getPath(t, y)
        BY <2>4, <3>2 DEF Within
      <4>3. SubSeq(c, 1, Len(c)) = c
        <5>. HIDE DEF c
        <5>. QED BY <4>1
      <4>. QED BY <4>2, <4>3
    <3>. QED BY <1>3, <2>1, <3>1, <3>3
  <2>8. u.dom[c] = t.dom[c]
    BY <2>2, <2>4, <2>7
  <2>. HIDE DEF c
  <2>9. /\ \A n \in D :
             /\ v.nodes[n].name = u.nodes[n].name /\ v.nodes[n].info = u.nodes[n].info
             /\ v.nodes[n].subs = IF n = me THEN u.nodes[n].subs \ {x} ELSE u.nodes[n].subs
             /\ v.nodes[n].parent = IF n = x THEN Null ELSE u.nodes[n].parent
        /\ \A q \in Paths : v.dom[q] = IF q = c THEN Tail(u.dom[q])
                                       ELSE IF Within(q, c) THEN <<>> ELSE u.dom[q]
    <3>1. /\ u \in Trees /\ me \in Objects(u) /\ x \in Objects(u) /\ me # x /\ c \in Paths
          /\ c = getPath(u, x) /\ u.dom[c] # <<>> /\ v = remove(u, me, x) /\ Objects(u) = D
      BY <1>1, <2>3, <2>4, <2>5, <2>6, <2>8
    <3>. HIDE DEF Ok, In, D, w
    <3>2. Removed(u, v, me, x, c)
      BY <3>1, RemoveExact
    <3>. QED BY <3>1, <3>2 DEF Removed
  <2>10. \A q \in Paths : v.dom[q] = IF In(s, q) THEN <<>> ELSE t.dom[q]
    <3>. SUFFICES ASSUME NEW q \in Paths PROVE v.dom[q] = IF In(s, q) THEN <<>> ELSE t.dom[q]
      OBVIOUS
    <3>1. v.dom[q] = IF Within(q, c) THEN <<>> ELSE u.dom[q]
      BY <2>4, <2>8, <2>9
    <3>2. In(s, q) <=> Within(q, c) \/ In(w, q)
      BY <2>1 DEF c
    <3>3. u.dom[q] = IF In(w, q) THEN <<>> ELSE t.dom[q]
      BY <2>2
    <3>. HIDE DEF In
    <3>. QED BY <3>1, <3>2, <3>3
  <2>11. ASSUME NEW n \in D
         PROVE  /\ v.nodes[n].name = t.nodes[n].name
                /\ v.nodes[n].info = t.nodes[n].info
                /\ v.nodes[n].subs = IF n = me THEN S \ s ELSE t.nodes[n].subs
                /\ v.nodes[n].parent = IF n \in s THEN Null ELSE t.nodes[n].parent
    <3>1. /\ u.nodes[n].name = t.nodes[n].name /\ u.nodes[n].info = t.nodes[n].info
          /\ u.nodes[n].subs = IF n = me THEN S \ w ELSE t.nodes[n].subs
          /\ u.nodes[n].parent = IF n \in w THEN Null ELSE t.nodes[n].parent
      BY <2>2
    <3>. QED BY <2>1, <2>9, <3>1
  <2>. HIDE DEF In
  <2>. QED BY <2>10, <2>11 DEF v
<1>8. S \in G
  <2>. HIDE DEF G
  <2>. QED BY <1>4, <1>6, <1>7, FoldInduction
<1>. DEFINE u == iter[S]
<1>9. Ok(S, u) /\ KeepsRow(t, u, me)
  BY <1>5, <1>8
<1>. HIDE DEF u
<1>10. \A q \in Paths : u.dom[q] = IF StrictlyWithin(q, p) THEN <<>> ELSE t.dom[q]
  <2>. SUFFICES ASSUME NEW q \in Paths
                PROVE  u.dom[q] = IF StrictlyWithin(q, p) THEN <<>> ELSE t.dom[q]
    OBVIOUS
  <2>1. In(S, q) => StrictlyWithin(q, p)
    <3>. SUFFICES ASSUME NEW x \in S, Within(q, getPath(t, x)) PROVE StrictlyWithin(q, p)
      OBVIOUS
    <3>. DEFINE c == getPath(t, x)
    <3>1. c \in Paths /\ Len(c) = Len(p) + 1 /\ Within(c, p)
      BY <1>2 DEF S, Children
    <3>2. /\ p \in Seq(Names) /\ q \in Seq(Names) /\ c \in Seq(Names)
          /\ Len(p) \in Nat /\ Len(q) \in Nat /\ Len(c) \in Nat
      BY <1>1, <3>1, PathsTypes
    <3>. HIDE DEF c
    <3>3. Len(q) >= Len(c) /\ \A i \in 1 .. Len(c) : q[i] = c[i]
      BY <3>2, WithinElements DEF c
    <3>4. \A i \in 1 .. Len(p) : c[i] = p[i]
      BY <3>1, <3>2, WithinElements
    <3>5. Len(q) >= Len(p) /\ q # p /\ \A i \in 1 .. Len(p) : q[i] = p[i]
      BY <3>1, <3>2, <3>3, <3>4
    <3>. QED BY <3>2, <3>5, WithinElements DEF StrictlyWithin
  <2>2. StrictlyWithin(q, p) /\ t.dom[q] # <<>> => In(S, q)
    <3>. HAVE StrictlyWithin(q, p) /\ t.dom[q] # <<>>
    <3>1. PICK c \in Children(p) : IsShown(t, c) /\ Within(q, c)
      BY <1>1, ChildShown DEF IsShown
    <3>2. c \in Paths /\ Len(c) > 1 /\ Parent(c) = p
      BY <1>1, <3>1, ChildFacts DEF Children
    <3>3. NodeAt(t, c) \in S /\ getPath(t, NodeAt(t, c)) = c
      BY <1>1, <3>1, <3>2, ShownFacts DEF S
    <3>. QED BY <3>1, <3>3
  <2>3. u.dom[q] = IF In(S, q) THEN <<>> ELSE t.dom[q]
    BY <1>9
  <2>. HIDE DEF In
  <2>. QED BY <2>1, <2>2, <2>3
<1>11. \A n \in D :
          /\ u.nodes[n].name = t.nodes[n].name /\ u.nodes[n].info = t.nodes[n].info
          /\ u.nodes[n].subs = IF n = me THEN {} ELSE t.nodes[n].subs
          /\ u.nodes[n].parent = IF n \in S THEN Null ELSE t.nodes[n].parent
  BY <1>9
<1>. HIDE DEF Ok, G
<1>12. Emptied(t, u, me, p)
  BY <1>1, <1>9, <1>10, <1>11 DEF Emptied, KeepsRow, S
<1>. QED BY <1>5, <1>12 DEF u
\* The button and the value of a row.
LEMMA RowChange ==
    ASSUME NEW t \in Trees, NEW p, IsShown(t, p), NEW text \in Texts
    PROVE  LET u == SetText(t, p, text)
               v == SetRowInfo(t, p, text)
               row == t.dom[p][1]
           IN  /\ SameShape(t, u) /\ u.nodes = t.nodes
               /\ \A q \in Paths : q # p => u.dom[q] = t.dom[q]
               /\ u.dom[p][1].text = text /\ u.dom[p][1].info = row.info
               /\ SameShape(t, v) /\ v.nodes = t.nodes
               /\ \A q \in Paths : q # p => v.dom[q] = t.dom[q]
               /\ v.dom[p][1].info = text /\ v.dom[p][1].text = row.text
<1>1. p \in Paths /\ t.dom[p] # <<>>
  BY DEF IsShown
<1>. DEFINE row1 == [t.dom[p][1] EXCEPT !.text = text]
            row2 == [t.dom[p][1] EXCEPT !.info = text]
<1>2. t.dom[p][1] \in Rows
  BY <1>1, RowListTypes
<1>3. /\ row1 \in Rows /\ row1.node = t.dom[p][1].node /\ row1.handlers = t.dom[p][1].handlers
      /\ row1.text = text /\ row1.info = t.dom[p][1].info
      /\ row2 \in Rows /\ row2.node = t.dom[p][1].node /\ row2.handlers = t.dom[p][1].handlers
      /\ row2.info = text /\ row2.text = t.dom[p][1].text
  BY <1>2 DEF Rows
<1>4. SetText(t, p, text) = [t EXCEPT !.dom[p][1] = row1]
  BY DEF SetText
<1>5. SetRowInfo(t, p, text) = [t EXCEPT !.dom[p][1] = row2]
  BY DEF SetRowInfo
<1>. HIDE DEF row1, row2
<1>6. LET u == [t EXCEPT !.dom[p][1] = row1] IN
      /\ SameShape(t, u) /\ u.nodes = t.nodes /\ u.dom[p][1] = row1
      /\ \A q \in Paths : q # p => u.dom[q] = t.dom[q]
  BY <1>1, <1>3, RowChanged
<1>7. LET u == [t EXCEPT !.dom[p][1] = row2] IN
      /\ SameShape(t, u) /\ u.nodes = t.nodes /\ u.dom[p][1] = row2
      /\ \A q \in Paths : q # p => u.dom[q] = t.dom[q]
  BY <1>1, <1>3, RowChanged
<1>. QED BY <1>3, <1>4, <1>5, <1>6, <1>7

\* The object of a row has the path of the row.
LEMMA BoundPath ==
    ASSUME NEW t, TreeInv(t), NEW n, n # Null, NEW p, BoundTo(t, n, p)
    PROVE  n \in Objects(t) /\ getPath(t, n) = p
<1>1. p \in Paths /\ t.dom[p] # <<>> /\ t \in Trees /\ RowsInv(t) /\ t.dom[p][1].node = n
  BY DEF BoundTo, IsShown, TreeInv, NodeAt
<1>2. 1 \in 1 .. Len(t.dom[p])
  BY <1>1, RowListTypes
<1>. QED BY <1>1, <1>2 DEF RowsInv

\* The row of p shows the text on its button and nothing is inside it; other
\* rows are as before.
Redrawn(t, u, me, p, text) ==
    /\ TreeInv(u) /\ PlainInv(u) /\ Keeps(t, u) /\ Objects(u) = Objects(t)
    /\ BoundTo(u, me, p) /\ u.nodes[me].subs = {}
    /\ u.dom[p][1].text = text /\ u.dom[p][1].info = t.dom[p][1].info
    /\ \A q \in Paths : IF StrictlyWithin(q, p) THEN u.dom[q] = <<>>
                        ELSE q # p => u.dom[q] = t.dom[q]
    /\ \A n \in Objects(t) : Attached(t, n) => Attached(u, n)

LEMMA EmptiedRedrawn ==
    ASSUME NEW t, TreeInv(t), PlainInv(t), NEW p, NEW me, BoundTo(t, me, p),
           NEW u, Emptied(t, u, me, p), NEW text \in Texts
    PROVE  Redrawn(t, SetText(u, p, text), me, p, text)
<1>. DEFINE D == Objects(t)
            v == SetText(u, p, text)
<1>1. /\ t \in Trees /\ LinkInv(t) /\ me = NodeAt(t, p) /\ p \in Paths /\ t.dom[p] # <<>>
      /\ me \in D /\ me # Null /\ getPath(t, me) = p
  BY BoundOnce DEF TreeInv, BoundTo, IsShown
<1>2. /\ TreeInv(u) /\ u \in Trees /\ LinkInv(u) /\ Keeps(t, u) /\ Objects(u) = D
      /\ \A q \in Paths : u.dom[q] = IF StrictlyWithin(q, p) THEN <<>> ELSE t.dom[q]
      /\ \A n \in D :
            /\ u.nodes[n].name = t.nodes[n].name /\ u.nodes[n].info = t.nodes[n].info
            /\ u.nodes[n].subs = IF n = me THEN {} ELSE t.nodes[n].subs
            /\ u.nodes[n].parent = IF n \in t.nodes[me].subs THEN Null ELSE t.nodes[n].parent
  BY DEF Emptied, TreeInv
<1>3. ~StrictlyWithin(p, p) /\ u.dom[p] = t.dom[p] /\ IsShown(u, p)
  BY <1>1, <1>2, StrictFacts DEF IsShown
<1>4. /\ SameShape(u, v) /\ v.nodes = u.nodes
      /\ \A q \in Paths : q # p => v.dom[q] = u.dom[q]
      /\ v.dom[p][1].text = text /\ v.dom[p][1].info = u.dom[p][1].info
  BY <1>2, <1>3, RowChange
<1>. HIDE DEF v
<1>5. /\ TreeInv(v) /\ Keeps(u, v) /\ Objects(v) = D
      /\ \A n \in D : getPath(v, n) = getPath(u, n)
      /\ \A q \in Paths : v.dom[q] = <<>> <=> u.dom[q] = <<>>
  <2>1. /\ TreeInv(v) /\ Keeps(u, v)
        /\ \A n \in Objects(u) : getPath(v, n) = getPath(u, n)
        /\ \A q \in Paths : v.dom[q] = <<>> <=> u.dom[q] = <<>>
    <3>1. TreeInv(u) /\ SameShape(u, v)
      BY <1>2, <1>4
    <3>. QED BY <3>1, ShapeIsKept
  <2>2. Objects(v) = Objects(u)
    BY <1>4 DEF SameShape
  <2>. QED BY <1>2, <2>1, <2>2
<1>6. ASSUME NEW q, IsShown(t, q), ~StrictlyWithin(q, p)
      PROVE  /\ IsShown(v, q) /\ NodeAt(v, q) = NodeAt(t, q)
             /\ Len(v.dom[q]) = Len(t.dom[q])
             /\ v.dom[q][1].handlers = t.dom[q][1].handlers
             /\ v.dom[q][1].info = t.dom[q][1].info
  <2>1. q \in Paths /\ u.dom[q] = t.dom[q] /\ t.dom[q] # <<>>
    BY <1>2, <1>6 DEF IsShown
  <2>2. 1 \in 1 .. Len(u.dom[q])
    BY <1>2, <2>1, RowListTypes
  <2>3. /\ Len(v.dom[q]) = Len(u.dom[q]) /\ v.dom[q][1].node = u.dom[q][1].node
        /\ v.dom[q][1].handlers = u.dom[q][1].handlers
    BY <1>4, <2>1, <2>2 DEF SameShape
  <2>4. v.dom[q][1].info = u.dom[q][1].info
    BY <1>4, <2>1
  <2>. QED BY <1>5, <2>1, <2>3, <2>4 DEF IsShown, NodeAt
<1>7. ASSUME NEW q, IsShown(v, q) PROVE IsShown(t, q) /\ ~StrictlyWithin(q, p) /\ q \in Paths
  BY <1>2, <1>5, <1>7 DEF IsShown
<1>8. ASSUME NEW n, NEW q, BoundTo(t, n, q), ~StrictlyWithin(q, p)
      PROVE  BoundTo(v, n, q) /\ n \in D /\ getPath(v, n) = q
  <2>1. BoundTo(v, n, q) /\ n # Null /\ n \in D
    BY <1>6, <1>8, BoundOnce DEF BoundTo
  <2>. QED BY <1>5, <2>1, BoundPath
<1>9. ASSUME NEW q, IsShown(v, q) PROVE PlainRow(v, q)
  <2>. DEFINE n == NodeAt(t, q)
              m == NodeAt(t, Parent(q))
  <2>1. IsShown(t, q) /\ ~StrictlyWithin(q, p) /\ q \in Paths
    BY <1>7, <1>9
  <2>2. /\ n \in D /\ n # Null /\ PlainRow(t, q) /\ Len(t.dom[q]) = 1
        /\ Len(q) > 1 => Parent(q) \in Paths /\ IsShown(t, Parent(q)) /\ n \in t.nodes[m].subs
    BY <2>1, ShownFacts
  <2>3. NodeAt(v, q) = n /\ Len(v.dom[q]) = 1 /\ v.dom[q][1].handlers = 1
    BY <1>6, <2>1, <2>2 DEF PlainRow
  <2>4. canHaveValue(NameIn(q)) => v.dom[q][1].info = v.nodes[n].info
    BY <1>2, <1>4, <1>6, <2>1, <2>2 DEF PlainRow
  <2>5. ASSUME Len(q) > 1 PROVE n \in v.nodes[NodeAt(v, Parent(q))].subs
    <3>1. Parent(q) # p /\ ~StrictlyWithin(Parent(q), p)
      BY <1>1, <2>1, <2>5, StrictFacts
    <3>2. NodeAt(v, Parent(q)) = m
      BY <1>6, <2>2, <2>5, <3>1
    <3>3. m \in D /\ m # me
      <4>1. m \in D /\ getPath(t, m) = Parent(q)
        BY <2>2, <2>5, ShownFacts
      <4>. QED BY <1>1, <3>1, <4>1
    <3>. QED BY <1>2, <1>4, <2>2, <2>5, <3>2, <3>3
  <2>6. ASSUME NEW s \in v.nodes[n].subs PROVE BoundTo(v, s, getPath(v, s))
    <3>1. n # me /\ s \in t.nodes[n].subs
      BY <1>2, <1>4, <2>2, <2>6
    <3>. DEFINE c == getPath(t, s)
    <3>2. BoundTo(t, n, q)
      BY <2>1 DEF BoundTo
    <3>3. BoundTo(t, s, c) /\ c \in Paths /\ Parent(c) = q
      BY <3>1, <3>2, SubFacts
    <3>4. q # p
      BY <1>1, <3>1
    <3>5. ~StrictlyWithin(c, p)
      BY <1>1, <2>1, <3>3, <3>4, StrictFacts
    <3>. HIDE DEF c
    <3>. QED BY <1>8, <3>3, <3>5
  <2>. QED BY <2>2, <2>3, <2>4, <2>5, <2>6 DEF PlainRow
<1>10. PlainInv(v)
  <2>1. IsShown(t, Root) /\ Root \in Paths
    BY DEF PlainInv, IsShown
  <2>2. ~StrictlyWithin(Root, p)
    <3>1. Len(Root) = 1 /\ Len(p) \in Nat \ {0}
      BY <1>1, PathsTypes DEF Root
    <3>2. StrictlyWithin(Root, p) => Len(Root) > Len(p)
      BY <1>1, <2>1, StrictFacts
    <3>. QED BY <3>1, <3>2
  <2>3. IsShown(v, Root)
    BY <1>6, <2>1, <2>2
  <2>. QED BY <1>9, <2>3 DEF PlainInv
<1>11. ASSUME NEW n \in D, Attached(t, n) PROVE Attached(v, n)
  <2>. DEFINE q == getPath(t, n)
  <2>1. CASE Cut(t, n)
    BY <1>2, <1>5, <2>1 DEF Keeps, Cut, Relative, Attached
  <2>2. CASE BoundTo(t, n, q) /\ StrictlyWithin(q, p)
    <3>1. \A x \in Paths : IsShown(t, x) /\ StrictlyWithin(x, p) => Cut(u, NodeAt(t, x))
      BY <1>2, CutBelow
    <3>2. Cut(u, n)
      BY <2>2, <3>1 DEF BoundTo, IsShown
    <3>. QED BY <1>5, <3>2 DEF Cut, Attached
  <2>3. CASE BoundTo(t, n, q) /\ ~StrictlyWithin(q, p)
    BY <1>8, <2>3 DEF Attached
  <2>. QED BY <1>11, <2>1, <2>2, <2>3 DEF Attached
<1>12. BoundTo(v, me, p) /\ v.nodes[me].subs = {}
  BY <1>1, <1>2, <1>3, <1>4, <1>8
<1>13. Keeps(t, v)
  BY <1>2, <1>5, KeepsIsTransitive
<1>14. v.dom[p][1].text = text /\ v.dom[p][1].info = t.dom[p][1].info
  BY <1>3, <1>4
<1>15. \A q \in Paths : IF StrictlyWithin(q, p) THEN v.dom[q] = <<>>
                        ELSE q # p => v.dom[q] = t.dom[q]
  BY <1>1, <1>2, <1>3, <1>4
<1>. QED BY <1>5, <1>10, <1>11, <1>12, <1>13, <1>14, <1>15 DEF Redrawn, v

LEMMA RedrawnTwice ==
    ASSUME NEW t, NEW u, NEW v, NEW me, NEW p, NEW a, NEW b,
           Redrawn(t, u, me, p, a), Redrawn(u, v, me, p, b)
    PROVE  Redrawn(t, v, me, p, b)
<1>1. Keeps(t, v)
  BY KeepsIsTransitive DEF Redrawn
<1>2. \A q \in Paths : IF StrictlyWithin(q, p) THEN v.dom[q] = <<>>
                       ELSE q # p => v.dom[q] = t.dom[q]
  BY DEF Redrawn
<1>. QED BY <1>1, <1>2 DEF Redrawn

\* An object that lists nothing has nothing in its row.
LEMMA EmptyIsEmptied ==
    ASSUME NEW t, TreeInv(t), PlainInv(t), NEW p, NEW me, BoundTo(t, me, p),
           t.nodes[me].subs = {}
    PROVE  Emptied(t, t, me, p)
<1>1. \A q \in Paths : StrictlyWithin(q, p) => t.dom[q] = <<>>
  BY NothingBelow DEF IsShown
<1>2. getPath(t, me) = p /\ Keeps(t, t)
  BY BoundOnce, KeepsItself
<1>. QED BY <1>1, <1>2 DEF Emptied

LEMMA OpenedRedrawn ==
    ASSUME NEW t, TreeInv(t), PlainInv(t), NEW p, NEW me, BoundTo(t, me, p),
           t.nodes[me].subs = {}
    PROVE  Redrawn(t, Opened(t, me), me, p, "-") /\ List(t, me) = SetToBag({Ask("list", p, me)})
<1>1. getPath(t, me) = p
  BY BoundOnce
<1>2. "-" \in Texts
  BY DEF Texts
<1>3. Redrawn(t, SetText(t, p, "-"), me, p, "-")
  BY <1>2, EmptyIsEmptied, EmptiedRedrawn
<1>. QED BY <1>1, <1>3 DEF Opened, List

LEMMA CollapseRedrawn ==
    ASSUME NEW t, TreeInv(t), PlainInv(t), NEW p, NEW me, BoundTo(t, me, p)
    PROVE  Redrawn(t, collapse(t, me), me, p, "+")
<1>1. getPath(t, me) = p
  BY BoundOnce
<1>2. "+" \in Texts
  BY DEF Texts
<1>3. Redrawn(t, SetText(removeAll(t, me), p, "+"), me, p, "+")
  BY <1>2, RemoveAllExact, EmptiedRedrawn
<1>. QED BY <1>1, <1>3 DEF collapse

LEMMA RefreshRedrawn ==
    ASSUME NEW t, TreeInv(t), PlainInv(t), NEW p, NEW me, BoundTo(t, me, p)
    PROVE  /\ Redrawn(t, refresh(t, me).tree, me, p, "-")
           /\ refresh(t, me).requests = SetToBag({Ask("list", p, me)})
<1>. DEFINE u == collapse(t, me)
            v == Opened(u, me)
<1>1. Redrawn(t, u, me, p, "+")
  BY CollapseRedrawn
<1>. HIDE DEF u
<1>2. TreeInv(u) /\ PlainInv(u) /\ BoundTo(u, me, p) /\ u.nodes[me].subs = {}
  BY <1>1 DEF Redrawn
<1>3. Redrawn(u, v, me, p, "-") /\ List(u, me) = SetToBag({Ask("list", p, me)})
  BY <1>2, OpenedRedrawn
<1>. HIDE DEF v
<1>4. Redrawn(t, v, me, p, "-")
  BY <1>1, <1>3, RedrawnTwice
<1>5. refresh(t, me) = [tree |-> v, requests |-> List(u, me)]
  BY DEF refresh, expand, u, v
<1>. QED BY <1>3, <1>4, <1>5
-------------------------------------------------------------------------------
(* Adding rows.                                                            *)

\* Nothing of t is gone or changed.
Grown(t, u) ==
    /\ TreeInv(u) /\ PlainInv(u) /\ Objects(t) \subseteq Objects(u)
    /\ \A n \in Objects(t) : getPath(u, n) = getPath(t, n)
    /\ \A q \in Paths : t.dom[q] # <<>> => u.dom[q] = t.dom[q]

LEMMA GrownKeeps ==
    ASSUME NEW t, TreeInv(t), NEW u, Grown(t, u)
    PROVE  /\ \A n, q : BoundTo(t, n, q) => BoundTo(u, n, q)
           /\ \A n \in Objects(t) : Attached(t, n) => Attached(u, n)
<1>1. \A n, q : BoundTo(t, n, q) => BoundTo(u, n, q)
  BY DEF Grown, BoundTo, IsShown, NodeAt
<1>2. \A n \in Objects(t) : Attached(t, n) => Attached(u, n)
  BY <1>1 DEF Attached, Cut, Grown
<1>. QED BY <1>1, <1>2

LEMMA FirstRow ==
    ASSUME NEW sub \in Nat, NEW info \in Texts
    PROVE  LET e == Bound(<<>>, sub, info) IN
           /\ Len(e) = 1 /\ e # <<>> /\ e[1].node = sub /\ e[1].handlers = 1
           /\ e[1].info = info /\ e[1].text = "+"
<1>. DEFINE row == NewRow(info)
            h   == row.handlers + 1
            one == [row EXCEPT !.node = sub, !.handlers = h]
<1>1. row \in Rows /\ row.info = info /\ row.text = "+" /\ h = 1
  BY DEF NewRow, Rows, Texts, Null
<1>2. Bound(<<>>, sub, info) = [Append(<<>>, row) EXCEPT ![1].node = sub, ![1].handlers = @ + 1]
  BY DEF Bound
<1>. HIDE DEF row
<1>3. Append(<<>>, row) = <<row>>
  OBVIOUS
<1>4. [<<row>> EXCEPT ![1].node = sub, ![1].handlers = @ + 1] = <<one>>
  OBVIOUS
<1>. HIDE DEF h
<1>5. one.node = sub /\ one.handlers = 1 /\ one.info = info /\ one.text = "+"
  BY <1>1 DEF Rows
<1>. HIDE DEF one
<1>6. Bound(<<>>, sub, info) = <<one>>
  BY <1>2, <1>3, <1>4
<1>7. Bound(<<>>, sub, info)[1] = one /\ Len(Bound(<<>>, sub, info)) = 1
      /\ Bound(<<>>, sub, info) # <<>>
  BY <1>6
<1>. QED BY <1>5, <1>7

\* A row more, inside the one of p, bound to a new object.
GrownBy(t, u, me, p, name, info) ==
    LET c == Append(p, name) IN
    /\ Grown(t, u) /\ c \in Paths /\ BoundTo(u, Fresh(t), c)
    /\ \A q \in Paths : q # c => u.dom[q] = t.dom[q]
    /\ u.dom[c][1].text = "+" /\ u.dom[c][1].info = info
    /\ Fresh(t) \in u.nodes[me].subs /\ u.nodes[Fresh(t)].name = name

LEMMA AddGrows ==
    ASSUME NEW t, TreeInv(t), PlainInv(t), NEW me, NEW p, BoundTo(t, me, p),
           NEW name \in Names \ {"bws"}, Append(p, name) \in Paths,
           t.dom[Append(p, name)] = <<>>,
           NEW data, data.info \in Texts, data.writable \in Texts
    PROVE  GrownBy(t, add(t, me, name, data), me, p, name, data.info)
<1>. DEFINE D   == Objects(t)
            sub == Fresh(t)
            c   == Append(p, name)
            info == data.info
            u   == add(t, me, name, data)
<1>1. /\ t \in Trees /\ LinkInv(t) /\ me = NodeAt(t, p) /\ p \in Paths /\ IsShown(t, p)
      /\ me \in D /\ me # Null /\ getPath(t, me) = p
  BY BoundOnce DEF TreeInv, BoundTo, IsShown
<1>2. Added(t, u, me, name, info)
  BY <1>1, AddProperties, AddIsExact
<1>3. Parent(c) = p /\ Len(c) > 1 /\ Len(c) = Len(p) + 1 /\ NameIn(c) = name
  <2>1. p \in Seq(Names) /\ Len(p) \in Nat \ {0}
    BY <1>1, PathsTypes
  <2>2. Parent(c) = p /\ Len(c) = Len(p) + 1 /\ c[Len(p) + 1] = name
    BY <2>1, AppendedName
  <2>. QED BY <2>1, <2>2 DEF NameIn
<1>. HIDE DEF u, sub, info
<1>4. c \in Paths /\ t.dom[c] = <<>>
  OBVIOUS
<1>. HIDE DEF c
<1>5. /\ TreeInv(u) /\ u \in Trees /\ LinkInv(u) /\ Objects(u) = D \cup {sub}
      /\ sub \in Nat \ {Null} /\ sub \notin D
      /\ getPath(u, sub) = c /\ \A n \in D : getPath(u, n) = getPath(t, n)
      /\ u.nodes[sub].name = name /\ u.nodes[sub].info = info /\ u.nodes[sub].subs = {}
      /\ \A n \in D :
            /\ u.nodes[n].name = t.nodes[n].name /\ u.nodes[n].info = t.nodes[n].info
            /\ u.nodes[n].subs = IF n = me
                                 THEN {s \in t.nodes[n].subs : t.nodes[s].name # name} \cup {sub}
                                 ELSE t.nodes[n].subs
      /\ \A q \in Paths :
            u.dom[q] = IF ~(c \notin Paths \/ ~IsShown(t, Parent(c))) /\ q = c
                       THEN Bound(t.dom[q], sub, info) ELSE t.dom[q]
  BY <1>1, <1>2 DEF Added, sub, c, TreeInv
<1>6. \A q \in Paths : u.dom[q] = IF q = c THEN Bound(<<>>, sub, info) ELSE t.dom[q]
  BY <1>1, <1>3, <1>4, <1>5
<1>7. info \in Texts
  BY DEF info
<1>8. /\ Len(u.dom[c]) = 1 /\ u.dom[c] # <<>> /\ u.dom[c][1].node = sub
      /\ u.dom[c][1].handlers = 1 /\ u.dom[c][1].info = info /\ u.dom[c][1].text = "+"
  BY <1>4, <1>5, <1>6, <1>7, FirstRow
<1>9. \A q \in Paths : q # c => u.dom[q] = t.dom[q]
  BY <1>6
<1>10. \A n, q : BoundTo(t, n, q) => BoundTo(u, n, q)
  BY <1>4, <1>9 DEF BoundTo, IsShown, NodeAt
<1>11. BoundTo(u, sub, c)
  BY <1>4, <1>8 DEF BoundTo, IsShown, NodeAt
<1>12. u.nodes[me].subs = t.nodes[me].subs \cup {sub}
  <2>1. ASSUME NEW s \in t.nodes[me].subs PROVE t.nodes[s].name # name
    <3>1. BoundTo(t, s, getPath(t, s)) /\ getPath(t, s) = Append(p, t.nodes[s].name)
      BY SubFacts
    <3>2. getPath(t, s) # c
      BY <1>4, <3>1 DEF BoundTo, IsShown
    <3>. QED BY <3>1, <3>2 DEF c
  <2>2. {s \in t.nodes[me].subs : t.nodes[s].name # name} = t.nodes[me].subs
    BY <2>1
  <2>. QED BY <1>1, <1>5, <2>2
<1>13. ASSUME NEW q, IsShown(u, q), q # c PROVE PlainRow(u, q)
  <2>. DEFINE n == NodeAt(t, q)
              m == NodeAt(t, Parent(q))
  <2>1. q \in Paths /\ IsShown(t, q) /\ u.dom[q] = t.dom[q]
    BY <1>9, <1>13 DEF IsShown
  <2>2. /\ n \in D /\ n # Null /\ PlainRow(t, q) /\ Len(t.dom[q]) = 1
        /\ Len(q) > 1 => Parent(q) \in Paths /\ IsShown(t, Parent(q)) /\ n \in t.nodes[m].subs
    BY <2>1, ShownFacts
  <2>3. NodeAt(u, q) = n /\ Len(u.dom[q]) = 1 /\ u.dom[q][1].handlers = 1
        /\ u.dom[q][1].info = t.dom[q][1].info
    BY <2>1, <2>2 DEF PlainRow, NodeAt
  <2>4. canHaveValue(NameIn(q)) => u.dom[q][1].info = u.nodes[n].info
    BY <1>5, <2>2, <2>3 DEF PlainRow
  <2>5. ASSUME Len(q) > 1 PROVE n \in u.nodes[NodeAt(u, Parent(q))].subs
    <3>1. Parent(q) # c
      BY <1>4, <2>2, <2>5 DEF IsShown
    <3>2. NodeAt(u, Parent(q)) = m
      BY <1>9, <2>2, <2>5, <3>1 DEF NodeAt
    <3>3. m \in D
      BY <2>2, <2>5, ShownFacts
    <3>4. t.nodes[m].subs \subseteq u.nodes[m].subs
      BY <1>1, <1>5, <1>12, <3>3
    <3>. QED BY <2>2, <2>5, <3>2, <3>4
  <2>6. ASSUME NEW s \in u.nodes[n].subs PROVE BoundTo(u, s, getPath(u, s))
    <3>1. CASE s = sub
      BY <1>5, <1>11, <3>1
    <3>2. CASE s # sub
      <4>1. s \in t.nodes[n].subs
        BY <1>5, <1>12, <2>2, <2>6, <3>2
      <4>2. BoundTo(t, n, q)
        BY <2>1 DEF BoundTo
      <4>3. BoundTo(t, s, getPath(t, s)) /\ s \in D
        BY <4>1, <4>2, SubFacts
      <4>. QED BY <1>5, <1>10, <4>3
    <3>. QED BY <3>1, <3>2
  <2>. QED BY <2>2, <2>3, <2>4, <2>5, <2>6 DEF PlainRow
<1>14. PlainRow(u, c)
  <2>1. NodeAt(u, c) = sub
    BY <1>8 DEF NodeAt
  <2>2. NodeAt(u, Parent(c)) = me
    <3>1. BoundTo(u, me, p)
      BY <1>10
    <3>. QED BY <1>3, <3>1 DEF BoundTo
  <2>. QED BY <1>5, <1>8, <1>12, <2>1, <2>2 DEF PlainRow
<1>15. PlainInv(u)
  <2>1. IsShown(u, Root)
    <3>1. BoundTo(u, dataRoot, Root)
      BY <1>10, RootBound
    <3>. QED BY <3>1 DEF BoundTo
  <2>. QED BY <1>13, <1>14, <2>1 DEF PlainInv
<1>16. Grown(t, u)
  <2>1. \A q \in Paths : t.dom[q] # <<>> => u.dom[q] = t.dom[q]
    BY <1>4, <1>9
  <2>. QED BY <1>5, <1>15, <2>1 DEF Grown
<1>17. GrownBy(t, u, me, p, name, info)
  BY <1>4, <1>5, <1>8, <1>9, <1>11, <1>12, <1>16 DEF GrownBy, sub, c
<1>. QED BY <1>17 DEF u, info
\* A row more for each of S.
FilledBy(t, u, me, p, S) ==
    /\ Grown(t, u)
    /\ \A q \in Paths : (\A m \in S : q # Append(p, m.name)) => u.dom[q] = t.dom[q]
    /\ \A m \in S : LET c == Append(p, m.name) IN
          u.dom[c] # <<>> /\ u.dom[c][1].text = "+" /\ u.dom[c][1].info = m.info

LEMMA FilledIsExact ==
    ASSUME NEW t, TreeInv(t), PlainInv(t), NEW me, NEW p, BoundTo(t, me, p),
           NEW S \in SUBSET Listed, IsFiniteSet(S),
           \A m \in S : Append(p, m.name) \in Paths /\ t.dom[Append(p, m.name)] = <<>>,
           \A m, n \in S : m.name = n.name => m = n
    PROVE  FilledBy(t, Filled(t, me, S), me, p, S)
<1>1. me \in Objects(t) /\ p \in Seq(Names)
  BY BoundOnce, PathsTypes
<1>2. PICK iter : FillsAll(iter, t, me, S)
  BY <1>1, FilledSteps
<1>. DEFINE c(m) == Append(p, m.name)
            G == {s \in SUBSET S : FilledBy(t, iter[s], me, p, s)}
<1>3. \A m \in S : /\ m.name \in Names \ {"bws"} /\ m.info \in Texts /\ m.writable \in Texts
                   /\ c(m) \in Paths /\ t.dom[c(m)] = <<>>
  BY DEF Listed
<1>4. \A m, n \in S : c(m) = c(n) => m = n
  <2>. SUFFICES ASSUME NEW m \in S, NEW n \in S, c(m) = c(n) PROVE m.name = n.name
    OBVIOUS
  <2>1. c(m)[Len(p) + 1] = m.name
    BY <1>1, <1>3, AppendedName
  <2>2. c(n)[Len(p) + 1] = n.name
    BY <1>1, <1>3, AppendedName
  <2>. QED BY <2>1, <2>2
<1>5. {} \in G
  <2>1. iter[{}] = t
    BY <1>2 DEF FillsAll
  <2>2. Grown(t, t)
    BY DEF Grown
  <2>. QED BY <2>1, <2>2 DEF FilledBy
<1>6. ASSUME NEW s \in SUBSET S, s # {}, s \ {Chosen(s)} \in G PROVE s \in G
  <2>. DEFINE x == Chosen(s)
              w == s \ {x}
              u == iter[w]
              v == iter[s]
              d == c(x)
              name == x.name
              info == x.info
  <2>1. x \in s /\ x \in S
    BY <1>6 DEF Chosen
  <2>2. FilledBy(t, u, me, p, w)
    BY <1>6
  <2>3. v = add(u, me, name, x)
    BY <1>2, <1>6 DEF FillsAll
  <2>. HIDE DEF x, u, v
  <2>4. TreeInv(u) /\ PlainInv(u) /\ BoundTo(u, me, p)
    BY <2>2, GrownKeeps DEF FilledBy, Grown
  <2>5. name \in Names \ {"bws"} /\ x.info \in Texts /\ x.writable \in Texts /\ d \in Paths
    BY <1>3, <2>1
  <2>6. u.dom[d] = <<>>
    <3>1. \A m \in w : d # c(m)
      BY <1>4, <2>1
    <3>. HIDE DEF d
    <3>2. u.dom[d] = t.dom[d]
      BY <2>2, <2>5, <3>1 DEF FilledBy
    <3>. QED BY <1>3, <2>1, <3>2 DEF d
  <2>. HIDE DEF name
  <2>7. d = Append(p, name)
    BY DEF name
  <2>. HIDE DEF d
  <2>8. GrownBy(u, add(u, me, name, x), me, p, name, x.info)
    BY <2>4, <2>5, <2>6, <2>7, AddGrows
  <2>9. /\ Grown(u, v) /\ BoundTo(v, Fresh(u), d)
        /\ \A q \in Paths : q # d => v.dom[q] = u.dom[q]
        /\ v.dom[d][1].text = "+" /\ v.dom[d][1].info = info
    BY <2>3, <2>7, <2>8 DEF GrownBy
  <2>10. Grown(t, v)
    <3>1. Grown(t, u)
      BY <2>2 DEF FilledBy
    <3>. QED BY <2>9, <3>1 DEF Grown
  <2>11. ASSUME NEW q \in Paths, \A m \in s : q # c(m) PROVE v.dom[q] = t.dom[q]
    <3>1. q # d
      BY <2>1, <2>11 DEF d
    <3>2. u.dom[q] = t.dom[q]
      BY <2>2, <2>11 DEF FilledBy
    <3>. QED BY <2>9, <3>1, <3>2
  <2>12. ASSUME NEW m \in s
         PROVE  v.dom[c(m)] # <<>> /\ v.dom[c(m)][1].text = "+" /\ v.dom[c(m)][1].info = m.info
    <3>1. CASE m = x
      <4>1. v.dom[d] # <<>>
        BY <2>9 DEF BoundTo, IsShown
      <4>. QED BY <2>9, <3>1, <4>1 DEF d
    <3>2. CASE m # x
      <4>. DEFINE z == c(m)
      <4>1. m \in w /\ m \in S /\ z \in Paths
        BY <1>3, <3>2
      <4>2. z # d
        BY <1>4, <2>1, <3>2, <4>1 DEF d
      <4>3. u.dom[z] # <<>> /\ u.dom[z][1].text = "+" /\ u.dom[z][1].info = m.info
        BY <2>2, <4>1 DEF FilledBy
      <4>. HIDE DEF z
      <4>4. v.dom[z] = u.dom[z]
        BY <2>9, <4>1, <4>2
      <4>5. v.dom[z] # <<>> /\ v.dom[z][1].text = "+" /\ v.dom[z][1].info = m.info
        BY <4>3, <4>4
      <4>. QED BY <4>5 DEF z
    <3>. QED BY <3>1, <3>2
  <2>. QED BY <2>10, <2>11, <2>12 DEF FilledBy, v
<1>. HIDE DEF G
<1>7. S \in G
  BY <1>5, <1>6, FoldInduction
<1>8. Filled(t, me, S) = iter[S]
  BY <1>2 DEF FillsAll
<1>. QED BY <1>7, <1>8 DEF G

\* The object n, with its row at p, knows something new.
InformedBy(t, u, n, p, info) ==
    /\ TreeInv(u) /\ PlainInv(u) /\ Objects(u) = Objects(t)
    /\ \A m \in Objects(t) : getPath(u, m) = getPath(t, m) /\ u.nodes[m].subs = t.nodes[m].subs
    /\ \A q \in Paths : /\ q # p => u.dom[q] = t.dom[q]
                        /\ u.dom[q] = <<>> <=> t.dom[q] = <<>>
    /\ \A m, q : BoundTo(u, m, q) <=> BoundTo(t, m, q)
    /\ u.dom[p][1].text = t.dom[p][1].text
    /\ canHaveValue(NameIn(p)) =>
          u.dom[p][1].info = IF info = NoInfo THEN t.dom[p][1].info ELSE info

LEMMA InformedIsExact ==
    ASSUME NEW t, TreeInv(t), PlainInv(t), NEW n, NEW p, BoundTo(t, n, p),
           NEW data, data.info \in Texts, data.writable \in Texts
    PROVE  InformedBy(t, Informed(t, n, data), n, p, data.info)
<1>. DEFINE D == Objects(t)
            known == IF data.info = NoInfo THEN t.nodes[n].info ELSE data.info
            u == setInfoFrom(t, n, data)
            v == SetRowInfo(u, p, known)
<1>1. /\ t \in Trees /\ n = NodeAt(t, p) /\ p \in Paths /\ IsShown(t, p)
      /\ n \in D /\ n # Null /\ getPath(t, n) = p
  BY BoundOnce DEF TreeInv, BoundTo, IsShown
<1>2. /\ SameShape(t, u) /\ u.dom = t.dom /\ u.nodes[n].info = known
      /\ \A m \in D : m # n => u.nodes[m] = t.nodes[m]
  BY <1>1, InfoShape
<1>3. known \in Texts
  <2>1. t.nodes[n] \in Nodes
    BY <1>1, TreeTypes
  <2>. QED BY <2>1 DEF Nodes
<1>. HIDE DEF u, known
<1>4. getPath(u, n) = p /\ u \in Trees /\ IsShown(u, p)
  <2>1. \A m \in D : getPath(u, m) = getPath(t, m)
    BY <1>2, ShapeIsKept
  <2>2. u \in Trees
    BY <1>2 DEF SameShape
  <2>. QED BY <1>1, <1>2, <2>1, <2>2 DEF IsShown
<1>5. Informed(t, n, data) = v
  BY <1>2, <1>4 DEF Informed, u
<1>6. /\ SameShape(u, v) /\ v.nodes = u.nodes
      /\ \A q \in Paths : q # p => v.dom[q] = u.dom[q]
      /\ v.dom[p][1].info = known /\ v.dom[p][1].text = u.dom[p][1].text
  BY <1>3, <1>4, RowChange
<1>. HIDE DEF v
<1>7. SameShape(t, v)
  BY <1>2, <1>6, SameShapeTransitive
<1>8. /\ TreeInv(v) /\ \A m \in D : getPath(v, m) = getPath(t, m)
      /\ \A q \in Paths : v.dom[q] = <<>> <=> t.dom[q] = <<>>
  BY <1>7, ShapeIsKept
<1>9. /\ v \in Trees /\ Objects(v) = D
      /\ \A m \in D : v.nodes[m].subs = t.nodes[m].subs
      /\ \A q \in Paths : /\ Len(v.dom[q]) = Len(t.dom[q])
                          /\ \A i \in 1 .. Len(t.dom[q]) :
                                /\ v.dom[q][i].node = t.dom[q][i].node
                                /\ v.dom[q][i].handlers = t.dom[q][i].handlers
  BY <1>7 DEF SameShape
<1>10. ASSUME NEW q, IsShown(t, q) \/ IsShown(v, q)
       PROVE  /\ q \in Paths /\ IsShown(t, q) /\ IsShown(v, q) /\ NodeAt(v, q) = NodeAt(t, q)
              /\ v.dom[q][1].handlers = t.dom[q][1].handlers
  <2>1. q \in Paths /\ t.dom[q] # <<>> /\ v.dom[q] # <<>>
    BY <1>8, <1>10 DEF IsShown
  <2>2. 1 \in 1 .. Len(t.dom[q])
    BY <1>1, <2>1, RowListTypes
  <2>. QED BY <1>9, <2>1, <2>2 DEF IsShown, NodeAt
<1>11. \A m, q : BoundTo(v, m, q) <=> BoundTo(t, m, q)
  BY <1>10 DEF BoundTo
<1>12. ASSUME NEW q, IsShown(v, q) PROVE PlainRow(v, q)
  <2>. DEFINE m == NodeAt(t, q)
  <2>1. /\ q \in Paths /\ IsShown(t, q) /\ NodeAt(v, q) = m
        /\ v.dom[q][1].handlers = t.dom[q][1].handlers
    BY <1>10, <1>12
  <2>2. /\ m \in D /\ m # Null /\ PlainRow(t, q) /\ getPath(t, m) = q
        /\ Len(q) > 1 => Parent(q) \in Paths /\ IsShown(t, Parent(q))
    BY <2>1, ShownFacts
  <2>3. canHaveValue(NameIn(q)) => v.dom[q][1].info = v.nodes[m].info
    <3>1. CASE q = p
      BY <1>1, <1>2, <1>6, <3>1
    <3>2. CASE q # p
      <4>1. m # n
        BY <1>1, <2>2, <3>2
      <4>2. v.dom[q] = t.dom[q] /\ v.nodes[m] = t.nodes[m]
        BY <1>2, <1>6, <2>1, <2>2, <3>2, <4>1
      <4>. QED BY <2>2, <4>2 DEF PlainRow
    <3>. QED BY <3>1, <3>2
  <2>4. ASSUME Len(q) > 1 PROVE m \in v.nodes[NodeAt(v, Parent(q))].subs
    <3>. DEFINE a == NodeAt(t, Parent(q))
    <3>1. NodeAt(v, Parent(q)) = a
      BY <1>10, <2>2, <2>4
    <3>2. a \in D
      BY <2>2, <2>4, ShownFacts
    <3>3. m \in t.nodes[a].subs
      BY <2>2, <2>4 DEF PlainRow
    <3>. QED BY <1>9, <3>1, <3>2, <3>3
  <2>5. ASSUME NEW s \in v.nodes[m].subs PROVE BoundTo(v, s, getPath(v, s))
    <3>1. s \in t.nodes[m].subs /\ BoundTo(t, m, q)
      BY <1>9, <2>1, <2>2, <2>5 DEF BoundTo
    <3>2. s \in D /\ BoundTo(t, s, getPath(t, s))
      BY <3>1, SubFacts
    <3>. QED BY <1>8, <1>11, <3>2
  <2>. QED BY <1>9, <2>1, <2>2, <2>3, <2>4, <2>5 DEF PlainRow
<1>13. PlainInv(v)
  <2>1. IsShown(t, Root)
    BY DEF PlainInv
  <2>. QED BY <1>10, <1>12, <2>1 DEF PlainInv
<1>14. canHaveValue(NameIn(p)) =>
          v.dom[p][1].info = IF data.info = NoInfo THEN t.dom[p][1].info ELSE data.info
  <2>1. canHaveValue(NameIn(p)) => t.dom[p][1].info = t.nodes[n].info
    BY <1>1, ShownFacts DEF PlainRow
  <2>. QED BY <1>6, <2>1 DEF known
<1>15. v.dom[p][1].text = t.dom[p][1].text /\ \A q \in Paths : q # p => v.dom[q] = t.dom[q]
  BY <1>2, <1>6
<1>16. InformedBy(t, v, n, p, data.info)
  BY <1>8, <1>9, <1>11, <1>13, <1>14, <1>15 DEF InformedBy
<1>. QED BY <1>5, <1>16

\* The handler of a row that was bound once runs once.
LEMMA HandledOnce ==
    ASSUME NEW t, NEW p, t.dom[p][1].handlers = 1
    PROVE  Handled(t, p) = Toggled([tree |-> t, requests |-> EmptyBag], p)
<1>. DEFINE base == [tree |-> t, requests |-> EmptyBag]
            h == t.dom[p][1].handlers
            Steps(f) == [i \in 0 .. h |-> IF i = 0 THEN base ELSE Toggled(f[i - 1], p)]
            s == CHOOSE f : f = Steps(f)
            one == [i \in 0 .. h |-> IF i = 0 THEN base ELSE Toggled(base, p)]
<1>1. Handled(t, p) = s[h]
  BY Zenon DEF Handled
<1>. HIDE DEF base
<1>2. h = 1
  OBVIOUS
<1>. HIDE DEF h
<1>3. \A i \in 0 .. h : one[i] = IF i = 0 THEN base ELSE Toggled(one[i - 1], p)
  BY <1>2
<1>4. one = Steps(one)
  BY <1>3
<1>5. s = Steps(s)
  BY <1>4
<1>. HIDE DEF s, one
<1>6. s[0] = base /\ s[1] = Toggled(s[0], p)
  BY <1>2, <1>5
<1>. QED BY <1>1, <1>2, <1>6 DEF base
-------------------------------------------------------------------------------
(* Objects that nothing refers to are gone.                                *)

Trimmed(u, v) ==
    /\ TreeInv(v) /\ v.dom = u.dom /\ Objects(v) \subseteq Objects(u)
    /\ \A n \in Objects(v) : v.nodes[n] = u.nodes[n] /\ getPath(v, n) = getPath(u, n)

LEMMA TrimmedFacts ==
    ASSUME NEW u, TreeInv(u), PlainInv(u), NEW v, Trimmed(u, v)
    PROVE  /\ PlainInv(v)
           /\ \A n, p : BoundTo(v, n, p) <=> BoundTo(u, n, p)
           /\ \A n, p : BoundTo(u, n, p) => n \in Objects(v) /\ getPath(v, n) = p
           /\ \A n \in Objects(v) : Attached(u, n) => Attached(v, n)
<1>1. TreeInv(v) /\ LinkInv(v) /\ RowsInv(v) /\ v.dom = u.dom
  BY DEF Trimmed, TreeInv
<1>2. \A n, p : BoundTo(v, n, p) <=> BoundTo(u, n, p)
  BY <1>1 DEF BoundTo, IsShown, NodeAt
<1>3. \A n, p : BoundTo(u, n, p) => n \in Objects(v) /\ getPath(v, n) = p
  BY <1>1, <1>2, BoundOnce, BoundPath
<1>4. \A n \in Objects(v) : Attached(u, n) => Attached(v, n)
  BY <1>2 DEF Trimmed, Attached, Cut
<1>5. ASSUME NEW p, IsShown(v, p) PROVE PlainRow(v, p)
  <2>. DEFINE n == NodeAt(u, p)
  <2>1. IsShown(u, p) /\ NodeAt(v, p) = n /\ p \in Paths
    BY <1>1, <1>5 DEF IsShown, NodeAt
  <2>2. BoundTo(u, n, p)
    BY <2>1 DEF BoundTo
  <2>3. /\ n \in Objects(v) /\ v.nodes[n] = u.nodes[n] /\ PlainRow(u, p)
        /\ Len(p) > 1 => IsShown(u, Parent(p))
    BY <1>3, <2>1, <2>2, ShownFacts DEF Trimmed
  <2>4. ASSUME Len(p) > 1 PROVE n \in v.nodes[NodeAt(v, Parent(p))].subs
    <3>. DEFINE m == NodeAt(u, Parent(p))
    <3>1. NodeAt(v, Parent(p)) = m /\ BoundTo(u, m, Parent(p))
      BY <1>1, <2>3, <2>4 DEF NodeAt, BoundTo
    <3>2. m \in Objects(v) /\ v.nodes[m] = u.nodes[m]
      BY <1>3, <3>1 DEF Trimmed
    <3>3. n \in u.nodes[m].subs
      BY <2>3, <2>4 DEF PlainRow
    <3>. QED BY <3>1, <3>2, <3>3
  <2>5. ASSUME NEW s \in v.nodes[n].subs PROVE BoundTo(v, s, getPath(v, s))
    <3>1. s \in Objects(v) /\ getPath(v, s) = getPath(u, s)
      BY <1>1, <2>3, <2>5 DEF LinkInv, Trimmed
    <3>2. BoundTo(u, s, getPath(u, s))
      BY <2>3, <2>5 DEF PlainRow
    <3>. QED BY <1>2, <3>1, <3>2
  <2>. QED BY <1>1, <2>1, <2>3, <2>4, <2>5 DEF PlainRow
<1>6. PlainInv(v)
  <2>1. IsShown(v, Root)
    BY <1>1 DEF PlainInv, IsShown
  <2>. QED BY <1>5, <2>1 DEF PlainInv
<1>. QED BY <1>2, <1>3, <1>4, <1>6

LEMMA CalmTrimmed ==
    ASSUME NEW u, TreeInv(u), NEW v, Trimmed(u, v), NEW d, NEW S, NEW A, NEW sel,
           Calm(u, d, S, A, sel),
           \A r \in Pended(S, A) : r.me \in Objects(v) \cup {Null},
           sel \in Objects(v) \cup {Null},
           \A r \in Pended(S, A) : r.op \in Edits => r.me # Null
    PROVE  Calm(v, d, S, A, sel)
<1>1. PlainInv(u) /\ CallsInv(S, A)
  BY DEF Calm
<1>2. /\ PlainInv(v)
      /\ \A n, p : BoundTo(v, n, p) <=> BoundTo(u, n, p)
      /\ \A n, p : BoundTo(u, n, p) => n \in Objects(v) /\ getPath(v, n) = p
      /\ \A n \in Objects(v) : Attached(u, n) => Attached(v, n)
  BY <1>1, TrimmedFacts
<1>3. v.dom = u.dom /\ \A n \in Objects(v) : v.nodes[n] = u.nodes[n] /\ getPath(v, n) = getPath(u, n)
  BY DEF Trimmed
<1>4. \A p : (IsShown(v, p) <=> IsShown(u, p)) /\ (OpenIn(v, p) <=> OpenIn(u, p))
  BY <1>3 DEF IsShown, OpenIn
<1>5. ASSUME NEW r \in Pended(S, A) PROVE CallInv(v, d, r)
  <2>1. CallInv(u, d, r) /\ r.me \in Objects(v) \cup {Null}
    BY DEF Calm
  <2>2. r.op \in Edits => EditInv(v, r)
    BY <1>2, <1>3, <2>1 DEF CallInv, EditInv
  <2>3. r.op = "list" => ListInv(v, d, r)
    BY <1>2, <1>3, <1>4, <2>1 DEF CallInv, ListInv
  <2>4. r.op = "exists" => ExistsInv(v, r)
    <3>. HAVE r.op = "exists"
    <3>. DEFINE p == getPath(u, r.me)
    <3>1. /\ BoundTo(u, r.me, p) /\ OpenIn(u, p) /\ r.url = Append(p, Writable)
          /\ ~IsShown(u, r.url)
      BY <2>1 DEF CallInv, ExistsInv
    <3>2. getPath(v, r.me) = p
      BY <1>2, <3>1
    <3>. QED BY <1>2, <1>4, <3>1, <3>2 DEF ExistsInv
  <2>5. r.op = "info" => BoundTo(v, r.me, r.url)
    BY <1>2, <2>1 DEF CallInv
  <2>. QED BY <2>2, <2>3, <2>4, <2>5 DEF CallInv
<1>6. ASSUME NEW a \in BagToSet(A), Done(a)
      PROVE  /\ Refreshed(v, a.request) = Refreshed(u, a.request)
             /\ a.request.op # "reset" => (Cut(v, a.request.me) <=> Cut(u, a.request.me))
             /\ a.request.op # "reset" => getPath(v, a.request.me) = getPath(u, a.request.me)
  <2>1. a.request \in Pended(S, A)
    BY DEF Pended
  <2>2. a.request.op # "reset" => a.request.me \in Objects(v)
    BY <1>6, <2>1 DEF Done
  <2>. QED BY <1>3, <2>2 DEF Refreshed, Cut
<1>7. \A a \in BagToSet(A) : AnswerInv(v, a)
  BY <1>6 DEF Calm, AnswerInv
<1>8. DueRows(v, S, A) = DueRows(u, S, A) /\ DueInfos(v, S, A) = DueInfos(u, S, A)
  BY <1>6 DEF DueRows, DueInfos
<1>9. \A I, p : RowRight(u, d, I, p) => RowRight(v, d, I, p)
  BY <1>3, <1>4 DEF RowRight
<1>10. sel # Null => Attached(v, sel)
  BY <1>2 DEF Calm
<1>11. \A p \in Paths \ DueRows(v, S, A) : RowRight(v, d, DueInfos(v, S, A), p)
  BY <1>8, <1>9 DEF Calm
<1>. QED BY <1>1, <1>2, <1>5, <1>7, <1>10, <1>11 DEF Calm

\* What a step of the page has to show.
LEMMA CalmStep ==
    ASSUME ExplorerInv, ExplorerInv', NEW u, TreeInv(u), Objects(tree) \subseteq Objects(u),
           Becomes(u) \/ (tree' = tree /\ u = tree),
           selected' \in {Null, selected} \cup Objects(u),
           \A r \in Pended(sent', answered') : r \in Pending \/ r.me \in Objects(u) \cup {Null},
           Calm(u, db', sent', answered', selected')
    PROVE  Calm(tree', db', sent', answered', selected')
<1>. DEFINE S == sent'
            A == answered'
            v == tree'
            d == db'
            sel == selected'
<1>1. \A r \in Pended(S, A) : r.me \in Objects(u) \cup {Null}
  BY DEF ExplorerInv, RequestInv
<1>2. sel \in Objects(u) \cup {Null}
  BY DEF ExplorerInv, SelectedInv
<1>3. TreeInv(v) /\ sel \in Objects(v) \cup {Null}
  BY DEF ExplorerInv, SelectedInv
<1>4. \A r \in Pended(S, A) : /\ r.me \in Objects(v) \cup {Null}
                              /\ r.op \in Edits => r.me # Null
  <2>1. Pended(S, A) = Pending'
    BY DEF Pended, Pending
  <2>2. \A r \in Pending' : /\ r.me \in Objects(v) \cup {Null}
                            /\ r.op \notin {"defs", "reset"} => r.me # Null
    BY DEF ExplorerInv, RequestInv
  <2>. QED BY <2>1, <2>2 DEF Edits
<1>5. Trimmed(u, v)
  <2>1. CASE Becomes(u)
    <3>. DEFINE held == {sel} \cup {r.me : r \in BagToSet(S)} \cup {a.request.me : a \in BagToSet(A)}
    <3>1. v = Collected(u, held)
      BY <2>1 DEF Becomes
    <3>2. held \subseteq Objects(u) \cup {Null}
      BY <1>1, <1>2 DEF Pended
    <3>. HIDE DEF held, v
    <3>3. /\ TreeInv(v) /\ Objects(v) \subseteq Objects(u)
          /\ \A n \in Objects(v) : getPath(v, n) = getPath(u, n)
          /\ v.dom = u.dom /\ \A n \in Objects(v) : v.nodes[n] = u.nodes[n]
      BY <3>1, <3>2, CollectedProperties
    <3>. QED BY <3>3 DEF Trimmed
  <2>2. CASE tree' = tree /\ u = tree
    BY <1>3, <2>2 DEF Trimmed
  <2>. QED BY <2>1, <2>2
<1>. HIDE DEF S, A, v, d, sel
<1>6. Calm(u, d, S, A, sel)
  BY DEF S, A, d, sel
<1>7. Calm(v, d, S, A, sel)
  BY <1>3, <1>4, <1>5, <1>6, CalmTrimmed
<1>. QED BY <1>7 DEF S, A, v, d, sel
-------------------------------------------------------------------------------
(* Requests under way.                                                     *)

LEMMA BagsOfOne ==
    ASSUME NEW x, NEW B, IsABag(B)
    PROVE  /\ IsABag(EmptyBag) /\ IsABag(SetToBag({x})) /\ SetToBag({x})[x] = 1
           /\ SetToBag({x}) (-) SetToBag({x}) = EmptyBag
           /\ EmptyBag (+) B = B
           /\ SetToBag({x}) # EmptyBag
           /\ BagToSet(B) = {} => B = EmptyBag
<1>1. IsABag(EmptyBag) /\ IsABag(SetToBag({x})) /\ SetToBag({x})[x] = 1
  BY DEF IsABag, EmptyBag, SetToBag
<1>2. DOMAIN SetToBag({x}) = {x} /\ DOMAIN EmptyBag = {} /\ EmptyBag = [y \in {} |-> 1]
  BY DEF EmptyBag, SetToBag
<1>3. BagToSet(B) = {} => B = EmptyBag
  BY <1>2 DEF IsABag, BagToSet
<1>4. SetToBag({x}) (-) SetToBag({x}) = EmptyBag
  BY DEF SetToBag, EmptyBag, (-)
<1>5. EmptyBag (+) B = B
  <2>1. B = [y \in DOMAIN B |-> B[y]] /\ \A y \in DOMAIN B : B[y] \in Nat
    BY DEF IsABag
  <2>. QED BY <1>2, <2>1 DEF (+)
<1>6. SetToBag({x}) # EmptyBag
  BY <1>2
<1>. QED BY <1>1, <1>3, <1>4, <1>5, <1>6

LEMMA BagTake ==
    ASSUME NEW B, IsABag(B), NEW x \in BagToSet(B)
    PROVE  LET C == B (-) SetToBag({x}) IN
           /\ IsABag(C)
           /\ BagToSet(C) = IF B[x] = 1 THEN BagToSet(B) \ {x} ELSE BagToSet(B)
           /\ \A y \in BagToSet(C) : y # x => C[y] = B[y]
<1>. DEFINE C == B (-) SetToBag({x})
            e == [y \in DOMAIN B |-> IF y = x THEN B[y] - 1 ELSE B[y]]
<1>1. x \in DOMAIN B /\ \A y \in DOMAIN B : B[y] \in Nat \ {0}
  BY DEF IsABag, BagToSet
<1>2. C = [y \in {z \in DOMAIN e : e[z] > 0} |-> e[y]]
  <2>1. SetToBag({x}) = [y \in {x} |-> 1]
    BY DEF SetToBag
  <2>2. e = [y \in DOMAIN B |-> IF y \in DOMAIN SetToBag({x}) THEN B[y] - SetToBag({x})[y] ELSE B[y]]
    BY <2>1
  <2>. HIDE DEF e
  <2>. QED BY <2>2 DEF (-)
<1>. HIDE DEF C
<1>3. DOMAIN C = {z \in DOMAIN B : e[z] > 0} /\ \A y \in DOMAIN C : C[y] = e[y]
  BY <1>2
<1>4. \A y \in DOMAIN C : C[y] \in {n \in Nat : n > 0}
  BY <1>1, <1>3
<1>5. IsABag(C)
  BY <1>2, <1>4 DEF IsABag
<1>6. BagToSet(C) = IF B[x] = 1 THEN BagToSet(B) \ {x} ELSE BagToSet(B)
  BY <1>1, <1>3 DEF BagToSet
<1>7. \A y \in BagToSet(C) : y # x => C[y] = B[y]
  BY <1>3 DEF BagToSet
<1>. QED BY <1>5, <1>6, <1>7 DEF C

LEMMA BagPut ==
    ASSUME NEW B, IsABag(B), NEW C, IsABag(C)
    PROVE  LET D == B (+) C IN
           /\ IsABag(D) /\ BagToSet(D) = BagToSet(B) \cup BagToSet(C)
           /\ \A y \in BagToSet(D) : /\ y \notin BagToSet(C) => D[y] = B[y]
                                     /\ y \notin BagToSet(B) => D[y] = C[y]
<1>. DEFINE D == B (+) C
            count(X, y) == IF y \in DOMAIN X THEN X[y] ELSE 0
<1>1. D = [y \in DOMAIN B \cup DOMAIN C |-> count(B, y) + count(C, y)]
  BY DEF (+)
<1>2. /\ \A y \in DOMAIN B : B[y] \in Nat \ {0}
      /\ \A y \in DOMAIN C : C[y] \in Nat \ {0}
  BY DEF IsABag
<1>. HIDE DEF D
<1>3. DOMAIN D = DOMAIN B \cup DOMAIN C /\ \A y \in DOMAIN D : D[y] = count(B, y) + count(C, y)
  BY <1>1
<1>4. \A y \in DOMAIN D : D[y] \in {n \in Nat : n > 0}
  BY <1>2, <1>3
<1>5. IsABag(D)
  BY <1>1, <1>4 DEF IsABag
<1>6. \A y \in BagToSet(D) : /\ y \notin BagToSet(C) => D[y] = B[y]
                             /\ y \notin BagToSet(B) => D[y] = C[y]
  BY <1>2, <1>3 DEF BagToSet
<1>. QED BY <1>3, <1>5, <1>6 DEF D, BagToSet

\* What else is under way when there is an answer,
LEMMA AnswerAlone ==
    ASSUME NEW S, NEW A, CallsInv(S, A), NEW a \in BagToSet(A)
    PROVE  /\ A = SetToBag({a}) /\ BagToSet(A) = {a} /\ A (-) SetToBag({a}) = EmptyBag
           /\ a.request.op \notin {"info", "exists"} /\ a.request \notin BagToSet(S)
           /\ a.request.op # "list" => S = EmptyBag
           /\ \A r \in BagToSet(S) : r.op = "info"
<1>1. A # EmptyBag
  BY BagFacts
<1>2. PICK b \in BagToSet(A) : /\ A = SetToBag({b}) /\ b.request \notin BagToSet(S)
                               /\ b.request.op \notin {"info", "exists"}
  BY <1>1 DEF CallsInv
<1>3. BagToSet(A) = {b} /\ a = b
  BY <1>2, BagFacts
<1>4. \A r \in BagToSet(S) : r.op = "info" /\ a.request.op = "list"
  <2>. SUFFICES ASSUME NEW r \in BagToSet(S) PROVE r.op = "info" /\ a.request.op = "list"
    OBVIOUS
  <2>1. r \in Pended(S, A) /\ a.request \in Pended(S, A) /\ r # a.request
    BY <1>2, <1>3 DEF Pended
  <2>2. /\ r.op \in Updates /\ a.request.op \in Updates
        /\ r.op = "info" \/ a.request.op = "info"
    BY <2>1 DEF CallsInv
  <2>. QED BY <1>2, <1>3, <2>2 DEF Updates
<1>5. IsABag(S)
  BY DEF CallsInv
<1>6. a.request.op # "list" => S = EmptyBag
  <2>. HAVE a.request.op # "list"
  <2>1. BagToSet(S) = {}
    BY <1>4
  <2>. QED BY <1>5, <2>1, BagsOfOne
<1>7. SetToBag({a}) (-) SetToBag({a}) = EmptyBag
  BY <1>5, BagsOfOne
<1>. QED BY <1>2, <1>3, <1>4, <1>6, <1>7

\* and when a request is served that gets its answer later.
LEMMA CallAlone ==
    ASSUME NEW S, NEW A, CallsInv(S, A), NEW r \in BagToSet(S), r.op # "info"
    PROVE  LET T == S (-) SetToBag({r}) IN
           /\ A = EmptyBag /\ S[r] = 1
           /\ IsABag(T) /\ BagToSet(T) = BagToSet(S) \ {r}
           /\ \A q \in BagToSet(T) : q.op # "info" => T[q] = 1
           /\ \A q \in BagToSet(T) : q.op \in Updates /\ r.op \in Updates /\ q.op = "info"
<1>. DEFINE T == S (-) SetToBag({r})
<1>1. IsABag(S) /\ \A q \in BagToSet(S) : q.op # "info" => S[q] = 1
  BY DEF CallsInv
<1>2. S[r] = 1
  BY <1>1
<1>3. /\ IsABag(T) /\ BagToSet(T) = BagToSet(S) \ {r}
      /\ \A q \in BagToSet(T) : q # r => T[q] = S[q]
  BY <1>1, <1>2, BagTake
<1>4. A = EmptyBag
  <2>. SUFFICES ASSUME A # EmptyBag PROVE FALSE
    OBVIOUS
  <2>1. PICK a \in BagToSet(A) : a.request \notin BagToSet(S)
    BY DEF CallsInv
  <2>. QED BY <2>1, AnswerAlone
<1>. HIDE DEF T
<1>5. \A q \in BagToSet(T) : q.op # "info" => T[q] = 1
  BY <1>1, <1>3
<1>6. \A q \in BagToSet(T) : q.op \in Updates /\ r.op \in Updates /\ q.op = "info"
  <2>. SUFFICES ASSUME NEW q \in BagToSet(T)
                PROVE  q.op \in Updates /\ r.op \in Updates /\ q.op = "info"
    OBVIOUS
  <2>1. q \in Pended(S, A) /\ r \in Pended(S, A) /\ q # r
    BY <1>3 DEF Pended
  <2>. QED BY <2>1 DEF CallsInv
<1>. QED BY <1>2, <1>3, <1>4, <1>5, <1>6 DEF T
-------------------------------------------------------------------------------
(* The page at rest, and the clicks that leave the tree as it is.          *)

Attends(t, sel) == sel # Null => Attached(t, sel)
Resting(t, d) == PlainInv(t) /\ \A p \in Paths : RowRight(t, d, {}, p)

LEMMA NoAnswers ==
    ASSUME NEW t, NEW S
    PROVE  /\ BagToSet(EmptyBag) = {} /\ Pended(S, EmptyBag) = BagToSet(S)
           /\ DueRows(t, S, EmptyBag) =
                {p \in Paths : \E r \in BagToSet(S) : \/ r.op = "list" /\ p \in Children(r.url)
                                                      \/ r.op = "exists" /\ p = r.url}
           /\ DueInfos(t, S, EmptyBag) =
                {p \in Paths : \E r \in BagToSet(S) : r.op \in {"list", "info"} /\ p = r.url}
<1>1. BagToSet(EmptyBag) = {}
  BY BagFacts
<1>2. Pended(S, EmptyBag) = BagToSet(S)
  BY <1>1 DEF Pended
<1>. QED BY <1>1, <1>2 DEF DueRows, DueInfos

LEMMA RightIsMonotonic ==
    ASSUME NEW t, NEW d, NEW I, NEW J, NEW p, RowRight(t, d, I, p), p \in I => p \in J
    PROVE  RowRight(t, d, J, p)
BY DEF RowRight

LEMMA QuietIsResting ==
    ASSUME NEW t, NEW d, NEW sel
    PROVE  Calm(t, d, EmptyBag, EmptyBag, sel) <=> Resting(t, d) /\ Attends(t, sel)
<1>1. /\ BagToSet(EmptyBag) = {} /\ Pended(EmptyBag, EmptyBag) = {}
      /\ DueRows(t, EmptyBag, EmptyBag) = {} /\ DueInfos(t, EmptyBag, EmptyBag) = {}
  BY NoAnswers
<1>2. CallsInv(EmptyBag, EmptyBag)
  <2>1. IsABag(EmptyBag)
    BY DEF IsABag, EmptyBag, SetToBag
  <2>. QED BY <1>1, <2>1 DEF CallsInv
<1>. QED BY <1>1, <1>2 DEF Calm, Resting, Attends

\* A request that no row waits for.
LEMMA SentIsCalm ==
    ASSUME NEW t, NEW d, NEW sel, Resting(t, d), Attends(t, sel),
           NEW r, CallInv(t, d, r), r.op \notin {"list", "exists"}
    PROVE  Calm(t, d, SetToBag({r}), EmptyBag, sel)
<1>. DEFINE S == SetToBag({r})
<1>1. /\ IsABag(S) /\ S[r] = 1 /\ BagToSet(S) = {r}
  BY BagFacts DEF SetToBag, IsABag
<1>. HIDE DEF S
<1>2. /\ Pended(S, EmptyBag) = {r} /\ BagToSet(EmptyBag) = {} /\ DueRows(t, S, EmptyBag) = {}
  BY <1>1, NoAnswers
<1>3. CallsInv(S, EmptyBag)
  BY <1>1, <1>2 DEF CallsInv
<1>4. \A p \in Paths : RowRight(t, d, DueInfos(t, S, EmptyBag), p)
  BY RightIsMonotonic DEF Resting
<1>. QED BY <1>2, <1>3, <1>4 DEF Calm, S, Resting, Attends

\* A click in a calm page waited for every answer.
LEMMA ActsFacts ==
    ASSUME SyncInv, UserActs
    PROVE  /\ hurried' \in Nat /\ db' = db /\ Exists(Root)' /\ answered' = answered
           /\ hurried' = 0 => /\ sent = EmptyBag /\ answered = EmptyBag
                              /\ Resting(tree, db) /\ Attends(tree, selected)
<1>1. /\ hurried \in Nat /\ Exists(Root)
      /\ hurried' = (IF Quiet /\ hurried = 0 THEN 0 ELSE hurried + 1)
      /\ db' = db /\ answered' = answered
  BY DEF SyncInv, SyncPart, UserActs
<1>2. hurried' = 0 => hurried = 0 /\ sent = EmptyBag /\ answered = EmptyBag
  BY <1>1 DEF Quiet
<1>3. hurried = 0 => Calm(tree, db, sent, answered, selected)
  BY DEF SyncInv, SyncPart
<1>4. hurried' = 0 => Calm(tree, db, EmptyBag, EmptyBag, selected)
  BY <1>2, <1>3
<1>. QED BY <1>1, <1>2, <1>4, QuietIsResting DEF Exists

\* A click leaves the tree as it is, and sends one request or none.
LEMMA ClickSync ==
    ASSUME SyncInv, ExplorerInv', UserActs, Becomes(tree) \/ tree' = tree,
           \/ selected' \in {Null, selected}
           \/ selected' \in Objects(tree) /\ (Resting(tree, db) => Attached(tree, selected')),
           \/ sent' = sent
           \/ \E r : /\ Send(SetToBag({r}))
                     /\ r.op \notin {"list", "exists"} /\ r.me \in Objects(tree) \cup {Null}
                     /\ Attends(tree, selected) => CallInv(tree, db, r)
    PROVE  SyncPart'
<1>1. /\ hurried' \in Nat /\ db' = db /\ Exists(Root)' /\ answered' = answered
      /\ hurried' = 0 => /\ sent = EmptyBag /\ answered = EmptyBag
                         /\ Resting(tree, db) /\ Attends(tree, selected)
  BY ActsFacts
<1>2. ASSUME hurried' = 0 PROVE Calm(tree', db', sent', answered', selected')
  <2>1. /\ sent = EmptyBag /\ answered' = EmptyBag /\ db' = db
        /\ Resting(tree, db) /\ Attends(tree, selected)
    BY <1>1, <1>2
  <2>2. Attends(tree, selected')
    BY <2>1 DEF Attends
  <2>3. /\ Calm(tree, db', sent', answered', selected')
        /\ \A r \in Pended(sent', answered') : r.me \in Objects(tree) \cup {Null}
    <3>1. CASE sent' = sent
      <4>1. Calm(tree, db, EmptyBag, EmptyBag, selected')
        BY <2>1, <2>2, QuietIsResting
      <4>2. Pended(EmptyBag, EmptyBag) = {}
        BY NoAnswers
      <4>. QED BY <2>1, <3>1, <4>1, <4>2
    <3>2. CASE \E r : /\ Send(SetToBag({r}))
                      /\ r.op \notin {"list", "exists"} /\ r.me \in Objects(tree) \cup {Null}
                      /\ Attends(tree, selected) => CallInv(tree, db, r)
      <4>1. PICK r : /\ Send(SetToBag({r}))
                     /\ r.op \notin {"list", "exists"} /\ r.me \in Objects(tree) \cup {Null}
                     /\ Attends(tree, selected) => CallInv(tree, db, r)
        BY <3>2
      <4>2. sent' = SetToBag({r})
        <5>1. IsABag(SetToBag({r}))
          BY DEF SetToBag, IsABag
        <5>2. EmptyBag (+) SetToBag({r}) = SetToBag({r})
          BY <5>1, BagsOfOne
        <5>. QED BY <2>1, <4>1, <5>2 DEF Send
      <4>3. Calm(tree, db, SetToBag({r}), EmptyBag, selected')
        BY <2>1, <2>2, <4>1, SentIsCalm
      <4>4. Pended(SetToBag({r}), EmptyBag) = {r}
        BY NoAnswers, BagFacts
      <4>. QED BY <2>1, <4>1, <4>2, <4>3, <4>4
    <3>. QED BY <3>1, <3>2
  <2>4. TreeInv(tree)
    BY DEF SyncInv, ExplorerInv
  <2>5. selected' \in {Null, selected} \cup Objects(tree)
    OBVIOUS
  <2>6. ExplorerInv /\ ExplorerInv' /\ (Becomes(tree) \/ (tree' = tree /\ tree = tree))
    BY DEF SyncInv
  <2>. QED BY <2>3, <2>4, <2>5, <2>6, CalmStep
<1>3. hurried' = 0 => BagToSet(answered') = {}
  BY <1>1, NoAnswers
<1>. QED BY <1>1, <1>2, <1>3 DEF SyncPart

LEMMA ClosesFacts ==
    ASSUME NEW form, NEW requests, closeDialogs(form, requests)
    PROVE  selected' \in {Null, selected}
BY DEF closeDialogs

LEMMA WriteSync ==
    ASSUME SyncInv, ExplorerInv', UserActs, selected # Null,
           NEW op \in Edits \ {"cutDelete"}, NEW url, NEW value, Write(op, url, value),
           IF op = "put"
           THEN /\ value \in Values
                /\ url \in {getPath(tree, selected)} \cup
                           {Append(getPath(tree, selected), name) : name \in {Writable, DisplayName}}
           ELSE url = getPath(tree, selected)
    PROVE  SyncPart'
<1>. DEFINE r == Request(op, url, selected, value, asked)
<1>1. Send(SetToBag({r})) /\ closeDialogs("none", EmptyBag) /\ Becomes(tree)
  BY DEF Write
<1>2. r.op = op /\ r.url = url /\ r.me = selected /\ r.value = value
  BY DEF Request
<1>. HIDE DEF r
<1>3. r.op \notin {"list", "exists", "info"} /\ r.me \in Objects(tree)
  BY <1>2 DEF Edits, SyncInv, ExplorerInv, SelectedInv
<1>4. ASSUME Attends(tree, selected) PROVE CallInv(tree, db, r)
  <2>1. EditInv(tree, r)
    BY <1>2, <1>4 DEF EditInv, Attends
  <2>. QED BY <1>3, <2>1 DEF CallInv
<1>5. selected' \in {Null, selected}
  BY <1>1, ClosesFacts
<1>6. \E q : /\ Send(SetToBag({q}))
             /\ q.op \notin {"list", "exists"} /\ q.me \in Objects(tree) \cup {Null}
             /\ Attends(tree, selected) => CallInv(tree, db, q)
  BY <1>1, <1>3, <1>4
<1>. QED BY <1>1, <1>5, <1>6, ClickSync

LEMMA FormSync ==
    ASSUME SyncInv, ExplorerInv', UserActs, selected # Null,
           PostUnder \/ PutUnder \/ doDelete \/ doCut \/ doChange
    PROVE  SyncPart'
<1>. DEFINE q == getPath(tree, selected)
<1>1. /\ "post" \in Edits \ {"cutDelete"} /\ "put" \in Edits \ {"cutDelete"}
      /\ "delete" \in Edits \ {"cutDelete"} /\ "cut" \in Edits \ {"cutDelete"}
  BY DEF Edits
<1>2. CASE PostUnder
  <2>1. Write("post", q, NoInfo)
    BY <1>2 DEF PostUnder
  <2>. QED BY <1>1, <2>1, WriteSync
<1>3. CASE PutUnder
  <2>1. PICK name \in {Writable, DisplayName}, v \in Values : Write("put", Append(q, name), v)
    BY <1>3 DEF PutUnder
  <2>. QED BY <1>1, <2>1, WriteSync
<1>4. CASE doDelete
  <2>1. Write("delete", q, NoInfo)
    BY <1>4 DEF doDelete
  <2>. QED BY <1>1, <2>1, WriteSync
<1>5. CASE doCut
  <2>1. Write("cut", q, NoInfo)
    BY <1>5 DEF doCut
  <2>. QED BY <1>1, <2>1, WriteSync
<1>6. CASE doChange
  <2>1. PICK v \in Values : Write("put", q, v)
    BY <1>6 DEF doChange
  <2>. QED BY <1>1, <2>1, WriteSync
<1>. QED BY <1>2, <1>3, <1>4, <1>5, <1>6

LEMMA SureSync ==
    ASSUME SyncInv, ExplorerInv', UserActs, NEW action, Sure(action)
    PROVE  SyncPart'
BY ClickSync DEF Sure

LEMMA WritesSync ==
    ASSUME SyncInv, ExplorerInv',
           \/ createMetadataButtonHandler \/ createChildButtonHandler
           \/ createInstanceButtonHandler \/ createCSMLButtonHandler
           \/ createDefinitionsButtonHandler
           \/ changeValueButtonHandler \/ deleteButtonHandler \/ cutButtonHandler
           \/ areYouSureYes \/ pasteOntoButtonHandler \/ pasteUnderButtonHandler
    PROVE  SyncPart'
<1>. DEFINE q == getPath(tree, selected)
<1>1. /\ "post" \in Edits \ {"cutDelete"} /\ "put" \in Edits \ {"cutDelete"}
      /\ "paste" \in Edits \ {"cutDelete"} /\ "true" \in Values /\ "false" \in Values
  BY DEF Edits, Values
<1>2. ExplorerInv
  BY DEF SyncInv
<1>3. \A button : InEdit(button) => UserActs /\ selected # Null
  BY <1>2, DialogSelects DEF InEdit
<1>4. \A form \in {"metadata", "new", "value"} : InForm(form) => UserActs /\ selected # Null
  BY <1>2, DialogSelects DEF InForm
<1>5. CASE \/ createMetadataButtonHandler \/ createChildButtonHandler
           \/ createInstanceButtonHandler \/ createCSMLButtonHandler
           \/ createDefinitionsButtonHandler
  <2>1. UserActs /\ selected # Null /\ (PostUnder \/ PutUnder)
    BY <1>4, <1>5 DEF createMetadataButtonHandler, createChildButtonHandler,
       createInstanceButtonHandler, createCSMLButtonHandler, createDefinitionsButtonHandler
  <2>. QED BY <2>1, FormSync
<1>6. CASE changeValueButtonHandler
  <2>1. UserActs /\ selected # Null
    BY <1>4, <1>6 DEF changeValueButtonHandler
  <2>2. Sure("change") \/ Write("put", q, "true") \/ doChange
    BY <1>6 DEF changeValueButtonHandler
  <2>3. CASE Write("put", q, "true")
    BY <1>1, <2>1, <2>3, WriteSync
  <2>. QED BY <2>1, <2>2, <2>3, SureSync, FormSync
<1>7. CASE deleteButtonHandler \/ cutButtonHandler
  <2>1. UserActs /\ selected # Null
    BY <1>3, <1>7 DEF deleteButtonHandler, cutButtonHandler
  <2>2. Sure("delete") \/ Sure("cut") \/ doDelete \/ doCut
    BY <1>7 DEF deleteButtonHandler, cutButtonHandler
  <2>. QED BY <2>1, <2>2, SureSync, FormSync
<1>8. CASE areYouSureYes
  <2>1. UserActs /\ dialog.sure # "none"
    BY <1>8 DEF areYouSureYes
  <2>2. selected # Null
    BY <1>2, <2>1, DialogSelects
  <2>3. doDelete \/ doCut \/ Write("put", q, "false")
    BY <1>8 DEF areYouSureYes
  <2>4. CASE Write("put", q, "false")
    BY <1>1, <2>1, <2>2, <2>4, WriteSync
  <2>. QED BY <2>1, <2>2, <2>3, <2>4, FormSync
<1>9. CASE pasteOntoButtonHandler
  <2>1. UserActs /\ selected # Null /\ Write("paste", q, NoInfo)
    BY <1>3, <1>9 DEF pasteOntoButtonHandler
  <2>. QED BY <1>1, <2>1, WriteSync
<1>10. CASE pasteUnderButtonHandler
  <2>1. UserActs /\ selected # Null /\ Write("post", q, NoInfo)
    BY <1>3, <1>10 DEF pasteUnderButtonHandler
  <2>. QED BY <1>1, <2>1, WriteSync
<1>. QED BY <1>5, <1>6, <1>7, <1>8, <1>9, <1>10

LEMMA EditButtonSync ==
    ASSUME SyncInv, ExplorerInv', NEW p \in Paths, editButtonHandler(p)
    PROVE  SyncPart'
<1>1. /\ UserActs /\ IsShown(tree, p) /\ selected' = NodeAt(tree, p)
      /\ sent' = sent /\ Becomes(tree) /\ tree.dom[p][1].handlers > 0
  BY DEF editButtonHandler, NodeAt
<1>2. TreeInv(tree) /\ tree \in Trees /\ RowsInv(tree)
  BY DEF SyncInv, ExplorerInv, TreeInv
<1>3. NodeAt(tree, p) \in Objects(tree)
  <2>1. 1 \in 1 .. Len(tree.dom[p])
    BY <1>1, <1>2, RowListTypes DEF IsShown
  <2>. QED BY <1>1, <1>2, <2>1 DEF RowsInv, NodeAt
<1>4. Resting(tree, db) => Attached(tree, NodeAt(tree, p))
  <2>. HAVE Resting(tree, db)
  <2>1. BoundTo(tree, NodeAt(tree, p), p) /\ PlainInv(tree)
    BY <1>1 DEF BoundTo, Resting
  <2>. QED BY <1>2, <2>1, BoundOnce
<1>. QED BY <1>1, <1>3, <1>4, ClickSync

\* A request that is for no object.
LEMMA AskSync ==
    ASSUME SyncInv, ExplorerInv', createInstanceDialogButtonHandler \/ resetDatabase
    PROVE  SyncPart'
<1>1. PICK op \in {"defs", "reset"} :
        /\ UserActs /\ tree' = tree /\ Send(SetToBag({Ask(op, <<>>, Null)}))
        /\ selected' \in {Null, selected}
  <2>1. CASE createInstanceDialogButtonHandler
    <3>1. UserActs /\ tree' = tree
      BY <2>1 DEF createInstanceDialogButtonHandler, InEdit
    <3>2. PICK requests : /\ requests = SetToBag({Ask("defs", <<>>, Null)})
                          /\ Send(requests) /\ closeDialogs("none", requests)
      BY <2>1 DEF createInstanceDialogButtonHandler
    <3>. QED BY <3>1, <3>2, ClosesFacts
  <2>2. CASE resetDatabase
    BY <2>2 DEF resetDatabase
  <2>. QED BY <2>1, <2>2
<1>. DEFINE r == Ask(op, <<>>, Null)
<1>2. r.op \in {"defs", "reset"} /\ r.me = Null
  BY DEF Ask, Request
<1>3. Send(SetToBag({r}))
  BY <1>1
<1>. HIDE DEF r
<1>4. CallInv(tree, db, r)
  BY <1>2 DEF CallInv, Edits
<1>5. \E q : /\ Send(SetToBag({q}))
             /\ q.op \notin {"list", "exists"} /\ q.me \in Objects(tree) \cup {Null}
             /\ Attends(tree, selected) => CallInv(tree, db, q)
  BY <1>2, <1>3, <1>4
<1>. QED BY <1>1, <1>5, ClickSync

\* A page that has just been loaded shows one row.
LEMMA RootedRests ==
    ASSUME NEW d, Root \in DOMAIN d, DOMAIN d \subseteq Paths
    PROVE  Resting(Rooted, d)
<1>. DEFINE row == [NewRow(NoInfo) EXCEPT !.node = dataRoot, !.handlers = 1]
            t   == Rooted
<1>1. /\ \A p \in Paths : t.dom[p] = IF p = Root THEN <<row>> ELSE <<>>
      /\ t.nodes[dataRoot].subs = {}
  BY DEF Rooted, Root, NewNode
<1>2. row.node = dataRoot /\ row.handlers = 1 /\ row.text = "+"
  BY DEF NewRow
<1>. HIDE DEF row, t
<1>3. Root \in Paths /\ Len(Root) = 1 /\ NameIn(Root) = "bws" /\ dataRoot # Null
  BY PathsAssumption DEF Root, NameIn, dataRoot, Null
<1>4. \A p : IsShown(t, p) <=> p = Root
  BY <1>1, <1>3 DEF IsShown
<1>5. /\ t.dom[Root] = <<row>> /\ Len(t.dom[Root]) = 1 /\ t.dom[Root][1] = row
  BY <1>1, <1>3
<1>6. ~canHaveValue("bws")
  BY DEF canHaveValue, IsMetadata, Writable, DisplayName
<1>7. PlainInv(t)
  <2>1. PlainRow(t, Root)
    BY <1>1, <1>2, <1>3, <1>5, <1>6 DEF PlainRow, NodeAt
  <2>. QED BY <1>4, <2>1 DEF PlainInv
<1>8. \A p \in Paths : RowRight(t, d, {}, p)
  BY <1>2, <1>3, <1>4, <1>5, <1>6 DEF RowRight, OpenIn
<1>. QED BY <1>7, <1>8 DEF Resting, t

LEMMA FreshSync ==
    ASSUME tree = Rooted, selected = Null, sent = EmptyBag, answered = EmptyBag,
           hurried = 0, DbInv, Exists(Root)
    PROVE  SyncPart
<1>1. Resting(tree, db)
  BY RootedRests DEF DbInv, Exists
<1>2. Calm(tree, db, EmptyBag, EmptyBag, selected)
  BY <1>1, QuietIsResting DEF Attends
<1>3. BagToSet(answered) = {}
  BY BagFacts
<1>. QED BY <1>2, <1>3 DEF SyncPart
-------------------------------------------------------------------------------
(* A row that is filled anew.                                              *)

LEMMA PathParts ==
    ASSUME NEW p \in Paths
    PROVE  /\ Len(p) \in Nat \ {0} /\ (p # Root <=> Len(p) > 1)
           /\ Len(p) > 1 => Parent(p) \in Paths /\ Parent(p) # p /\ p \in Children(Parent(p))
<1>1. p \in Seq(Names) /\ Len(p) \in Nat \ {0} /\ p[1] = "bws"
  BY PathsTypes
<1>2. Len(p) = 1 => p = <<p[1]>>
  BY <1>1
<1>3. Len(Root) = 1
  BY DEF Root
<1>4. Len(p) > 1 => Parent(p) \in Paths /\ Parent(p) # p /\ p \in Children(Parent(p))
  <2>. HAVE Len(p) > 1
  <2>1. Parent(p) \in Paths
    BY PathsTypes
  <2>2. p \in Children(Parent(p))
    BY <2>1, ChildFacts
  <2>. QED BY <2>1, <2>2, ChildFacts
<1>5. p # Root <=> Len(p) > 1
  <2>1. Len(p) = 1 => p = Root
    BY <1>1, <1>2 DEF Root
  <2>2. p = Root => Len(p) = 1
    BY <1>3
  <2>. DEFINE n == Len(p)
  <2>3. n \in Nat \ {0} /\ (n = 1 <=> p = Root)
    BY <1>1, <2>1, <2>2
  <2>. HIDE DEF n
  <2>4. n > 1 <=> n # 1
    BY <2>3
  <2>. QED BY <2>3, <2>4 DEF n
<1>. QED BY <1>1, <1>4, <1>5

\* The list of p was asked for, and perhaps the info of other rows.
Asks(t, S, me, p) ==
    LET list == Ask("list", p, me) IN
    /\ IsABag(S) /\ list \in BagToSet(S) /\ S[list] = 1
    /\ \A r \in BagToSet(S) : \/ r = list
                              \/ /\ r.op = "info" /\ BoundTo(t, r.me, r.url)
                                 /\ ~StrictlyWithin(r.url, p)

LEMMA AskFields ==
    ASSUME NEW op, NEW url, NEW me
    PROVE  LET r == Ask(op, url, me) IN r.op = op /\ r.url = url /\ r.me = me
BY DEF Ask, Request

LEMMA RefreshIsCalm ==
    ASSUME NEW t, TreeInv(t), PlainInv(t), NEW p, NEW me, BoundTo(t, me, p),
           NEW u, Redrawn(t, u, me, p, "-"),
           NEW d, p \in DOMAIN d,
           \A q \in Paths : ~StrictlyWithin(q, p) => RowRight(t, d, {p}, q),
           NEW sel \in Objects(t) \cup {Null}, Attends(t, sel),
           NEW S, Asks(t, S, me, p)
    PROVE  Calm(u, d, S, EmptyBag, sel)
<1>. DEFINE list == Ask("list", p, me)
            I == DueInfos(u, S, EmptyBag)
<1>1. /\ IsABag(S) /\ list \in BagToSet(S) /\ S[list] = 1
      /\ \A r \in BagToSet(S) : r = list \/ (/\ r.op = "info" /\ BoundTo(t, r.me, r.url)
                                             /\ ~StrictlyWithin(r.url, p))
      /\ list.op = "list" /\ list.url = p /\ list.me = me
  BY AskFields DEF Asks
<1>. HIDE DEF list
<1>2. p \in Paths /\ IsShown(t, p) /\ me = NodeAt(t, p)
  BY DEF BoundTo, IsShown
<1>3. /\ TreeInv(u) /\ PlainInv(u) /\ BoundTo(u, me, p) /\ u.nodes[me].subs = {}
      /\ u.dom[p][1].text = "-" /\ u.dom[p][1].info = t.dom[p][1].info
      /\ \A q \in Paths : IF StrictlyWithin(q, p) THEN u.dom[q] = <<>>
                          ELSE q # p => u.dom[q] = t.dom[q]
      /\ \A n \in Objects(t) : Attached(t, n) => Attached(u, n)
  BY DEF Redrawn
<1>4. /\ BagToSet(EmptyBag) = {} /\ Pended(S, EmptyBag) = BagToSet(S)
      /\ DueRows(u, S, EmptyBag) =
           {q \in Paths : \E r \in BagToSet(S) : \/ r.op = "list" /\ q \in Children(r.url)
                                                 \/ r.op = "exists" /\ q = r.url}
      /\ I = {q \in Paths : \E r \in BagToSet(S) : r.op \in {"list", "info"} /\ q = r.url}
  BY NoAnswers
<1>5. Children(p) \subseteq DueRows(u, S, EmptyBag) /\ p \in I
  BY <1>1, <1>2, <1>4 DEF Children
<1>. HIDE DEF I
<1>6. CallsInv(S, EmptyBag)
  BY <1>1, <1>4 DEF CallsInv, Updates
<1>7. ASSUME NEW r \in BagToSet(S) PROVE CallInv(u, d, r)
  <2>1. CASE r = list
    <3>1. OpenIn(u, p)
      BY <1>3 DEF OpenIn, BoundTo
    <3>2. ListInv(u, d, r)
      BY <1>1, <1>3, <2>1, <3>1 DEF ListInv
    <3>. QED BY <1>1, <2>1, <3>2 DEF CallInv, Edits
  <2>2. CASE r # list
    <3>1. r.op = "info" /\ BoundTo(t, r.me, r.url) /\ ~StrictlyWithin(r.url, p)
      BY <1>1, <2>2
    <3>2. BoundTo(u, r.me, r.url)
      <4>1. CASE r.url = p
        BY <1>2, <1>3, <3>1, <4>1 DEF BoundTo
      <4>2. CASE r.url # p
        BY <1>3, <3>1, <4>2 DEF BoundTo, IsShown, NodeAt
      <4>. QED BY <4>1, <4>2
    <3>. QED BY <3>1, <3>2 DEF CallInv, Edits
  <2>. QED BY <2>1, <2>2
<1>8. ASSUME NEW q \in Paths \ DueRows(u, S, EmptyBag) PROVE RowRight(u, d, I, q)
  <2>1. /\ q # Root => Len(q) > 1 /\ Parent(q) \in Paths /\ Parent(q) # q
        /\ q \notin Children(p)
    BY <1>5, PathParts
  <2>2. q # Root => /\ Parent(q) # p
                    /\ StrictlyWithin(q, p) <=> StrictlyWithin(Parent(q), p)
    BY <1>2, <2>1, ChildFacts, StrictFacts
  <2>3. ~StrictlyWithin(p, p)
    BY <1>2, StrictFacts
  <2>4. CASE StrictlyWithin(q, p)
    <3>1. u.dom[q] = <<>> /\ (q # Root => u.dom[Parent(q)] = <<>>)
      BY <1>3, <2>1, <2>2, <2>4
    <3>. QED BY <3>1 DEF RowRight, IsShown, OpenIn
  <2>5. CASE ~StrictlyWithin(q, p)
    <3>1. RowRight(t, d, {p}, q)
      BY <2>5
    <3>2. q # Root => u.dom[Parent(q)] = t.dom[Parent(q)]
      BY <1>3, <2>1, <2>2, <2>5
    <3>3. q # Root => (OpenIn(u, Parent(q)) <=> OpenIn(t, Parent(q)))
      BY <3>2 DEF OpenIn, IsShown
    <3>4. (IsShown(u, q) <=> IsShown(t, q)) /\ u.dom[q][1].info = t.dom[q][1].info
      BY <1>2, <1>3, <2>5 DEF IsShown, BoundTo
    <3>. QED BY <1>5, <3>1, <3>3, <3>4 DEF RowRight
  <2>. QED BY <2>4, <2>5
<1>9. sel # Null => Attached(u, sel)
  BY <1>3 DEF Attends
<1>10. \A q \in Paths \ DueRows(u, S, EmptyBag) : RowRight(u, d, DueInfos(u, S, EmptyBag), q)
  BY <1>8 DEF I
<1>. QED BY <1>3, <1>4, <1>6, <1>7, <1>9, <1>10 DEF Calm

LEMMA OneAsk ==
    ASSUME NEW t, NEW me, NEW p
    PROVE  Asks(t, SetToBag({Ask("list", p, me)}), me, p)
<1>. DEFINE r == Ask("list", p, me)
<1>1. BagToSet(SetToBag({r})) = {r}
  BY BagFacts
<1>2. IsABag(SetToBag({r})) /\ SetToBag({r})[r] = 1
  BY DEF IsABag, SetToBag
<1>. QED BY <1>1, <1>2 DEF Asks

\* A closed row has nothing in it.
LEMMA ClosedIsEmpty ==
    ASSUME NEW t, TreeInv(t), NEW d, Resting(t, d), NEW p, NEW me, BoundTo(t, me, p),
           t.dom[p][1].text # "-"
    PROVE  t.nodes[me].subs = {}
<1>. SUFFICES ASSUME NEW s \in t.nodes[me].subs PROVE FALSE
  OBVIOUS
<1>. DEFINE c == getPath(t, s)
<1>1. BoundTo(t, s, c) /\ c \in Paths /\ Parent(c) = p /\ Len(c) = Len(p) + 1 /\ p \in Paths
  BY SubFacts DEF Resting, BoundTo, IsShown
<1>. HIDE DEF c
<1>2. c # Root
  <2>1. Len(p) > 0 /\ Len(p) \in Nat
    BY <1>1, PathParts
  <2>. QED BY <1>1, <2>1, PathParts
<1>3. IsShown(t, c) /\ OpenIn(t, p)
  BY <1>1, <1>2 DEF BoundTo, Resting, RowRight
<1>. QED BY <1>3 DEF OpenIn

\* A row at rest, or the root, is of something that exists.
LEMMA ShownExists ==
    ASSUME NEW t, NEW d, Root \in DOMAIN d, NEW I, NEW p, IsShown(t, p), RowRight(t, d, I, p)
    PROVE  p \in DOMAIN d
BY DEF RowRight

\* Closing a row of p, of which nothing else is due.
LEMMA CollapsedIsRight ==
    ASSUME NEW t, TreeInv(t), PlainInv(t), NEW p, NEW me, BoundTo(t, me, p),
           NEW u, Redrawn(t, u, me, p, "+"), NEW d, NEW I,
           \A q \in Paths : ~StrictlyWithin(q, p) => RowRight(t, d, I, q)
    PROVE  \A q \in Paths : RowRight(u, d, I, q)
<1>. SUFFICES ASSUME NEW q \in Paths PROVE RowRight(u, d, I, q)
  OBVIOUS
<1>1. p \in Paths /\ IsShown(t, p)
  BY DEF BoundTo, IsShown
<1>2. /\ BoundTo(u, me, p) /\ u.dom[p][1].text = "+" /\ u.dom[p][1].info = t.dom[p][1].info
      /\ \A x \in Paths : IF StrictlyWithin(x, p) THEN u.dom[x] = <<>>
                          ELSE x # p => u.dom[x] = t.dom[x]
  BY DEF Redrawn
<1>3. /\ q # Root => Len(q) > 1 /\ Parent(q) \in Paths
      /\ ~StrictlyWithin(p, p)
  BY <1>1, PathParts, StrictFacts
<1>4. CASE StrictlyWithin(q, p)
  <2>1. u.dom[q] = <<>>
    BY <1>2, <1>4
  <2>2. q # Root => ~OpenIn(u, Parent(q))
    <3>. HAVE q # Root
    <3>1. CASE Parent(q) = p
      BY <1>2, <3>1 DEF OpenIn
    <3>2. CASE StrictlyWithin(Parent(q), p)
      BY <1>2, <1>3, <3>2 DEF OpenIn, IsShown
    <3>. QED BY <1>1, <1>4, <3>1, <3>2, StrictFacts
  <2>. QED BY <2>1, <2>2 DEF RowRight, IsShown
<1>5. CASE ~StrictlyWithin(q, p)
  <2>1. RowRight(t, d, I, q)
    BY <1>5
  <2>2. q # Root => (OpenIn(u, Parent(q)) <=> OpenIn(t, Parent(q)))
    <3>. HAVE q # Root
    <3>1. Parent(q) # p /\ ~StrictlyWithin(Parent(q), p)
      BY <1>1, <1>3, <1>5, StrictFacts
    <3>2. u.dom[Parent(q)] = t.dom[Parent(q)]
      BY <1>2, <1>3, <3>1
    <3>. QED BY <3>2 DEF OpenIn, IsShown
  <2>3. (IsShown(u, q) <=> IsShown(t, q)) /\ u.dom[q][1].info = t.dom[q][1].info
    BY <1>1, <1>2, <1>5 DEF IsShown, BoundTo
  <2>. QED BY <2>1, <2>2, <2>3 DEF RowRight
<1>. QED BY <1>4, <1>5

-------------------------------------------------------------------------------
(* The clicks.                                                             *)

LEMMA PressedFacts ==
    ASSUME SyncInv, NEW p \in Paths, treeButtonHandler(p)
    PROVE  LET s == Handled(tree, p) IN
           /\ UserActs /\ IsShown(tree, p) /\ tree.dom[p][1].handlers > 0
           /\ selected' \in {Null, selected} /\ Send(s.requests) /\ Becomes(s.tree)
           /\ TreeInv(s.tree) /\ Keeps(tree, s.tree)
           /\ BagToSet(s.requests) \subseteq {Ask("list", p, tree.dom[p][1].node)}
<1>. DEFINE s == Handled(tree, p)
<1>1. /\ UserActs /\ IsShown(tree, p) /\ tree.dom[p][1].handlers > 0
      /\ closeDialogs("none", EmptyBag) /\ Send(s.requests) /\ Becomes(s.tree)
  BY Zenon DEF treeButtonHandler, Handled
<1>. HIDE DEF s
<1>2. selected' \in {Null, selected}
  BY <1>1, ClosesFacts
<1>3. TreeInv(tree)
  BY DEF SyncInv, ExplorerInv
<1>4. /\ TreeInv(s.tree) /\ Keeps(tree, s.tree)
      /\ BagToSet(s.requests) \subseteq {Ask("list", p, tree.dom[p][1].node)}
  BY <1>1, <1>3, HandledProperties DEF s, IsShown
<1>. QED BY <1>1, <1>2, <1>4 DEF s

\* The button of a row at rest.
LEMMA PressedIsCalm ==
    ASSUME NEW t, TreeInv(t), NEW d, Root \in DOMAIN d, Resting(t, d),
           NEW sel \in Objects(t) \cup {Null}, Attends(t, sel),
           NEW p, IsShown(t, p)
    PROVE  LET s == Handled(t, p) IN Calm(s.tree, d, EmptyBag (+) s.requests, EmptyBag, sel)
<1>. DEFINE n == NodeAt(t, p)
            s == Handled(t, p)
<1>1. PlainInv(t) /\ \A q \in Paths : RowRight(t, d, {}, q)
  BY DEF Resting
<1>2. BoundTo(t, n, p) /\ p \in Paths /\ t.dom[p][1].handlers = 1
  BY <1>1, ShownFacts DEF BoundTo, PlainRow
<1>3. s = Toggled([tree |-> t, requests |-> EmptyBag], p)
  BY <1>2, HandledOnce
<1>. HIDE DEF s
<1>4. CASE t.dom[p][1].text = "-"
  <2>. DEFINE u == collapse(t, n)
  <2>1. s = [tree |-> u, requests |-> EmptyBag]
    BY <1>3, <1>4 DEF Toggled, NodeAt
  <2>2. Redrawn(t, u, n, p, "+")
    BY <1>1, <1>2, CollapseRedrawn
  <2>3. IsABag(EmptyBag) /\ EmptyBag (+) EmptyBag = EmptyBag
    <3>1. IsABag(EmptyBag)
      BY DEF IsABag, EmptyBag, SetToBag
    <3>. QED BY <3>1, BagsOfOne
  <2>. HIDE DEF u
  <2>4. \A q \in Paths : RowRight(u, d, {}, q)
    BY <1>1, <1>2, <2>2, CollapsedIsRight
  <2>5. PlainInv(u) /\ Attends(u, sel)
    BY <2>2 DEF Redrawn, Attends
  <2>6. Calm(u, d, EmptyBag, EmptyBag, sel)
    BY <2>4, <2>5, QuietIsResting DEF Resting
  <2>. QED BY <2>1, <2>3, <2>6 DEF s
<1>5. CASE t.dom[p][1].text # "-"
  <2>. DEFINE u == Opened(t, n)
              B == SetToBag({Ask("list", p, n)})
  <2>1. t.nodes[n].subs = {}
    BY <1>2, <1>5, ClosedIsEmpty
  <2>2. Redrawn(t, u, n, p, "-") /\ List(t, n) = B
    BY <1>1, <1>2, <2>1, OpenedRedrawn
  <2>3. s = [tree |-> u, requests |-> EmptyBag (+) B]
    <3>1. expand(t, n) = [tree |-> u, requests |-> B]
      BY <2>2 DEF expand
    <3>. HIDE DEF u, B
    <3>2. s = [tree |-> expand(t, n).tree, requests |-> EmptyBag (+) expand(t, n).requests]
      BY <1>3, <1>5 DEF Toggled, NodeAt
    <3>. QED BY <3>1, <3>2
  <2>4. EmptyBag (+) B = B
    <3>1. IsABag(B)
      BY DEF IsABag, SetToBag
    <3>. QED BY <3>1, BagsOfOne
  <2>5. Asks(t, B, n, p)
    BY OneAsk
  <2>. HIDE DEF u, B
  <2>6. p \in DOMAIN d
    BY <1>1, <1>2, ShownExists
  <2>7. \A q \in Paths : ~StrictlyWithin(q, p) => RowRight(t, d, {p}, q)
    BY <1>1, RightIsMonotonic
  <2>8. Calm(u, d, B, EmptyBag, sel)
    BY <1>1, <1>2, <2>2, <2>5, <2>6, <2>7, RefreshIsCalm
  <2>. QED BY <2>3, <2>4, <2>8 DEF s
<1>. QED BY <1>4, <1>5

LEMMA TreeButtonSync ==
    ASSUME SyncInv, ExplorerInv', NEW p \in Paths, treeButtonHandler(p)
    PROVE  SyncPart'
<1>. DEFINE u == Handled(tree, p).tree
            B == Handled(tree, p).requests
            n == tree.dom[p][1].node
<1>1. /\ UserActs /\ IsShown(tree, p)
      /\ selected' \in {Null, selected} /\ Send(B) /\ Becomes(u)
      /\ TreeInv(u) /\ Keeps(tree, u) /\ BagToSet(B) \subseteq {Ask("list", p, n)}
  BY PressedFacts
<1>2. /\ hurried' \in Nat /\ db' = db /\ Exists(Root)' /\ answered' = answered
      /\ hurried' = 0 => /\ sent = EmptyBag /\ answered = EmptyBag
                         /\ Resting(tree, db) /\ Attends(tree, selected)
  BY <1>1, ActsFacts
<1>3. TreeInv(tree) /\ selected \in Objects(tree) \cup {Null} /\ ExplorerInv
  BY DEF SyncInv, ExplorerInv, SelectedInv
<1>4. ASSUME hurried' = 0 PROVE Calm(tree', db', sent', answered', selected')
  <2>1. /\ sent = EmptyBag /\ answered' = EmptyBag /\ db' = db
        /\ Resting(tree, db) /\ Attends(tree, selected)
    BY <1>2, <1>4
  <2>2. Attends(tree, selected') /\ selected' \in Objects(tree) \cup {Null}
    BY <1>1, <1>3, <2>1 DEF Attends
  <2>3. Root \in DOMAIN db
    BY <1>2 DEF Exists
  <2>4. Calm(u, db, EmptyBag (+) B, EmptyBag, selected')
    BY <1>1, <1>3, <2>1, <2>2, <2>3, PressedIsCalm
  <2>5. sent' = EmptyBag (+) B /\ sent' = sent (+) B
    BY <1>1, <2>1 DEF Send
  <2>6. n \in Objects(tree)
    <3>1. PlainInv(tree)
      BY <2>1 DEF Resting
    <3>. QED BY <1>1, <1>3, <3>1, ShownFacts DEF NodeAt
  <2>. HIDE DEF u, B, n
  <2>7. ASSUME NEW r \in Pended(sent', answered') PROVE r.me \in Objects(u) \cup {Null}
    <3>1. r \in BagToSet(EmptyBag (+) B)
      BY <2>1, <2>5, <2>7, NoAnswers
    <3>2. BagToSet(EmptyBag (+) B) = BagToSet(EmptyBag) \cup BagToSet(B)
      BY BagFacts
    <3>3. r = Ask("list", p, n)
      BY <1>1, <3>1, <3>2, NoAnswers
    <3>4. r.me = n
      BY <3>3, AskFields
    <3>. QED BY <1>1, <2>6, <3>4 DEF Keeps
  <2>8. Objects(tree) \subseteq Objects(u)
    BY <1>1 DEF Keeps
  <2>9. Calm(u, db', sent', answered', selected')
    BY <2>1, <2>4, <2>5
  <2>10. selected' \in {Null, selected} \cup Objects(u)
    BY <1>1
  <2>. QED BY <1>1, <1>3, <2>7, <2>8, <2>9, <2>10, CalmStep
<1>5. hurried' = 0 => BagToSet(answered') = {}
  BY <1>2, NoAnswers
<1>. QED BY <1>2, <1>4, <1>5 DEF SyncPart

LEMMA DialogSync ==
    ASSUME SyncInv, ExplorerInv', UserActs, Becomes(tree) \/ tree' = tree, sent' = sent,
           NEW form, NEW requests, closeDialogs(form, requests)
    PROVE  SyncPart'
<1>1. selected' \in {Null, selected}
  BY ClosesFacts
<1>. QED BY <1>1, ClickSync

LEMMA ReloadSync ==
    ASSUME SyncInv, ExplorerInv', Reload
    PROVE  SyncPart'
<1>1. /\ tree' = Rooted /\ selected' = Null /\ db' = db
      /\ sent' = EmptyBag /\ answered' = EmptyBag /\ hurried' = 0
  BY DEF Reload, Quiet
<1>2. DbInv' /\ Exists(Root)'
  BY <1>1 DEF ExplorerInv, SyncInv, SyncPart, Exists
<1>3. Resting(tree', db')
  BY <1>1, <1>2, RootedRests DEF DbInv, Exists
<1>4. Calm(tree', db', EmptyBag, EmptyBag, selected')
  BY <1>1, <1>3, QuietIsResting DEF Attends
<1>5. BagToSet(answered') = {}
  BY <1>1, NoAnswers
<1>6. Calm(tree', db', sent', answered', selected')
  BY <1>1, <1>4
<1>. QED BY <1>1, <1>2, <1>5, <1>6 DEF SyncPart

LEMMA ClicksSync ==
    ASSUME SyncInv, ExplorerInv', Clicks
    PROVE  SyncPart'
<1>1. CASE \E p \in Paths : treeButtonHandler(p) \/ editButtonHandler(p)
  BY <1>1, TreeButtonSync, EditButtonSync
<1>2. CASE OpenForm("onto", "metadata") \/ OpenForm("under", "new") \/ OpenForm("value", "value")
  <2>1. \E form : UserActs /\ sent' = sent /\ tree' = tree /\ closeDialogs(form, EmptyBag)
    BY <1>2 DEF OpenForm, InEdit
  <2>. QED BY <2>1, DialogSync
<1>3. CASE createInstanceDialogButtonHandler \/ resetDatabase
  BY <1>3, AskSync
<1>4. CASE areYouSureNo
  <2>1. UserActs /\ sent' = sent /\ closeDialogs("none", EmptyBag) /\ Becomes(tree)
    BY <1>4 DEF areYouSureNo
  <2>. QED BY <2>1, DialogSync
<1>5. CASE \/ createMetadataButtonHandler \/ createChildButtonHandler
           \/ createInstanceButtonHandler \/ createCSMLButtonHandler
           \/ createDefinitionsButtonHandler
           \/ changeValueButtonHandler \/ deleteButtonHandler \/ cutButtonHandler
           \/ areYouSureYes \/ pasteOntoButtonHandler \/ pasteUnderButtonHandler
  BY <1>5, WritesSync
<1>6. CASE Reload
  BY <1>6, ReloadSync
<1>. QED BY <1>1, <1>2, <1>3, <1>4, <1>5, <1>6 DEF Clicks
-------------------------------------------------------------------------------
(* The answers, but for that of a list.                                    *)

\* A callback of a calm page.
LEMMA AnswerSync ==
    ASSUME SyncInv, ExplorerInv', NEW a \in BagToSet(answered),
           answered' = answered (-) SetToBag({a}), UNCHANGED <<db, selected, hurried>>,
           NEW u, TreeInv(u), Objects(tree) \subseteq Objects(u), Becomes(u),
           \A r \in BagToSet(sent') : r \in Pending \/ r.me \in Objects(u) \cup {Null},
           /\ Calm(tree, db, sent, SetToBag({a}), selected) /\ ListCurrent(a)
           => Calm(u, db, sent', EmptyBag, selected)
    PROVE  SyncPart'
<1>1. hurried' \in Nat /\ Exists(Root)'
  BY DEF SyncInv, SyncPart, Exists
<1>2. ASSUME hurried' = 0
      PROVE  answered' = EmptyBag /\ Calm(tree', db', sent', answered', selected')
  <2>1. Calm(tree, db, sent, answered, selected) /\ ListCurrent(a)
    BY <1>2 DEF SyncInv, SyncPart
  <2>2. answered = SetToBag({a}) /\ answered (-) SetToBag({a}) = EmptyBag
    BY <2>1, AnswerAlone DEF Calm
  <2>3. answered' = EmptyBag
    BY <2>2
  <2>4. Calm(tree, db, sent, SetToBag({a}), selected)
    BY <2>1, <2>2
  <2>5. Calm(u, db', sent', answered', selected')
    BY <2>1, <2>3, <2>4
  <2>6. \A r \in Pended(sent', answered') : r \in Pending \/ r.me \in Objects(u) \cup {Null}
    BY <2>3, NoAnswers
  <2>. QED BY <2>3, <2>5, <2>6, CalmStep DEF SyncInv
<1>3. hurried' = 0 => BagToSet(answered') = {}
  BY <1>2, NoAnswers
<1>. QED BY <1>1, <1>2, <1>3 DEF SyncPart

\* What is due after an answer.
DoneRows(t, a)  == {p \in Paths : Done(a) /\ StrictlyWithin(p, Refreshed(t, a.request))}
DoneInfos(t, a) == {p \in Paths : Done(a) /\ p = Refreshed(t, a.request)}

\* The answer to a request that was alone.
Lone(t, d, S, a, sel) ==
    /\ BagToSet(SetToBag({a})) = {a} /\ a.request \in Pended(S, SetToBag({a}))
    /\ CallInv(t, d, a.request) /\ AnswerInv(t, a) /\ PlainInv(t) /\ Attends(t, sel)
    /\ a.request.op \notin {"info", "exists"}
    /\ a.request.op # "list" =>
         /\ S = EmptyBag
         /\ DueRows(t, S, SetToBag({a})) = DoneRows(t, a)
         /\ DueInfos(t, S, SetToBag({a})) = DoneInfos(t, a)

LEMMA LoneAnswer ==
    ASSUME NEW t, NEW d, NEW S, NEW a, NEW sel, Calm(t, d, S, SetToBag({a}), sel)
    PROVE  Lone(t, d, S, a, sel)
<1>. DEFINE A == SetToBag({a})
<1>1. BagToSet(A) = {a}
  BY BagFacts
<1>. HIDE DEF A
<1>2. a \in BagToSet(A) /\ Calm(t, d, S, A, sel)
  BY <1>1 DEF A
<1>3. a.request.op \notin {"info", "exists"} /\ (a.request.op # "list" => S = EmptyBag)
  BY <1>2, AnswerAlone DEF Calm
<1>4. Pended(S, A) = BagToSet(S) \cup {a.request}
  BY <1>1 DEF Pended
<1>5. CallInv(t, d, a.request) /\ AnswerInv(t, a) /\ PlainInv(t) /\ Attends(t, sel)
  BY <1>1, <1>2, <1>4 DEF Calm, Attends
<1>6. ASSUME a.request.op # "list"
      PROVE  DueRows(t, S, A) = DoneRows(t, a) /\ DueInfos(t, S, A) = DoneInfos(t, a)
  <2>1. Pended(S, A) = {a.request}
    BY <1>3, <1>4, <1>6, NoAnswers
  <2>. QED BY <1>1, <1>3, <1>6, <2>1 DEF DueRows, DueInfos, DoneRows, DoneInfos
<1>. QED BY <1>1, <1>3, <1>4, <1>5, <1>6 DEF A, Lone

\* An answer that changed nothing on the server.
LEMMA UndoneRests ==
    ASSUME NEW t, NEW d, NEW S, NEW a, NEW sel, Calm(t, d, S, SetToBag({a}), sel),
           ~Done(a), a.request.op # "list"
    PROVE  S = EmptyBag /\ Resting(t, d) /\ Attends(t, sel)
<1>. DEFINE A == SetToBag({a})
<1>0. /\ S = EmptyBag /\ PlainInv(t) /\ Attends(t, sel)
      /\ DueRows(t, S, A) = DoneRows(t, a) /\ DueInfos(t, S, A) = DoneInfos(t, a)
  <2>1. Lone(t, d, S, a, sel)
    BY LoneAnswer
  <2>. QED BY <2>1 DEF Lone
<1>. HIDE DEF A
<1>1. DueRows(t, S, A) = {} /\ DueInfos(t, S, A) = {} /\ Calm(t, d, S, A, sel)
  BY <1>0 DEF A, DoneRows, DoneInfos
<1>2. \A p \in Paths : RowRight(t, d, {}, p)
  BY <1>1 DEF Calm
<1>. QED BY <1>0, <1>2 DEF Resting

\* A row has to be filled anew.
LEMMA DoneFacts ==
    ASSUME NEW t, NEW d, Root \in DOMAIN d, NEW S, NEW a, NEW sel,
           Calm(t, d, S, SetToBag({a}), sel), Done(a)
    PROVE  LET p == Refreshed(t, a.request) IN
           /\ S = EmptyBag /\ PlainInv(t) /\ Attends(t, sel)
           /\ \A q \in Paths : ~StrictlyWithin(q, p) => RowRight(t, d, {p}, q)
<1>. DEFINE p == Refreshed(t, a.request)
            A == SetToBag({a})
<1>1. a.request.op # "list"
  BY DEF Done, Edits
<1>0. /\ S = EmptyBag /\ PlainInv(t) /\ Attends(t, sel)
      /\ DueRows(t, S, A) = DoneRows(t, a) /\ DueInfos(t, S, A) = DoneInfos(t, a)
  <2>1. Lone(t, d, S, a, sel)
    BY LoneAnswer
  <2>. QED BY <1>1, <2>1 DEF Lone
<1>. HIDE DEF p, A
<1>2. /\ S = EmptyBag /\ PlainInv(t) /\ Attends(t, sel)
      /\ DueRows(t, S, A) = {q \in Paths : StrictlyWithin(q, p)}
      /\ DueInfos(t, S, A) = {q \in Paths : q = p}
  BY <1>0 DEF DoneRows, DoneInfos, p
<1>3. ASSUME NEW q \in Paths, ~StrictlyWithin(q, p) PROVE RowRight(t, d, {p}, q)
  <2>1. RowRight(t, d, DueInfos(t, S, A), q)
    BY <1>2, <1>3 DEF Calm, A
  <2>2. q \in DueInfos(t, S, A) => q \in {p}
    BY <1>2
  <2>. QED BY <2>1, <2>2, RightIsMonotonic
<1>. QED BY <1>2, <1>3 DEF p

LEMMA NothingChangesSync ==
    ASSUME SyncInv, ExplorerInv', NEW a \in BagToSet(answered), Failed(a) \/ DefinitionsListed(a)
    PROVE  SyncPart'
<1>1. /\ answered' = answered (-) SetToBag({a}) /\ UNCHANGED <<db, selected, hurried>>
      /\ sent' = sent /\ Becomes(tree) /\ (~a.reply.ok \/ a.request.op = "defs")
  BY DEF Failed, DefinitionsListed, Handle
<1>2. ASSUME Calm(tree, db, sent, SetToBag({a}), selected), ListCurrent(a)
      PROVE  Calm(tree, db, sent', EmptyBag, selected)
  <2>1. ~Done(a) /\ a.request.op # "list"
    BY <1>1, <1>2 DEF Done, Edits, ListCurrent
  <2>2. sent = EmptyBag /\ Resting(tree, db) /\ Attends(tree, selected)
    BY <1>2, <2>1, UndoneRests
  <2>3. Calm(tree, db, EmptyBag, EmptyBag, selected)
    BY <2>2, QuietIsResting
  <2>. QED BY <1>1, <2>2, <2>3
<1>3. TreeInv(tree) /\ \A r \in BagToSet(sent') : r \in Pending
  BY <1>1 DEF SyncInv, ExplorerInv, Pending
<1>. QED BY <1>1, <1>2, <1>3, AnswerSync

LEMMA CutCopiedSync ==
    ASSUME SyncInv, ExplorerInv', NEW a \in BagToSet(answered), CutCopied(a)
    PROVE  SyncPart'
<1>. DEFINE r == a.request
            q == [r EXCEPT !.op = "cutDelete"]
            B == SetToBag({q})
<1>1. /\ answered' = answered (-) SetToBag({a}) /\ UNCHANGED <<db, selected, hurried>>
      /\ sent' = sent (+) B /\ Becomes(tree) /\ r.op = "cut"
  BY DEF CutCopied, Handle, Send
<1>2. q.url = r.url /\ q.me = r.me /\ (q.op = "cutDelete" \/ q.op = "cut")
  BY <1>1
<1>3. TreeInv(tree) /\ r \in Pending /\ r.me \in Objects(tree) \cup {Null}
  <2>1. r \in Pending
    BY DEF Pending
  <2>. QED BY <2>1 DEF SyncInv, ExplorerInv, RequestInv
<1>. HIDE DEF q, r
<1>4. \A s \in BagToSet(sent') : s \in Pending \/ s.me \in Objects(tree) \cup {Null}
  <2>1. BagToSet(sent (+) B) = BagToSet(sent) \cup BagToSet(B) /\ BagToSet(B) = {q}
    BY BagFacts
  <2>. HIDE DEF B
  <2>. QED BY <1>1, <1>2, <1>3, <2>1 DEF Pending
<1>5. ASSUME Calm(tree, db, sent, SetToBag({a}), selected)
      PROVE  Calm(tree, db, sent', EmptyBag, selected)
  <2>1. ~Done(a) /\ a.request.op # "list"
    BY <1>1 DEF Done, Edits, r
  <2>2. sent = EmptyBag /\ Resting(tree, db) /\ Attends(tree, selected)
    BY <1>5, <2>1, UndoneRests
  <2>3. CallInv(tree, db, r)
    <3>1. Lone(tree, db, sent, a, selected)
      BY <1>5, LoneAnswer
    <3>. QED BY <3>1 DEF Lone, r
  <2>4. CallInv(tree, db, q) /\ q.op \notin {"list", "exists"}
    BY <1>1, <1>2, <2>3 DEF CallInv, EditInv, Edits
  <2>5. Calm(tree, db, B, EmptyBag, selected)
    BY <2>2, <2>4, SentIsCalm
  <2>6. IsABag(B)
    BY DEF IsABag, SetToBag
  <2>. HIDE DEF B
  <2>7. EmptyBag (+) B = B
    BY <2>6, BagsOfOne
  <2>. QED BY <1>1, <2>2, <2>5, <2>7
<1>. HIDE DEF B
<1>. QED BY <1>1, <1>3, <1>4, <1>5, AnswerSync

LEMMA WasResetSync ==
    ASSUME SyncInv, ExplorerInv', NEW a \in BagToSet(answered), WasReset(a)
    PROVE  SyncPart'
<1>. DEFINE u == collapse(tree, dataRoot)
<1>1. /\ answered' = answered (-) SetToBag({a}) /\ UNCHANGED <<db, selected, hurried>>
      /\ sent' = sent /\ Becomes(u) /\ a.request.op = "reset" /\ a.reply.ok
  BY DEF WasReset, Handle
<1>2. TreeInv(tree) /\ Root \in DOMAIN db
  BY DEF SyncInv, ExplorerInv, SyncPart, Exists
<1>3. TreeInv(u) /\ Keeps(tree, u)
  BY <1>2, CollapseProperties DEF TreeInv, LinkInv, KeepsRow
<1>. HIDE DEF u
<1>4. \A r \in BagToSet(sent') : r \in Pending
  BY <1>1 DEF Pending
<1>5. ASSUME Calm(tree, db, sent, SetToBag({a}), selected)
      PROVE  Calm(u, db, sent', EmptyBag, selected)
  <2>1. Done(a) /\ Refreshed(tree, a.request) = Root
    BY <1>1 DEF Done, Refreshed
  <2>2. /\ sent = EmptyBag /\ PlainInv(tree) /\ Attends(tree, selected)
        /\ \A q \in Paths : ~StrictlyWithin(q, Root) => RowRight(tree, db, {Root}, q)
    <3>. DEFINE p == Refreshed(tree, a.request)
    <3>1. /\ sent = EmptyBag /\ PlainInv(tree) /\ Attends(tree, selected)
          /\ \A q \in Paths : ~StrictlyWithin(q, p) => RowRight(tree, db, {p}, q)
      BY <1>2, <1>5, <2>1, DoneFacts
    <3>. HIDE DEF p
    <3>2. p = Root
      BY <2>1 DEF p
    <3>. QED BY <3>1, <3>2
  <2>3. BoundTo(tree, dataRoot, Root)
    BY <1>2, <2>2, RootBound
  <2>4. Redrawn(tree, u, dataRoot, Root, "+")
    BY <1>2, <2>2, <2>3, CollapseRedrawn DEF u
  <2>5. \A q \in Paths : RowRight(u, db, {Root}, q)
    BY <1>2, <2>2, <2>3, <2>4, CollapsedIsRight
  <2>6. ~canHaveValue(NameIn(Root))
    BY DEF canHaveValue, IsMetadata, Writable, DisplayName, NameIn, Root
  <2>7. \A q \in Paths : RowRight(u, db, {}, q)
    BY <2>5, <2>6 DEF RowRight
  <2>8. selected \in Objects(tree) \cup {Null}
    BY DEF SyncInv, ExplorerInv, SelectedInv
  <2>9. PlainInv(u) /\ Attends(u, selected)
    BY <2>2, <2>4, <2>8 DEF Redrawn, Attends
  <2>10. Calm(u, db, EmptyBag, EmptyBag, selected)
    BY <2>7, <2>9, QuietIsResting DEF Resting
  <2>. QED BY <1>1, <2>2, <2>10
<1>6. Objects(tree) \subseteq Objects(u)
  BY <1>3 DEF Keeps
<1>. QED BY <1>1, <1>3, <1>4, <1>5, <1>6, AnswerSync
-------------------------------------------------------------------------------
(* The answers after which a row is filled anew.                           *)

LEMMA FilledAnew ==
    ASSUME NEW t, TreeInv(t), NEW d, Root \in DOMAIN d, NEW S, NEW a,
           NEW sel \in Objects(t) \cup {Null}, Calm(t, d, S, SetToBag({a}), sel), Done(a),
           NEW p, NEW me, BoundTo(t, me, p), p = Refreshed(t, a.request),
           NEW T, Asks(t, T, me, p)
    PROVE  Calm(refresh(t, me).tree, d, EmptyBag (+) T, EmptyBag, sel)
<1>. DEFINE u == refresh(t, me).tree
<1>1. PlainInv(t) /\ Attends(t, sel)
  BY DoneFacts
<1>2. \A q \in Paths : ~StrictlyWithin(q, p) => RowRight(t, d, {p}, q)
  BY DoneFacts
<1>3. p \in Paths /\ IsShown(t, p)
  BY DEF BoundTo, IsShown
<1>4. p \in DOMAIN d
  <2>1. RowRight(t, d, {p}, p)
    BY <1>2, <1>3, StrictFacts
  <2>. QED BY <1>3, <2>1, ShownExists
<1>5. Redrawn(t, u, me, p, "-")
  BY <1>1, RefreshRedrawn
<1>. HIDE DEF u
<1>6. Calm(u, d, T, EmptyBag, sel)
  BY <1>1, <1>2, <1>4, <1>5, RefreshIsCalm
<1>7. EmptyBag (+) T = T
  BY BagsOfOne DEF Asks
<1>. QED BY <1>6, <1>7 DEF u

\* What a write was for is there.
LEMMA DoneWhere ==
    ASSUME NEW t, TreeInv(t), NEW d, NEW S, NEW a, NEW sel,
           Calm(t, d, S, SetToBag({a}), sel), Done(a), a.request.op # "reset"
    PROVE  LET me == a.request.me
               p  == getPath(t, me)
               n  == t.nodes[me].parent
           IN  /\ S = EmptyBag /\ PlainInv(t) /\ BoundTo(t, me, p)
               /\ Len(p) > 1 => n # Null /\ BoundTo(t, n, Parent(p))
               /\ a.request.op \in {"delete", "cutDelete"} => Len(p) > 1
<1>. DEFINE me == a.request.me
            p  == getPath(t, me)
            n  == t.nodes[me].parent
<1>1. Lone(t, d, S, a, sel)
  BY LoneAnswer
<1>2. /\ PlainInv(t) /\ CallInv(t, d, a.request) /\ AnswerInv(t, a)
      /\ a.request.op # "list" => S = EmptyBag
  BY <1>1 DEF Lone
<1>3. a.request.op \in Edits /\ a.request.op # "list"
  BY DEF Done, Edits
<1>4. Attached(t, me) /\ ~Cut(t, me)
  BY <1>2, <1>3 DEF CallInv, EditInv, AnswerInv
<1>5. BoundTo(t, me, p)
  BY <1>4 DEF Attached
<1>6. a.request.op \in {"delete", "cutDelete"} => Len(p) > 1
  BY <1>2 DEF AnswerInv
<1>7. Len(p) > 1 => n # Null /\ BoundTo(t, n, Parent(p))
  <2>. HAVE Len(p) > 1
  <2>. HIDE DEF p
  <2>1. me = NodeAt(t, p) /\ IsShown(t, p)
    BY <1>5 DEF BoundTo
  <2>2. IsShown(t, Parent(p)) /\ t.nodes[me].parent = NodeAt(t, Parent(p))
    BY <1>2, <2>1, ShownFacts
  <2>3. NodeAt(t, Parent(p)) # Null
    BY <1>2, <2>2, ShownFacts
  <2>. QED BY <2>2, <2>3 DEF BoundTo
<1>. QED BY <1>2, <1>3, <1>5, <1>6, <1>7

LEMMA DeleteSucceededSync ==
    ASSUME SyncInv, ExplorerInv', NEW a \in BagToSet(answered), DeleteSucceeded(a)
    PROVE  SyncPart'
<1>. DEFINE me == a.request.me
            n == tree.nodes[me].parent
            p == getPath(tree, me)
            u == refresh(tree, n).tree
            B == refresh(tree, n).requests
<1>1. /\ answered' = answered (-) SetToBag({a}) /\ UNCHANGED <<db, selected, hurried>>
      /\ a.request.op \in {"delete", "cutDelete"} /\ a.reply.ok
      /\ IF n = Null THEN sent' = sent /\ Becomes(tree)
         ELSE sent' = sent (+) B /\ Becomes(u)
  BY DEF DeleteSucceeded, Handle, Send
<1>2. /\ ExplorerInv /\ TreeInv(tree) /\ LinkInv(tree) /\ Root \in DOMAIN db
      /\ selected \in Objects(tree) \cup {Null} /\ a.request \in Pending
  BY DEF SyncInv, ExplorerInv, SelectedInv, SyncPart, Exists, TreeInv, Pending
<1>3. n \in Objects(tree) \cup {Null}
  <2>1. me \in Objects(tree)
    BY <1>1, <1>2, CalledFor
  <2>. HIDE DEF me
  <2>. QED BY <1>2, <2>1 DEF LinkInv
<1>4. ASSUME Calm(tree, db, sent, SetToBag({a}), selected)
      PROVE  /\ n # Null /\ BoundTo(tree, n, Parent(p)) /\ sent = EmptyBag
             /\ Calm(u, db, EmptyBag (+) B, EmptyBag, selected)
  <2>1. Done(a) /\ Refreshed(tree, a.request) = Parent(p) /\ a.request.op # "reset"
    BY <1>1 DEF Done, Refreshed, Edits
  <2>2. /\ sent = EmptyBag /\ PlainInv(tree)
        /\ Len(p) > 1 => n # Null /\ BoundTo(tree, n, Parent(p))
        /\ a.request.op \in {"delete", "cutDelete"} => Len(p) > 1
    BY <1>2, <1>4, <2>1, DoneWhere
  <2>. DEFINE P == Parent(p)
  <2>3. n # Null /\ BoundTo(tree, n, P)
    BY <1>1, <2>2
  <2>. HIDE DEF n, p
  <2>4. B = SetToBag({Ask("list", P, n)})
    BY <1>2, <2>2, <2>3, RefreshRedrawn
  <2>5. Asks(tree, B, n, P)
    BY <2>4, OneAsk
  <2>. HIDE DEF B
  <2>6. P = Refreshed(tree, a.request)
    BY <2>1
  <2>. HIDE DEF P
  <2>7. Calm(u, db, EmptyBag (+) B, EmptyBag, selected)
    BY <1>2, <1>4, <2>1, <2>3, <2>5, <2>6, FilledAnew
  <2>. QED BY <2>2, <2>3, <2>7 DEF P
<1>5. CASE n = Null
  <2>1. sent' = sent /\ Becomes(tree) /\ \A r \in BagToSet(sent') : r \in Pending
    BY <1>1, <1>5 DEF Pending
  <2>2. ~Calm(tree, db, sent, SetToBag({a}), selected)
    BY <1>4, <1>5
  <2>. HIDE DEF n
  <2>. QED BY <1>1, <1>2, <2>1, <2>2, AnswerSync
<1>6. CASE n # Null
  <2>1. n \in Objects(tree) /\ sent' = sent (+) B /\ Becomes(u)
    BY <1>1, <1>3, <1>6
  <2>. HIDE DEF n
  <2>2. KeepsRow(tree, u, n) /\ \E url : B = SetToBag({Ask("list", url, n)})
    BY <1>2, <2>1, RefreshProperties
  <2>. HIDE DEF u, B
  <2>3. TreeInv(u) /\ Objects(tree) \subseteq Objects(u)
    BY <2>2 DEF KeepsRow, Keeps
  <2>4. \A r \in BagToSet(sent') : r \in Pending \/ r.me \in Objects(u) \cup {Null}
    <3>1. PICK url : B = SetToBag({Ask("list", url, n)})
      BY <2>2
    <3>2. BagToSet(B) = {Ask("list", url, n)} /\ Ask("list", url, n).me = n
      BY <3>1, BagFacts, AskFields
    <3>3. BagToSet(sent (+) B) = BagToSet(sent) \cup BagToSet(B)
      BY BagFacts
    <3>. QED BY <2>1, <2>3, <3>2, <3>3 DEF Pending
  <2>5. Calm(tree, db, sent, SetToBag({a}), selected) => Calm(u, db, sent', EmptyBag, selected)
    BY <1>4, <2>1
  <2>. QED BY <1>1, <1>2, <2>1, <2>3, <2>4, <2>5, AnswerSync
<1>. QED BY <1>5, <1>6

\* A new display name shows in the row above, whose info is asked for too.
LEMMA AsksBoth ==
    ASSUME NEW t, NEW p \in Paths, NEW me, NEW q, q # p, ~StrictlyWithin(q, p),
           NEW n, BoundTo(t, n, q)
    PROVE  Asks(t, SetToBag({Ask("list", p, me)}) (+) SetToBag({Ask("info", q, n)}), me, p)
<1>. DEFINE list == Ask("list", p, me)
            info == Ask("info", q, n)
            B == SetToBag({list})
            C == SetToBag({info})
<1>1. /\ list.op = "list" /\ list.url = p /\ list.me = me
      /\ info.op = "info" /\ info.url = q /\ info.me = n
  BY AskFields
<1>. HIDE DEF list, info
<1>2. /\ BagToSet(B) = {list} /\ BagToSet(C) = {info} /\ IsABag(B) /\ IsABag(C) /\ B[list] = 1
  <2>1. BagToSet(B) = {list} /\ BagToSet(C) = {info}
    BY BagFacts
  <2>2. IsABag(B) /\ IsABag(C) /\ B[list] = 1
    BY DEF IsABag, SetToBag
  <2>. QED BY <2>1, <2>2
<1>. HIDE DEF B, C
<1>3. /\ IsABag(B (+) C) /\ BagToSet(B (+) C) = BagToSet(B) \cup BagToSet(C)
      /\ \A y \in BagToSet(B (+) C) : y \notin BagToSet(C) => (B (+) C)[y] = B[y]
  BY <1>2, BagPut
<1>4. list # info
  BY <1>1
<1>5. (B (+) C)[list] = 1
  BY <1>2, <1>3, <1>4
<1>6. Asks(t, B (+) C, me, p)
  BY <1>1, <1>2, <1>3, <1>5 DEF Asks, list
<1>. QED BY <1>6 DEF B, C, list, info

LEMMA NothingAdded ==
    ASSUME NEW x
    PROVE  SetToBag({x}) (+) EmptyBag = SetToBag({x})
<1>1. /\ DOMAIN SetToBag({x}) = {x} /\ DOMAIN EmptyBag = {} /\ SetToBag({x})[x] = 1
      /\ SetToBag({x}) = [y \in {x} |-> 1]
  BY DEF EmptyBag, SetToBag
<1>. QED BY <1>1 DEF (+)

LEMMA WriteSucceededSync ==
    ASSUME SyncInv, ExplorerInv', NEW a \in BagToSet(answered), WriteSucceeded(a)
    PROVE  SyncPart'
<1>. DEFINE me == a.request.me
            p == getPath(tree, me)
            u == refresh(tree, me).tree
            B == refresh(tree, me).requests
            n == u.nodes[me].parent
            shows == /\ a.request.op = "put" /\ a.request.url = p
                     /\ tree.nodes[me].name = DisplayName /\ n # Null
            info == Ask("info", getPath(u, n), n)
            C == IF shows THEN SetToBag({info}) ELSE EmptyBag
<1>1. /\ answered' = answered (-) SetToBag({a}) /\ UNCHANGED <<db, selected, hurried>>
      /\ a.request.op \in {"put", "paste", "post"} /\ a.reply.ok
      /\ sent' = sent (+) (B (+) C) /\ Becomes(u)
  BY DEF WriteSucceeded, Handle, Send
<1>2. /\ ExplorerInv /\ TreeInv(tree) /\ LinkInv(tree) /\ Root \in DOMAIN db
      /\ selected \in Objects(tree) \cup {Null} /\ a.request \in Pending
  BY DEF SyncInv, ExplorerInv, SelectedInv, SyncPart, Exists, TreeInv, Pending
<1>3. me \in Objects(tree)
  BY <1>1, <1>2, CalledFor
<1>4. ASSUME Calm(tree, db, sent, SetToBag({a}), selected)
      PROVE  Calm(u, db, EmptyBag (+) (B (+) C), EmptyBag, selected) /\ sent = EmptyBag
  <2>1. Done(a) /\ Refreshed(tree, a.request) = p /\ a.request.op # "reset"
    BY <1>1 DEF Done, Refreshed, Edits
  <2>2. sent = EmptyBag /\ PlainInv(tree) /\ BoundTo(tree, me, p)
    BY <1>2, <1>4, <2>1, DoneWhere
  <2>3. Redrawn(tree, u, me, p, "-") /\ B = SetToBag({Ask("list", p, me)})
    BY <1>2, <2>2, RefreshRedrawn
  <2>4. p = Refreshed(tree, a.request)
    BY <2>1
  <2>. HIDE DEF p, me, u, B
  <2>5. shows => /\ getPath(u, n) = Parent(p) /\ BoundTo(tree, n, Parent(p))
                 /\ Parent(p) # p /\ ~StrictlyWithin(Parent(p), p) /\ p \in Paths
    <3>. HAVE shows
    <3>0. n # Null
      OBVIOUS
    <3>1. /\ TreeInv(u) /\ PlainInv(u) /\ BoundTo(u, me, p)
          /\ \A q \in Paths : ~StrictlyWithin(q, p) /\ q # p => u.dom[q] = tree.dom[q]
      BY <2>3 DEF Redrawn
    <3>2. p \in Paths /\ IsShown(u, p) /\ me = NodeAt(u, p)
      BY <3>1 DEF BoundTo, IsShown
    <3>3. Len(p) > 1
      <4>. SUFFICES ASSUME p = Root PROVE FALSE
        BY <3>2, PathParts
      <4>1. BoundTo(u, dataRoot, Root)
        BY <3>1, RootBound
      <4>2. me = dataRoot
        BY <3>2, <4>1 DEF BoundTo
      <4>3. u.nodes[dataRoot].parent = Null
        BY <3>1 DEF TreeInv, LinkInv
      <4>. QED BY <3>0, <4>2, <4>3
    <3>4. /\ Parent(p) \in Paths /\ IsShown(u, Parent(p)) /\ n = NodeAt(u, Parent(p))
      BY <3>1, <3>2, <3>3, ShownFacts
    <3>5. getPath(u, n) = Parent(p)
      BY <3>1, <3>4, ShownFacts
    <3>6. Parent(p) # p /\ ~StrictlyWithin(Parent(p), p)
      <4>1. Parent(p) # p
        BY <3>2, <3>3, PathParts
      <4>2. Len(Parent(p)) = Len(p) - 1 /\ Len(p) \in Nat /\ Len(Parent(p)) \in Nat
        <5>1. p \in Seq(Names)
          BY <3>2, PathsTypes
        <5>2. Len(Parent(p)) = Len(p) - 1
          BY <3>3, <5>1, ParentElements
        <5>. QED BY <3>2, <3>4, <5>2, PathParts
      <4>3. StrictlyWithin(Parent(p), p) => Len(Parent(p)) > Len(p)
        BY <3>2, <3>4, StrictFacts
      <4>. QED BY <4>1, <4>2, <4>3
    <3>7. u.dom[Parent(p)] = tree.dom[Parent(p)]
      BY <3>1, <3>4, <3>6
    <3>8. BoundTo(tree, n, Parent(p))
      BY <3>4, <3>7 DEF BoundTo, IsShown, NodeAt
    <3>. QED BY <3>2, <3>5, <3>6, <3>8
  <2>. HIDE DEF n
  <2>6. Asks(tree, B (+) C, me, p)
    <3>1. CASE shows
      <4>. DEFINE q == Parent(p)
      <4>1. C = SetToBag({Ask("info", q, n)})
        BY <2>5, <3>1
      <4>2. BoundTo(tree, n, q) /\ q # p /\ ~StrictlyWithin(q, p) /\ p \in Paths
        BY <2>5, <3>1
      <4>. HIDE DEF C, q
      <4>3. Asks(tree, SetToBag({Ask("list", p, me)}) (+) SetToBag({Ask("info", q, n)}), me, p)
        BY <4>2, AsksBoth
      <4>. QED BY <2>3, <4>1, <4>3
    <3>2. CASE ~shows
      <4>1. B (+) C = B
        BY <2>3, <3>2, NothingAdded
      <4>. QED BY <2>3, <4>1, OneAsk
    <3>. QED BY <3>1, <3>2
  <2>. DEFINE T == B (+) C
  <2>7. Asks(tree, T, me, p)
    BY <2>6
  <2>. HIDE DEF T, C
  <2>8. Calm(refresh(tree, me).tree, db, EmptyBag (+) T, EmptyBag, selected)
    BY <1>2, <1>4, <2>1, <2>2, <2>4, <2>7, FilledAnew
  <2>. QED BY <2>2, <2>8 DEF T, u
<1>5. KeepsRow(tree, u, me) /\ \E url : B = SetToBag({Ask("list", url, me)})
  <2>. HIDE DEF me
  <2>. QED BY <1>2, <1>3, RefreshProperties
<1>. HIDE DEF u, B, me
<1>6. TreeInv(u) /\ Objects(u) = Objects(tree)
  BY <1>5 DEF KeepsRow
<1>7. n \in Objects(u) \cup {Null}
  BY <1>3, <1>6 DEF TreeInv, LinkInv
<1>. HIDE DEF n
<1>8. \A r \in BagToSet(sent') : r \in Pending \/ r.me \in Objects(u) \cup {Null}
  <2>1. PICK url : B = SetToBag({Ask("list", url, me)})
    BY <1>5
  <2>2. BagToSet(B) = {Ask("list", url, me)} /\ Ask("list", url, me).me = me
    BY <2>1, BagFacts, AskFields
  <2>3. BagToSet(C) \subseteq {info}
    BY BagFacts
  <2>. DEFINE q == getPath(u, n)
  <2>4. info = Ask("info", q, n)
    OBVIOUS
  <2>. HIDE DEF C, info, q
  <2>5. info.me = n
    BY <2>4, AskFields
  <2>6. BagToSet(sent (+) (B (+) C)) = BagToSet(sent) \cup (BagToSet(B) \cup BagToSet(C))
    BY BagFacts
  <2>. QED BY <1>1, <1>3, <1>6, <1>7, <2>2, <2>3, <2>5, <2>6 DEF Pending
<1>9. Calm(tree, db, sent, SetToBag({a}), selected) => Calm(u, db, sent', EmptyBag, selected)
  BY <1>1, <1>4
<1>10. Objects(tree) \subseteq Objects(u)
  BY <1>6
<1>. HIDE DEF C
<1>. QED BY <1>1, <1>2, <1>6, <1>8, <1>9, <1>10, AnswerSync
-------------------------------------------------------------------------------
(* The answer of a list.                                                   *)

LEMMA MemberFacts ==
    ASSUME NEW p \in Paths
    PROVE  /\ \A m \in Members(p) : LET c == Append(p, m.name) IN
                /\ c \in Children(p) /\ c \in Paths /\ Exists(c) /\ NameIn(c) = m.name
                /\ m.name # Writable /\ m.info = Info(c)
           /\ \A c \in Children(p) : Exists(c) /\ NameIn(c) # Writable =>
                \E m \in Members(p) : Append(p, m.name) = c
           /\ \A m, n \in Members(p) : m.name = n.name => m = n
<1>. DEFINE S == {c \in Children(p) : Exists(c) /\ NameIn(c) # Writable}
            F(q) == [name |-> NameIn(q), info |-> Info(q), writable |-> OwnFlag(q)]
<1>1. Members(p) = {F(q) : q \in S}
  BY DEF Members
<1>2. \A q \in S : /\ F(q).name = NameIn(q) /\ F(q).info = Info(q)
                   /\ q \in Children(p) /\ q \in Paths /\ Exists(q) /\ NameIn(q) # Writable
  BY DEF Children
<1>3. \A q \in S : Append(p, NameIn(q)) = q
  BY <1>2, ChildFacts
<1>4. \A m \in Members(p) : \E q \in S : m = F(q)
  BY <1>1
<1>5. \A q \in S : F(q) \in Members(p)
  BY <1>1
<1>6. \A c \in Children(p) : Exists(c) /\ NameIn(c) # Writable => c \in S
  OBVIOUS
<1>. HIDE DEF S, F
<1>7. ASSUME NEW m \in Members(p)
      PROVE  LET c == Append(p, m.name) IN
             /\ c \in Children(p) /\ c \in Paths /\ Exists(c) /\ NameIn(c) = m.name
             /\ m.name # Writable /\ m.info = Info(c)
  <2>1. PICK q \in S : m = F(q)
    BY <1>4
  <2>2. Append(p, m.name) = q
    BY <1>2, <1>3, <2>1
  <2>. QED BY <1>2, <2>1, <2>2
<1>8. ASSUME NEW c \in Children(p), Exists(c), NameIn(c) # Writable
      PROVE  \E m \in Members(p) : Append(p, m.name) = c
  <2>1. c \in S
    BY <1>6, <1>8
  <2>. QED BY <1>2, <1>3, <1>5, <2>1
<1>9. ASSUME NEW m \in Members(p), NEW n \in Members(p), m.name = n.name PROVE m = n
  <2>1. PICK q \in S : m = F(q)
    BY <1>4
  <2>2. PICK r \in S : n = F(r)
    BY <1>4
  <2>3. NameIn(q) = NameIn(r)
    BY <1>2, <1>9, <2>1, <2>2
  <2>4. q = r
    BY <1>3, <2>3
  <2>. QED BY <2>1, <2>2, <2>4
<1>. QED BY <1>7, <1>8, <1>9

\* What is asked for when the rows of p are there.
Follows(t, me, p) ==
    {Ask("info", getPath(t, s), s) : s \in t.nodes[me].subs} \cup {Ask("exists", Append(p, Writable), me)}

LEMMA FollowsFacts ==
    ASSUME NEW t, NEW me, NEW p, NEW S, CallsInv(S, EmptyBag), \A r \in BagToSet(S) : r.op = "info"
    PROVE  LET T == S (+) SetToBag(Follows(t, me, p)) IN
           /\ CallsInv(T, EmptyBag) /\ BagToSet(T) = BagToSet(S) \cup Follows(t, me, p)
           /\ \A r \in Follows(t, me, p) :
                 \/ r.op = "info" /\ \E s \in t.nodes[me].subs : r.me = s /\ r.url = getPath(t, s)
                 \/ r.op = "exists" /\ r.url = Append(p, Writable) /\ r.me = me
           /\ \E r \in Follows(t, me, p) : r.op = "exists" /\ r.url = Append(p, Writable)
<1>. DEFINE R == Follows(t, me, p)
            T == S (+) SetToBag(R)
            e == Ask("exists", Append(p, Writable), me)
<1>1. e.op = "exists" /\ e.url = Append(p, Writable) /\ e.me = me
  BY DEF Ask, Request
<1>2. e \in R
  BY DEF Follows
<1>3. ASSUME NEW r \in R
      PROVE  \/ r = e
             \/ r.op = "info" /\ \E s \in t.nodes[me].subs : r.me = s /\ r.url = getPath(t, s)
  <2>. SUFFICES ASSUME r # e
                PROVE  r.op = "info" /\ \E s \in t.nodes[me].subs : r.me = s /\ r.url = getPath(t, s)
    OBVIOUS
  <2>1. PICK s \in t.nodes[me].subs : r = Ask("info", getPath(t, s), s)
    BY DEF Follows
  <2>. DEFINE q == getPath(t, s)
  <2>2. r = Ask("info", q, s)
    BY <2>1
  <2>. HIDE DEF q
  <2>3. r.op = "info" /\ r.url = q /\ r.me = s
    BY <2>2, AskFields
  <2>. QED BY <2>3 DEF q
<1>. HIDE DEF R, e
<1>4. /\ IsABag(SetToBag(R)) /\ BagToSet(SetToBag(R)) = R /\ \A r \in R : SetToBag(R)[r] = 1
  BY DEF IsABag, SetToBag, BagToSet
<1>5. IsABag(S)
  BY DEF CallsInv
<1>6. /\ IsABag(T) /\ BagToSet(T) = BagToSet(S) \cup R
      /\ \A y \in BagToSet(T) : y \notin BagToSet(S) => T[y] = SetToBag(R)[y]
  BY <1>4, <1>5, BagPut
<1>. HIDE DEF T
<1>7. \A r \in BagToSet(T) : r.op # "info" => r = e
  BY <1>3, <1>6
<1>8. \A r \in BagToSet(T) : r.op # "info" => T[r] = 1
  BY <1>2, <1>4, <1>6, <1>7
<1>9. \A r \in BagToSet(T) : r.op \in Updates
  BY <1>1, <1>7 DEF Updates
<1>10. CallsInv(T, EmptyBag)
  <2>1. Pended(T, EmptyBag) = BagToSet(T) /\ BagToSet(EmptyBag) = {}
    BY NoAnswers
  <2>2. \A r, q \in BagToSet(T) : r = q \/ r.op = "info" \/ q.op = "info"
    BY <1>7
  <2>. QED BY <1>6, <1>8, <1>9, <2>1, <2>2 DEF CallsInv
<1>. QED BY <1>1, <1>2, <1>3, <1>6, <1>10 DEF R, T

\* The rows of p are made: v, from t where p has none.
MadeRows(t, v, me, p) ==
    /\ TreeInv(v) /\ PlainInv(v) /\ BoundTo(v, me, p) /\ OpenIn(v, p)
    /\ Objects(t) \subseteq Objects(v)
    /\ \A n, q : BoundTo(t, n, q) => BoundTo(v, n, q)
    /\ \A n \in Objects(t) : Attached(t, n) => Attached(v, n)
    /\ \A q \in Paths : q # p /\ q \notin Children(p) => v.dom[q] = t.dom[q]
    /\ canHaveValue(NameIn(p)) =>
          v.dom[p][1].info = IF Info(p) = NoInfo THEN t.dom[p][1].info ELSE Info(p)
    /\ \A q \in Children(p) :
          /\ t.dom[q] = <<>>
          /\ IF Exists(q) /\ NameIn(q) # Writable
             THEN v.dom[q] # <<>> /\ v.dom[q][1].text = "+" /\ v.dom[q][1].info = Info(q)
             ELSE v.dom[q] = <<>>

LEMMA RowsAreMade ==
    ASSUME DbInv, NEW t, TreeInv(t), PlainInv(t), NEW me, NEW p,
           BoundTo(t, me, p), OpenIn(t, p), t.nodes[me].subs = {}, Exists(p),
           NEW data, data.info = Info(p), data.writable \in Texts
    PROVE  LET v == Filled(Informed(t, me, data), me, Members(p)) IN MadeRows(t, v, me, p)
<1>. DEFINE u == Informed(t, me, data)
            S == Members(p)
            v == Filled(u, me, S)
<1>1. p \in Paths /\ me = NodeAt(t, p) /\ Info(p) \in Texts
  BY DbTypes DEF BoundTo, IsShown
<1>2. InformedBy(t, u, me, p, data.info)
  BY <1>1, InformedIsExact
<1>. HIDE DEF u
<1>3. /\ TreeInv(u) /\ PlainInv(u) /\ Objects(u) = Objects(t) /\ BoundTo(u, me, p)
      /\ \A m \in Objects(t) : getPath(u, m) = getPath(t, m) /\ u.nodes[m].subs = t.nodes[m].subs
      /\ \A q \in Paths : /\ q # p => u.dom[q] = t.dom[q]
                          /\ u.dom[q] = <<>> <=> t.dom[q] = <<>>
      /\ \A m, q : BoundTo(u, m, q) <=> BoundTo(t, m, q)
      /\ u.dom[p][1].text = t.dom[p][1].text
      /\ canHaveValue(NameIn(p)) =>
            u.dom[p][1].info = IF Info(p) = NoInfo THEN t.dom[p][1].info ELSE Info(p)
  BY <1>2 DEF InformedBy
<1>4. \A q \in Children(p) : q \in Paths /\ q # p /\ t.dom[q] = <<>> /\ u.dom[q] = <<>>
  <2>. SUFFICES ASSUME NEW q \in Children(p)
                PROVE  q \in Paths /\ q # p /\ t.dom[q] = <<>> /\ u.dom[q] = <<>>
    OBVIOUS
  <2>1. q \in Paths
    BY DEF Children
  <2>2. StrictlyWithin(q, p) /\ q # p
    BY <1>1, <2>1, ChildFacts
  <2>3. ~IsShown(t, q)
    BY <2>1, <2>2, NothingBelow
  <2>. QED BY <1>3, <2>1, <2>2, <2>3 DEF IsShown
<1>5. /\ \A m \in S : LET c == Append(p, m.name) IN
            /\ c \in Children(p) /\ c \in Paths /\ Exists(c) /\ NameIn(c) = m.name
            /\ m.name # Writable /\ m.info = Info(c)
      /\ \A c \in Children(p) : Exists(c) /\ NameIn(c) # Writable =>
            \E m \in S : Append(p, m.name) = c
      /\ \A m, n \in S : m.name = n.name => m = n
  BY <1>1, MemberFacts
<1>6. S \in SUBSET Listed /\ IsFiniteSet(S)
  BY <1>1, MembersAreListed
<1>. HIDE DEF S
<1>7. \A m \in S : Append(p, m.name) \in Paths /\ u.dom[Append(p, m.name)] = <<>>
  BY <1>4, <1>5
<1>8. \A m, n \in S : m.name = n.name => m = n
  BY <1>5
<1>9. FilledBy(u, v, me, p, S)
  BY <1>3, <1>6, <1>7, <1>8, FilledIsExact
<1>. HIDE DEF v
<1>10. /\ Grown(u, v)
       /\ \A q \in Paths : (\A m \in S : q # Append(p, m.name)) => v.dom[q] = u.dom[q]
       /\ \A m \in S : LET c == Append(p, m.name) IN
             v.dom[c] # <<>> /\ v.dom[c][1].text = "+" /\ v.dom[c][1].info = m.info
  BY <1>9 DEF FilledBy
<1>11. /\ TreeInv(v) /\ PlainInv(v) /\ Objects(u) \subseteq Objects(v)
       /\ \A q \in Paths : u.dom[q] # <<>> => v.dom[q] = u.dom[q]
  BY <1>10 DEF Grown
<1>12. /\ \A n, q : BoundTo(u, n, q) => BoundTo(v, n, q)
       /\ \A n \in Objects(u) : Attached(u, n) => Attached(v, n)
  BY <1>3, <1>10, GrownKeeps
<1>13. \A n, q : BoundTo(t, n, q) => BoundTo(v, n, q)
  BY <1>3, <1>12
<1>14. \A n \in Objects(t) : Attached(t, n) => Attached(v, n)
  <2>1. \A n \in Objects(t) : Attached(t, n) => Attached(u, n)
    BY <1>3 DEF Attached, Cut
  <2>. QED BY <1>3, <1>12, <2>1
<1>15. v.dom[p] = u.dom[p] /\ t.dom[p] # <<>> /\ u.dom[p] # <<>>
  BY <1>1, <1>3, <1>11 DEF BoundTo, IsShown
<1>16. BoundTo(v, me, p) /\ OpenIn(v, p)
  BY <1>3, <1>13, <1>15 DEF OpenIn, IsShown
<1>17. \A q \in Paths : q # p /\ q \notin Children(p) => v.dom[q] = t.dom[q]
  BY <1>3, <1>5, <1>10
<1>18. ASSUME NEW q \in Children(p)
       PROVE  IF Exists(q) /\ NameIn(q) # Writable
              THEN v.dom[q] # <<>> /\ v.dom[q][1].text = "+" /\ v.dom[q][1].info = Info(q)
              ELSE v.dom[q] = <<>>
  <2>1. CASE Exists(q) /\ NameIn(q) # Writable
    <3>1. PICK m \in S : Append(p, m.name) = q
      BY <1>5, <2>1
    <3>. QED BY <1>5, <1>10, <2>1, <3>1
  <2>2. CASE ~(Exists(q) /\ NameIn(q) # Writable)
    <3>1. \A m \in S : q # Append(p, m.name)
      BY <1>5, <2>2
    <3>. QED BY <1>4, <1>10, <2>2, <3>1
  <2>. QED BY <2>1, <2>2
<1>19. MadeRows(t, v, me, p)
  BY <1>3, <1>4, <1>11, <1>13, <1>14, <1>15, <1>16, <1>17, <1>18 DEF MadeRows
<1>. QED BY <1>19 DEF u, v, S

LEMMA MadeIsRight ==
    ASSUME NEW t, NEW v, NEW me, NEW p \in Paths, IsShown(t, p), MadeRows(t, v, me, p), Exists(p),
           NEW I, NEW J, \A q \in I : q = p \/ q \in J, \A q \in Paths \ Children(p) : RowRight(t, db, I, q),
           NEW q \in Paths, q # Append(p, Writable)
    PROVE  RowRight(v, db, J, q)
<1>1. /\ OpenIn(v, p)
      /\ \A x \in Paths : x # p /\ x \notin Children(p) => v.dom[x] = t.dom[x]
      /\ canHaveValue(NameIn(p)) =>
            v.dom[p][1].info = IF Info(p) = NoInfo THEN t.dom[p][1].info ELSE Info(p)
      /\ \A x \in Children(p) :
            /\ t.dom[x] = <<>>
            /\ IF Exists(x) /\ NameIn(x) # Writable
               THEN v.dom[x] # <<>> /\ v.dom[x][1].text = "+" /\ v.dom[x][1].info = Info(x)
               ELSE v.dom[x] = <<>>
  BY DEF MadeRows
<1>2. \A x \in Paths : canHaveValue(NameIn(x)) => Info(x) = db[x]
  BY DEF Info
<1>3. CASE q \in Children(p)
  <2>1. Len(q) > 1 /\ Parent(q) = p /\ q = Append(p, NameIn(q)) /\ NameIn(q) # Writable
    BY <1>3, ChildFacts
  <2>2. IsShown(v, q) <=> Exists(q)
    BY <1>1, <1>3, <2>1 DEF IsShown
  <2>3. IsShown(v, q) => v.dom[q][1].info = Info(q)
    BY <1>1, <1>3, <2>1 DEF IsShown
  <2>. QED BY <1>1, <1>2, <2>1, <2>2, <2>3 DEF RowRight, Exists
<1>4. CASE q \notin Children(p)
  <2>1. RowRight(t, db, I, q)
    BY <1>4
  <2>2. q # Root => Len(q) > 1 /\ Parent(q) \in Paths /\ Parent(q) # q /\ Parent(q) # p
    <3>. HAVE q # Root
    <3>1. Len(q) > 1 /\ Parent(q) \in Paths /\ Parent(q) # q
      BY PathParts
    <3>2. Parent(q) # p
      BY <1>4, <3>1, ChildFacts
    <3>. QED BY <3>1, <3>2
  <2>3. q # Root => (OpenIn(v, Parent(q)) <=> OpenIn(t, Parent(q)))
    <3>. HAVE q # Root
    <3>1. CASE Parent(q) \in Children(p)
      <4>1. ~OpenIn(t, Parent(q)) /\ ~OpenIn(v, Parent(q))
        BY <1>1, <3>1 DEF OpenIn, IsShown
      <4>. QED BY <4>1
    <3>2. CASE Parent(q) \notin Children(p)
      <4>1. v.dom[Parent(q)] = t.dom[Parent(q)]
        BY <1>1, <2>2, <3>2
      <4>. QED BY <4>1 DEF OpenIn, IsShown
    <3>. QED BY <3>1, <3>2
  <2>4. CASE q = p
    <3>1. IsShown(v, p)
      BY <1>1 DEF OpenIn
    <3>2. canHaveValue(NameIn(p)) => v.dom[p][1].info = db[p]
      <4>. HAVE canHaveValue(NameIn(p))
      <4>1. t.dom[p][1].info = db[p] \/ db[p] # NoInfo
        BY <2>1, <2>4 DEF RowRight
      <4>. QED BY <1>1, <1>2, <4>1
    <3>. QED BY <2>1, <2>3, <2>4, <3>1, <3>2 DEF RowRight
  <2>5. CASE q # p
    <3>1. v.dom[q] = t.dom[q]
      BY <1>1, <1>4, <2>5
    <3>2. IsShown(v, q) <=> IsShown(t, q)
      BY <3>1 DEF IsShown
    <3>3. q \in I => q \in J
      BY <2>5
    <3>. QED BY <2>1, <2>3, <3>1, <3>2, <3>3 DEF RowRight
  <2>. QED BY <2>4, <2>5
<1>. QED BY <1>3, <1>4

LEMMA ExpandedIsCalm ==
    ASSUME DbInv, NEW t, TreeInv(t), NEW S, NEW a, NEW sel \in Objects(t) \cup {Null},
           Calm(t, db, S, SetToBag({a}), sel),
           a.request.op = "list", a.reply.info = Info(a.request.url),
           a.reply.members = Members(a.request.url), a.reply.writable \in Texts
    PROVE  LET me == a.request.me
               p  == a.request.url
               v  == Filled(Informed(t, me, a.reply), me, a.reply.members)
           IN  Calm(v, db, S (+) SetToBag(Follows(v, me, p)), EmptyBag, sel)
<1>. DEFINE me == a.request.me
            p  == a.request.url
            A  == SetToBag({a})
            v  == Filled(Informed(t, me, a.reply), me, Members(p))
            R  == Follows(v, me, p)
            T  == S (+) SetToBag(R)
            I  == DueInfos(t, S, A)
            J  == DueInfos(v, T, EmptyBag)
<1>1. PlainInv(t) /\ CallsInv(S, A) /\ Attends(t, sel)
  BY DEF Calm, Attends
<1>2. a \in BagToSet(A) /\ BagToSet(A) = {a}
  BY BagFacts
<1>3. ListInv(t, db, a.request)
  <2>1. Lone(t, db, S, a, sel)
    BY LoneAnswer
  <2>. QED BY <2>1 DEF Lone, CallInv
<1>4. BoundTo(t, me, p) /\ OpenIn(t, p) /\ Exists(p) /\ t.nodes[me].subs = {}
  BY <1>3 DEF ListInv, Exists
<1>5. p \in Paths /\ IsShown(t, p)
  BY <1>4 DEF BoundTo, IsShown
<1>6. \A r \in BagToSet(S) : r.op = "info"
  <2>. HIDE DEF A
  <2>. QED BY <1>1, <1>2, AnswerAlone
<1>7. Pended(S, A) = BagToSet(S) \cup {a.request}
  BY <1>2 DEF Pended
<1>8. /\ \A q \in DueRows(t, S, A) : q \in Children(p)
      /\ \A q \in I : q = p \/ \E r \in BagToSet(S) : q = r.url
  <2>1. ~Done(a)
    BY DEF Done, Edits
  <2>. HIDE DEF A
  <2>2. \A q \in DueRows(t, S, A) : q \in Children(p)
    BY <1>2, <1>6, <1>7, <2>1 DEF DueRows
  <2>3. \A q \in I : q = p \/ \E r \in BagToSet(S) : q = r.url
    BY <1>2, <1>6, <1>7, <2>1 DEF DueInfos
  <2>. QED BY <2>2, <2>3
<1>. HIDE DEF A
<1>9. MadeRows(t, v, me, p)
  <2>. DEFINE data == a.reply
  <2>1. data.info = Info(p) /\ data.writable \in Texts
    OBVIOUS
  <2>. HIDE DEF data, me, p
  <2>. QED BY <1>1, <1>4, <2>1, RowsAreMade DEF data
<1>10. v = Filled(Informed(t, me, a.reply), me, a.reply.members)
  OBVIOUS
<1>. HIDE DEF v, me, p
<1>11. CallsInv(S, EmptyBag)
  <2>1. Pended(S, EmptyBag) \subseteq Pended(S, A) /\ BagToSet(EmptyBag) = {}
    BY <1>7, NoAnswers
  <2>2. IsABag(S) /\ \A r \in BagToSet(S) : r.op # "info" => S[r] = 1
    BY <1>1 DEF CallsInv
  <2>3. \A r, q \in Pended(S, EmptyBag) :
           r = q \/ (r.op \in Updates /\ q.op \in Updates /\ (r.op = "info" \/ q.op = "info"))
    BY <1>1, <2>1 DEF CallsInv
  <2>. QED BY <2>2, <2>3 DEF CallsInv
<1>12. /\ CallsInv(T, EmptyBag) /\ BagToSet(T) = BagToSet(S) \cup R
       /\ \A r \in R : \/ r.op = "info" /\ \E s \in v.nodes[me].subs : r.me = s /\ r.url = getPath(v, s)
                       \/ r.op = "exists" /\ r.url = Append(p, Writable) /\ r.me = me
       /\ \E r \in R : r.op = "exists" /\ r.url = Append(p, Writable)
  BY <1>6, <1>11, FollowsFacts
<1>. HIDE DEF T, R
<1>13. /\ TreeInv(v) /\ PlainInv(v) /\ BoundTo(v, me, p) /\ OpenIn(v, p)
       /\ \A n, q : BoundTo(t, n, q) => BoundTo(v, n, q)
       /\ \A n \in Objects(t) : Attached(t, n) => Attached(v, n)
  BY <1>9 DEF MadeRows
<1>14. ASSUME NEW r \in BagToSet(T) PROVE CallInv(v, db, r)
  <2>1. CASE r \in BagToSet(S)
    <3>1. r.op = "info" /\ CallInv(t, db, r)
      BY <1>6, <1>7, <2>1 DEF Calm, A
    <3>2. BoundTo(v, r.me, r.url)
      BY <1>13, <3>1 DEF CallInv
    <3>. QED BY <3>1, <3>2 DEF CallInv, Edits
  <2>2. CASE r \in R /\ r.op = "info"
    <3>1. PICK s \in v.nodes[me].subs : r.me = s /\ r.url = getPath(v, s)
      BY <1>12, <2>2
    <3>2. BoundTo(v, s, getPath(v, s))
      BY <1>13, SubFacts
    <3>3. BoundTo(v, r.me, r.url)
      BY <3>1, <3>2
    <3>. QED BY <2>2, <3>3 DEF CallInv, Edits
  <2>3. CASE r \in R /\ r.op # "info"
    <3>1. r.op = "exists" /\ r.url = Append(p, Writable) /\ r.me = me
      BY <1>12, <2>3
    <3>2. getPath(v, me) = p
      BY <1>13, BoundOnce
    <3>3. ~IsShown(v, r.url)
      <4>. SUFFICES ASSUME r.url \in Paths PROVE v.dom[r.url] = <<>>
        BY DEF IsShown
      <4>. DEFINE c == Append(p, Writable)
      <4>1. c \in Paths /\ Parent(c) = p /\ Len(c) = Len(p) + 1 /\ NameIn(c) = Writable
        <5>1. p \in Seq(Names) /\ Writable \in Names
          BY <1>5, PathsTypes DEF Names
        <5>2. Parent(Append(p, Writable)) = p /\ Len(Append(p, Writable)) = Len(p) + 1
          BY <5>1, AppendedName
        <5>3. NameIn(Append(p, Writable)) = Writable
          BY <5>1 DEF NameIn
        <5>. QED BY <3>1, <5>2, <5>3
      <4>. HIDE DEF c
      <4>2. c \in Children(p)
        <5>1. Len(p) > 0 /\ Len(p) \in Nat
          BY <1>5, PathParts
        <5>2. Len(c) > 1
          BY <4>1, <5>1
        <5>. QED BY <1>5, <4>1, <5>2, ChildFacts
      <4>3. v.dom[c] = <<>>
        BY <1>9, <4>1, <4>2 DEF MadeRows
      <4>. QED BY <3>1, <4>3 DEF c
    <3>4. ExistsInv(v, r)
      BY <1>13, <3>1, <3>2, <3>3 DEF ExistsInv
    <3>. QED BY <3>1, <3>4 DEF CallInv, Edits
  <2>. QED BY <1>12, <2>1, <2>2, <2>3
<1>15. ASSUME NEW q \in Paths \ DueRows(v, T, EmptyBag) PROVE RowRight(v, db, J, q)
  <2>1. q # Append(p, Writable)
    BY <1>12, <1>15, NoAnswers
  <2>2. \A x \in I : x = p \/ x \in J
    <3>1. \A r \in BagToSet(S) : r.op = "info" /\ r.url \in Paths
      <4>1. \A r \in BagToSet(S) : CallInv(t, db, r)
        BY <1>7 DEF Calm, A
      <4>. QED BY <1>6, <4>1 DEF CallInv, BoundTo, IsShown
    <3>2. \A r \in BagToSet(S) : r.url \in J
      BY <1>12, <3>1, NoAnswers
    <3>. QED BY <1>8, <3>2
  <2>3. \A x \in Paths \ Children(p) : RowRight(t, db, I, x)
    BY <1>8 DEF Calm, A
  <2>. HIDE DEF I, J
  <2>. QED BY <1>4, <1>5, <1>9, <2>1, <2>2, <2>3, MadeIsRight
<1>16. sel # Null => Attached(v, sel)
  BY <1>1, <1>13 DEF Attends
<1>17. Calm(v, db, T, EmptyBag, sel)
  <2>1. Pended(T, EmptyBag) = BagToSet(T) /\ BagToSet(EmptyBag) = {}
    BY NoAnswers
  <2>. QED BY <1>12, <1>13, <1>14, <1>15, <1>16, <2>1 DEF Calm
<1>. QED BY <1>10, <1>17 DEF T, R, me, p

LEMMA ExpandedSync ==
    ASSUME SyncInv, ExplorerInv', NEW a \in BagToSet(answered), Expanded(a)
    PROVE  SyncPart'
<1>. DEFINE me == a.request.me
            p == a.request.url
            reply == a.reply
            u == Informed(tree, me, reply)
            t == Filled(u, me, reply.members)
            R == Follows(t, me, p)
            B == SetToBag(R)
<1>1. /\ Handle(a, {"list"}) /\ Send(B) /\ Becomes(t)
  BY DEF Expanded, Filled, Follows
<1>2. /\ answered' = answered (-) SetToBag({a}) /\ UNCHANGED <<db, selected, hurried>>
      /\ a.request.op = "list" /\ a.reply.ok /\ sent' = sent (+) B
  BY <1>1 DEF Handle, Send
<1>3. /\ ExplorerInv /\ TreeInv(tree) /\ DbInv /\ a.request \in Pending /\ ReplyInv(a)
      /\ selected \in Objects(tree) \cup {Null}
  BY DEF SyncInv, ExplorerInv, Pending, SelectedInv
<1>4. /\ me \in Objects(tree)
      /\ reply.info \in Texts /\ reply.writable \in Texts
      /\ IsFiniteSet(reply.members) /\ reply.members \in SUBSET Listed
  BY <1>2, <1>3, CalledFor DEF ReplyInv, Listed
<1>5. Calm(tree, db, sent, SetToBag({a}), selected) /\ ListCurrent(a)
      => Calm(t, db, sent', EmptyBag, selected)
  <2>. HAVE Calm(tree, db, sent, SetToBag({a}), selected) /\ ListCurrent(a)
  <2>1. a.reply.info = Info(a.request.url) /\ a.reply.members = Members(a.request.url)
    BY <1>2 DEF ListCurrent
  <2>2. a.reply.writable \in Texts
    BY <1>4
  <2>3. Calm(t, db, sent (+) B, EmptyBag, selected)
    BY <1>2, <1>3, <2>1, <2>2, ExpandedIsCalm
  <2>. HIDE DEF B, t
  <2>. QED BY <1>2, <2>3
<1>. HIDE DEF me, reply, B
<1>6. TreeInv(u) /\ Keeps(tree, u) /\ Objects(u) = Objects(tree)
  BY <1>3, <1>4, InformedProperties
<1>. HIDE DEF u
<1>7. TreeInv(t) /\ Keeps(u, t)
  BY <1>4, <1>6, FilledProperties
<1>. HIDE DEF t
<1>8. Objects(tree) \subseteq Objects(t) /\ me \in Objects(t) /\ t.nodes[me].subs \subseteq Objects(t)
  <2>1. Objects(tree) \subseteq Objects(t) /\ me \in Objects(t)
    BY <1>4, <1>6, <1>7 DEF Keeps
  <2>. QED BY <1>7, <2>1 DEF TreeInv, LinkInv
<1>9. \A r \in BagToSet(sent') : r \in Pending \/ r.me \in Objects(t) \cup {Null}
  <2>1. \A r \in R : r.me \in Objects(t)
    <3>. SUFFICES ASSUME NEW r \in R PROVE r.me \in Objects(t)
      OBVIOUS
    <3>1. r.me = me \/ \E s \in t.nodes[me].subs : r.me = s
      BY DEF Follows, Ask, Request
    <3>. QED BY <1>8, <3>1
  <2>2. BagToSet(B) = R
    BY BagFacts DEF B
  <2>. HIDE DEF R
  <2>3. BagToSet(sent (+) B) = BagToSet(sent) \cup BagToSet(B)
    BY BagFacts
  <2>. QED BY <1>2, <2>1, <2>2, <2>3 DEF Pending
<1>. HIDE DEF R
<1>. QED BY <1>1, <1>2, <1>5, <1>7, <1>8, <1>9, AnswerSync

LEMMA AnswersSync ==
    ASSUME SyncInv, ExplorerInv', Answers
    PROVE  SyncPart'
BY ExpandedSync, WriteSucceededSync, DeleteSucceededSync, CutCopiedSync,
   NothingChangesSync, WasResetSync DEF Answers
-------------------------------------------------------------------------------
(* The server answers.                                                     *)

\* From d to e, data changes inside p only, and p itself, when it has a value,
\* to another value.
Spared(d, e, p) ==
    \A q \in Paths : ~StrictlyWithin(q, p) =>
        /\ q # Root => (q \in DOMAIN d <=> q \in DOMAIN e)
        /\ q \in DOMAIN d /\ canHaveValue(NameIn(q)) => e[q] = d[q] \/ (q = p /\ e[q] # NoInfo)

LEMMA RootHasNoValue == ~canHaveValue(NameIn(Root))
BY DEF canHaveValue, IsMetadata, Writable, DisplayName, NameIn, Root

LEMMA SparedIsRight ==
    ASSUME NEW t, NEW d, NEW e, NEW p, Spared(d, e, p),
           NEW q \in Paths, ~StrictlyWithin(q, p), RowRight(t, d, {}, q)
    PROVE  RowRight(t, e, {p}, q)
<1>1. /\ q # Root => (q \in DOMAIN d <=> q \in DOMAIN e)
      /\ q \in DOMAIN d /\ canHaveValue(NameIn(q)) => e[q] = d[q] \/ (q = p /\ e[q] # NoInfo)
  BY DEF Spared
<1>2. IsShown(t, q) /\ canHaveValue(NameIn(q)) => q \in DOMAIN d
  BY RootHasNoValue DEF RowRight
<1>. QED BY <1>1, <1>2 DEF RowRight

LEMMA ServedIsCalm ==
    ASSUME NEW t, NEW d, NEW S, NEW sel, Calm(t, d, S, EmptyBag, sel),
           NEW r \in BagToSet(S), r.op \notin {"info", "exists"},
           NEW a, a.request = r, AnswerInv(t, a),
           NEW e, IF Done(a) THEN Spared(d, e, Refreshed(t, r)) ELSE e = d
    PROVE  Calm(t, e, S (-) SetToBag({r}), SetToBag({a}), sel)
<1>. DEFINE T == S (-) SetToBag({r})
            A == SetToBag({a})
            p == Refreshed(t, r)
<1>1. /\ PlainInv(t) /\ CallsInv(S, EmptyBag) /\ Attends(t, sel)
      /\ \A q \in BagToSet(S) : CallInv(t, d, q)
  BY NoAnswers DEF Calm, Attends
<1>2. /\ S[r] = 1 /\ IsABag(T) /\ BagToSet(T) = BagToSet(S) \ {r}
      /\ \A q \in BagToSet(T) : q.op # "info" => T[q] = 1
      /\ \A q \in BagToSet(T) : q.op \in Updates /\ r.op \in Updates /\ q.op = "info"
  BY <1>1, CallAlone
<1>. HIDE DEF T
<1>3. BagToSet(A) = {a} /\ A # EmptyBag /\ A = SetToBag({a})
  <2>1. IsABag(EmptyBag)
    BY DEF IsABag, EmptyBag, SetToBag
  <2>2. BagToSet(A) = {a}
    BY BagFacts
  <2>3. BagToSet(EmptyBag) = {}
    BY BagFacts
  <2>. QED BY <2>2, <2>3
<1>. HIDE DEF A, p
<1>4. Pended(T, A) = BagToSet(S) /\ Pended(S, EmptyBag) = BagToSet(S)
  <2>1. Pended(T, A) = BagToSet(T) \cup {r}
    BY <1>3 DEF Pended
  <2>. QED BY <1>2, <2>1, NoAnswers
<1>5. CallsInv(T, A)
  <2>1. \A q, s \in Pended(T, A) :
           q = s \/ (q.op \in Updates /\ s.op \in Updates /\ (q.op = "info" \/ s.op = "info"))
    BY <1>1, <1>4 DEF CallsInv
  <2>2. \E b \in BagToSet(A) :
           /\ A = SetToBag({b}) /\ b.request \notin BagToSet(T)
           /\ b.request.op \notin {"info", "exists"}
    BY <1>2, <1>3
  <2>. QED BY <1>2, <2>1, <2>2 DEF CallsInv
<1>6. ASSUME NEW q \in BagToSet(S) PROVE CallInv(t, e, q)
  <2>1. CallInv(t, d, q)
    BY <1>1
  <2>2. q.op = "list" => e = d
    <3>. HAVE q.op = "list"
    <3>1. q = r
      BY <1>2
    <3>2. ~Done(a)
      BY <3>1 DEF Done, Edits
    <3>. QED BY <3>2
  <2>. QED BY <2>1, <2>2 DEF CallInv, ListInv
<1>7. ASSUME NEW q \in Paths \ DueRows(t, T, A) PROVE RowRight(t, e, DueInfos(t, T, A), q)
  <2>1. CASE Done(a)
    <3>1. r.op \notin Updates
      BY <2>1 DEF Done, Edits, Updates
    <3>2. BagToSet(T) = {} /\ BagToSet(S) = {r}
      BY <1>2, <3>1
    <3>3. DueRows(t, S, EmptyBag) = {} /\ DueInfos(t, S, EmptyBag) = {}
      BY <3>1, <3>2, NoAnswers DEF Updates
    <3>4. RowRight(t, d, {}, q)
      BY <3>3 DEF Calm
    <3>5. ~StrictlyWithin(q, p)
      BY <1>3, <1>7, <2>1 DEF DueRows, p
    <3>6. Spared(d, e, p)
      BY <2>1 DEF p
    <3>7. RowRight(t, e, {p}, q)
      BY <3>4, <3>5, <3>6, SparedIsRight
    <3>8. q \in {p} => q \in DueInfos(t, T, A)
      BY <1>3, <2>1 DEF DueInfos, p
    <3>. QED BY <3>7, <3>8, RightIsMonotonic
  <2>2. CASE ~Done(a)
    <3>1. q \in Paths \ DueRows(t, S, EmptyBag)
      BY <1>3, <1>4, <1>7, <2>2, NoAnswers DEF DueRows
    <3>2. RowRight(t, d, DueInfos(t, S, EmptyBag), q)
      BY <3>1 DEF Calm
    <3>3. q \in DueInfos(t, S, EmptyBag) => q \in DueInfos(t, T, A)
      BY <1>4, NoAnswers DEF DueInfos
    <3>4. RowRight(t, d, DueInfos(t, T, A), q)
      BY <3>2, <3>3, RightIsMonotonic
    <3>. QED BY <2>2, <3>4
  <2>. QED BY <2>1, <2>2
<1>8. \A b \in BagToSet(A) : AnswerInv(t, b)
  BY <1>3
<1>9. Calm(t, e, T, A, sel)
  BY <1>1, <1>4, <1>5, <1>6, <1>7, <1>8 DEF Calm, Attends
<1>. QED BY <1>9 DEF T, A

LEMMA NoneAnswered ==
    ASSUME NEW S, NEW A, CallsInv(S, A), NEW r \in BagToSet(S), r.op # "info"
    PROVE  A = EmptyBag
<1>. DEFINE T == S (-) SetToBag({r})
<1>1. /\ A = EmptyBag /\ S[r] = 1
      /\ IsABag(T) /\ BagToSet(T) = BagToSet(S) \ {r}
      /\ \A q \in BagToSet(T) : q.op # "info" => T[q] = 1
      /\ \A q \in BagToSet(T) : q.op \in Updates /\ r.op \in Updates /\ q.op = "info"
  BY CallAlone
<1>. QED BY <1>1

\* An answer in a calm page.
LEMMA ServedSync ==
    ASSUME SyncInv, ExplorerInv', NEW r \in BagToSet(sent), r.op \notin {"info", "exists"},
           NEW reply, Answer(r, reply), Exists(Root)',
           LET a == [request |-> r, reply |-> reply] IN
           Calm(tree, db, sent, answered, selected) =>
               /\ AnswerInv(tree, a) /\ ListCurrent(a)'
               /\ IF Done(a) THEN Spared(db, db', Refreshed(tree, r)) ELSE db' = db
    PROVE  SyncPart'
<1>. DEFINE a == [request |-> r, reply |-> reply]
            T == sent (-) SetToBag({r})
            A == SetToBag({a})
<1>1. /\ sent' = T /\ answered' = answered (+) A
      /\ tree' = tree /\ selected' = selected /\ hurried' = hurried
  BY DEF Answer
<1>2. a.request = r
  OBVIOUS
<1>. HIDE DEF a
<1>3. hurried' \in Nat
  BY <1>1 DEF SyncInv, SyncPart
<1>4. ASSUME hurried' = 0
      PROVE  /\ Calm(tree', db', sent', answered', selected')
             /\ \A b \in BagToSet(answered') : ListCurrent(b)'
  <2>1. Calm(tree, db, sent, answered, selected)
    BY <1>1, <1>4 DEF SyncInv, SyncPart
  <2>2. answered = EmptyBag
    <3>1. CallsInv(sent, answered)
      BY <2>1 DEF Calm
    <3>. QED BY <3>1, NoneAnswered
  <2>3. answered' = A /\ BagToSet(A) = {a}
    <3>1. IsABag(A)
      BY DEF IsABag, SetToBag
    <3>2. BagToSet(A) = {a}
      BY BagFacts
    <3>. HIDE DEF A
    <3>3. EmptyBag (+) A = A
      BY <3>1, BagsOfOne
    <3>. QED BY <1>1, <2>2, <3>2, <3>3
  <2>4. /\ AnswerInv(tree, a) /\ ListCurrent(a)'
        /\ IF Done(a) THEN Spared(db, db', Refreshed(tree, r)) ELSE db' = db
    BY <2>1 DEF a
  <2>5. Calm(tree, db, sent, EmptyBag, selected)
    BY <2>1, <2>2
  <2>6. PICK e : e = db'
    OBVIOUS
  <2>7. IF Done(a) THEN Spared(db, e, Refreshed(tree, r)) ELSE e = db
    BY <2>4, <2>6
  <2>8. Calm(tree, e, T, A, selected)
    BY <1>2, <2>4, <2>5, <2>7, ServedIsCalm
  <2>9. Calm(tree', db', sent', answered', selected')
    BY <1>1, <2>3, <2>6, <2>8
  <2>10. \A b \in BagToSet(answered') : b = a
    BY <2>3
  <2>. QED BY <2>4, <2>9, <2>10
<1>. QED BY <1>3, <1>4 DEF SyncPart

\* A write that the server can do is for an object with a row.
LEMMA EditWhere ==
    ASSUME NEW t, TreeInv(t), NEW d, NEW S, NEW sel, Calm(t, d, S, EmptyBag, sel),
           NEW r \in BagToSet(S), r.op \in Edits, r.me \in Objects(t), r.url \in Paths
    PROVE  LET p == getPath(t, r.me) IN
           /\ BoundTo(t, r.me, p) /\ p \in Paths /\ ~Cut(t, r.me)
           /\ p # Root => p \in DOMAIN d
           /\ IF r.op = "put"
              THEN /\ r.value \in Values
                   /\ r.url = p \/ (r.url \in Children(p) /\ StrictlyWithin(r.url, p))
              ELSE r.url = p
<1>. DEFINE p == getPath(t, r.me)
<1>1. PlainInv(t) /\ CallsInv(S, EmptyBag) /\ CallInv(t, d, r)
  BY NoAnswers DEF Calm
<1>2. EditInv(t, r)
  BY <1>1 DEF CallInv
<1>3. p \in Seq(Names) /\ Len(p) \in Nat \ {0}
  BY PathProperties DEF TreeInv
<1>. HIDE DEF p
<1>4. Attached(t, r.me) /\ IF r.op = "put"
                           THEN /\ r.value \in Values
                                /\ r.url \in {p} \cup {Append(p, name) : name \in {Writable, DisplayName}}
                           ELSE r.url = p
  BY <1>2 DEF EditInv, p
<1>5. r.url = p \/ \E name \in {Writable, DisplayName} : r.url = Append(p, name)
  BY <1>4
<1>6. r.url[1] = "bws"
  BY PathsTypes
<1>7. p[1] = "bws"
  <2>1. ASSUME NEW name \in {Writable, DisplayName}, r.url = Append(p, name) PROVE p[1] = "bws"
    <3>1. name \in Names /\ p # <<>>
      BY <1>3 DEF Names
    <3>2. Append(p, name)[1] = p[1]
      BY <1>3, <3>1, AppendedName
    <3>. QED BY <1>6, <2>1, <3>2
  <2>. QED BY <1>5, <1>6, <2>1
<1>8. ~Cut(t, r.me) /\ BoundTo(t, r.me, p)
  BY <1>4, <1>7 DEF Cut, Relative, Attached, p
<1>9. p \in Paths /\ IsShown(t, p)
  BY <1>8 DEF BoundTo, IsShown
<1>10. \A name \in {Writable, DisplayName} :
          r.url = Append(p, name) => r.url \in Children(p) /\ StrictlyWithin(r.url, p)
  <2>. SUFFICES ASSUME NEW name \in {Writable, DisplayName}, r.url = Append(p, name)
                PROVE  r.url \in Children(p) /\ StrictlyWithin(r.url, p)
    OBVIOUS
  <2>1. name \in Names
    BY DEF Names
  <2>2. Parent(Append(p, name)) = p /\ Len(Append(p, name)) = Len(p) + 1
    BY <1>3, <2>1, AppendedName
  <2>3. Parent(r.url) = p /\ Len(r.url) > 1
    BY <1>3, <2>2
  <2>. QED BY <1>9, <2>3, ChildFacts
<1>11. p # Root => p \in DOMAIN d
  <2>. HAVE p # Root
  <2>1. r.op \notin Updates
    BY DEF Edits, Updates
  <2>2. BagToSet(S) = {r}
    <3>. DEFINE T == S (-) SetToBag({r})
    <3>1. r.op # "info"
      BY <2>1 DEF Updates
    <3>2. /\ BagToSet(T) = BagToSet(S) \ {r}
          /\ \A q \in BagToSet(T) : q.op \in Updates /\ r.op \in Updates /\ q.op = "info"
      BY <1>1, <3>1, CallAlone
    <3>. HIDE DEF T
    <3>. QED BY <2>1, <3>2
  <2>3. DueRows(t, S, EmptyBag) = {}
    BY <2>1, <2>2, NoAnswers DEF Updates
  <2>4. RowRight(t, d, DueInfos(t, S, EmptyBag), p)
    BY <1>9, <2>3 DEF Calm
  <2>. QED BY <1>9, <2>4 DEF RowRight
<1>. QED BY <1>4, <1>5, <1>8, <1>9, <1>10, <1>11 DEF p

LEMMA OKFacts ==
    ASSUME NEW r
    PROVE  /\ [request |-> r, reply |-> OK].reply.ok = TRUE
           /\ [request |-> r, reply |-> OK].request = r
           /\ [request |-> r, reply |-> Refused].reply.ok = FALSE
           /\ [request |-> r, reply |-> Refused].request = r
BY DEF OK, Refused, Reply

\* A write that has been done.
LEMMA EditSync ==
    ASSUME SyncInv, ExplorerInv', NEW r \in BagToSet(sent), r.op \in Edits \ {"cut"},
           Answer(r, OK), Exists(Root)', r.url \in Paths,
           LET p == getPath(tree, r.me) IN
           /\ BoundTo(tree, r.me, p) /\ p \in Paths
           /\ p # Root => p \in DOMAIN db
           /\ IF r.op = "put"
              THEN /\ r.value \in Values
                   /\ r.url = p \/ (r.url \in Children(p) /\ StrictlyWithin(r.url, p))
              ELSE r.url = p
           => /\ r.op \in {"delete", "cutDelete"} => Len(p) > 1
              /\ Spared(db, db', Refreshed(tree, r))
    PROVE  SyncPart'
<1>. DEFINE a == [request |-> r, reply |-> OK]
            p == getPath(tree, r.me)
<1>1. r \in Pending /\ TreeInv(tree) /\ ExplorerInv
  BY DEF SyncInv, ExplorerInv, Pending
<1>2. r.op \in Edits /\ r.op \notin {"list", "info", "exists", "defs", "reset", "cut"}
  BY DEF Edits
<1>3. r.me \in Objects(tree)
  BY <1>1, <1>2, CalledFor
<1>4. a.request = r
  BY OKFacts
<1>. HIDE DEF a
<1>5. Calm(tree, db, sent, answered, selected) =>
               /\ AnswerInv(tree, a) /\ ListCurrent(a)'
               /\ IF Done(a) THEN Spared(db, db', Refreshed(tree, r)) ELSE db' = db
  <2>. HAVE Calm(tree, db, sent, answered, selected)
  <2>0. answered = EmptyBag
    <3>1. CallsInv(sent, answered)
      BY DEF Calm
    <3>. QED BY <1>2, <3>1, NoneAnswered
  <2>1. Calm(tree, db, sent, EmptyBag, selected)
    BY <2>0
  <2>2. /\ BoundTo(tree, r.me, p) /\ p \in Paths /\ ~Cut(tree, r.me)
        /\ p # Root => p \in DOMAIN db
        /\ IF r.op = "put"
           THEN /\ r.value \in Values
                /\ r.url = p \/ (r.url \in Children(p) /\ StrictlyWithin(r.url, p))
           ELSE r.url = p
    BY <1>1, <1>2, <1>3, <2>1, EditWhere
  <2>3. /\ r.op \in {"delete", "cutDelete"} => Len(p) > 1
        /\ Spared(db, db', Refreshed(tree, r))
    BY <2>2
  <2>4. AnswerInv(tree, a)
    BY <1>4, <2>2, <2>3 DEF AnswerInv
  <2>5. ListCurrent(a)'
    BY <1>2, <1>4 DEF ListCurrent
  <2>6. Done(a)
    <3>1. a.reply.ok
      BY OKFacts DEF a
    <3>. QED BY <1>2, <1>4, <3>1 DEF Done
  <2>. QED BY <2>3, <2>4, <2>5, <2>6
<1>. QED BY <1>2, <1>5, ServedSync DEF a

LEMMA WithinFacts ==
    ASSUME NEW p \in Paths
    PROVE  /\ Within(p, p) /\ Within(p, Root)
           /\ Within(Root, p) => p = Root
           /\ Len(p) > 1 => \A q \in Paths : Within(q, p) => StrictlyWithin(q, Parent(p))
<1>1. p \in Seq(Names) /\ Len(p) \in Nat \ {0} /\ p[1] = "bws"
  BY PathsTypes
<1>2. Root \in Seq(Names) /\ Len(Root) = 1 /\ Root[1] = "bws"
  BY DEF Root, Names
<1>3. Within(p, p) /\ Within(p, Root)
  BY <1>1, <1>2, WithinElements
<1>4. Within(Root, p) => p = Root
  <2>. HAVE Within(Root, p)
  <2>1. Len(Root) >= Len(p)
    BY <1>1, <1>2, WithinElements
  <2>. QED BY <1>1, <1>2, <2>1, PathParts
<1>5. ASSUME Len(p) > 1, NEW q \in Paths, Within(q, p) PROVE StrictlyWithin(q, Parent(p))
  <2>1. q \in Seq(Names) /\ Len(q) \in Nat \ {0}
    BY PathsTypes
  <2>2. Len(q) >= Len(p) /\ \A i \in 1 .. Len(p) : q[i] = p[i]
    BY <1>1, <1>5, <2>1, WithinElements
  <2>3. /\ Parent(p) \in Seq(Names) /\ Len(Parent(p)) = Len(p) - 1
        /\ \A i \in 1 .. Len(p) - 1 : Parent(p)[i] = p[i]
    BY <1>1, ParentElements
  <2>4. Len(q) >= Len(Parent(p)) /\ \A i \in 1 .. Len(Parent(p)) : q[i] = Parent(p)[i]
    BY <1>1, <2>1, <2>2, <2>3
  <2>5. Within(q, Parent(p))
    BY <2>1, <2>3, <2>4, WithinElements
  <2>6. Len(q) # Len(Parent(p))
    BY <1>1, <2>1, <2>2, <2>3
  <2>. QED BY <2>5, <2>6 DEF StrictlyWithin
<1>. QED BY <1>3, <1>4, <1>5

LEMMA InfoStays ==
    ASSUME UNCHANGED db, NEW p
    PROVE  Info(p)' = Info(p)
BY DEF Info, Exists

LEMMA MembersStay ==
    ASSUME UNCHANGED db, NEW p
    PROVE  Members(p)' = Members(p)
BY DEF Members, Info, Exists, OwnFlag

LEMMA CurrentStays ==
    ASSUME UNCHANGED db, NEW a, ListCurrent(a)
    PROVE  ListCurrent(a)'
<1>. DEFINE p == a.request.url
<1>1. Info(p)' = Info(p) /\ Members(p)' = Members(p)
  BY InfoStays, MembersStay
<1>. QED BY <1>1 DEF ListCurrent

LEMMA ServeReadSync ==
    ASSUME SyncInv, ExplorerInv', NEW r \in BagToSet(sent), ServeRead(r)
    PROVE  SyncPart'
<1>. DEFINE p == r.url
            reply == IF r.op = "defs" THEN OK
                     ELSE IF ~Exists(p) THEN Refused
                     ELSE IF r.op = "cut" THEN OK
                     ELSE Reply(TRUE, Info(p), IF IsWritable(p) THEN "true" ELSE "false", Members(p))
<1>0. PICK x : x = reply
  OBVIOUS
<1>. DEFINE a == [request |-> r, reply |-> x]
<1>1. r.op \in {"list", "cut", "defs"} /\ db' = db /\ Answer(r, x)
  BY <1>0 DEF ServeRead
<1>2. r.op = "list" /\ Exists(p) => x.ok /\ x.info = Info(p) /\ x.members = Members(p)
  BY <1>0 DEF Reply
<1>. HIDE DEF reply
<1>3. a.request = r /\ a.reply = x
  OBVIOUS
<1>4. ~Done(a)
  BY <1>1, <1>3 DEF Done, Edits
<1>5. Exists(Root)'
  BY <1>1 DEF SyncInv, SyncPart, Exists
<1>6. ASSUME Calm(tree, db, sent, answered, selected) PROVE ListCurrent(a)
  <2>. SUFFICES ASSUME r.op = "list" PROVE ListCurrent(a)
    BY <1>3 DEF ListCurrent
  <2>1. r \in Pended(sent, answered)
    BY DEF Pended
  <2>2. ListInv(tree, db, r)
    BY <1>6, <2>1 DEF Calm, CallInv
  <2>3. Exists(p)
    BY <2>2 DEF ListInv, Exists
  <2>. QED BY <1>2, <1>3, <2>3 DEF ListCurrent
<1>. HIDE DEF a
<1>7. Calm(tree, db, sent, answered, selected) =>
          /\ AnswerInv(tree, a) /\ ListCurrent(a)'
          /\ IF Done(a) THEN Spared(db, db', Refreshed(tree, r)) ELSE db' = db
  <2>. HAVE Calm(tree, db, sent, answered, selected)
  <2>1. AnswerInv(tree, a)
    BY <1>4 DEF AnswerInv
  <2>2. ListCurrent(a)'
    BY <1>1, <1>6, CurrentStays
  <2>. QED BY <1>1, <1>4, <2>1, <2>2
<1>8. r.op \notin {"info", "exists"}
  BY <1>1
<1>. QED BY <1>1, <1>5, <1>7, <1>8, ServedSync DEF a

LEMMA RefuseSync ==
    ASSUME SyncInv, ExplorerInv', NEW r \in BagToSet(sent), Refuse(r)
    PROVE  SyncPart'
<1>. DEFINE a == [request |-> r, reply |-> Refused]
<1>1. r.op \notin {"info", "exists", "list"} /\ db' = db /\ Answer(r, Refused)
  BY DEF Refuse
<1>2. a.request = r /\ ~a.reply.ok
  BY DEF Refused, Reply
<1>. HIDE DEF a
<1>3. ~Done(a) /\ AnswerInv(tree, a)
  BY <1>2 DEF Done, AnswerInv
<1>4. ListCurrent(a)'
  BY <1>1, <1>2 DEF ListCurrent
<1>5. Exists(Root)'
  BY <1>1 DEF SyncInv, SyncPart, Exists
<1>. QED BY <1>1, <1>3, <1>4, <1>5, ServedSync DEF a
-------------------------------------------------------------------------------
(* What a write changes on the server.                                     *)

LEMMA WithSpares ==
    ASSUME NEW d, NEW p \in Paths, p # Root => p \in DOMAIN d,
           NEW url, NEW v, StrictlyWithin(url, p) \/ (url = p /\ v \in Values)
    PROVE  /\ Spared(d, With(url, v, d), p)
           /\ Root \in DOMAIN d => Root \in DOMAIN With(url, v, d)
<1>. DEFINE e == With(url, v, d)
<1>1. DOMAIN e = {url} \cup DOMAIN d /\ \A q \in DOMAIN e : e[q] = IF q = url THEN v ELSE d[q]
  BY DEF With
<1>. HIDE DEF e
<1>2. NoInfo \notin Values
  BY DEF NoInfo, Values
<1>3. ASSUME NEW q \in Paths, ~StrictlyWithin(q, p)
      PROVE  /\ q # Root => (q \in DOMAIN d <=> q \in DOMAIN e)
             /\ q \in DOMAIN d /\ canHaveValue(NameIn(q)) => e[q] = d[q] \/ (q = p /\ e[q] # NoInfo)
  <2>1. q = url => q = p /\ v \in Values
    BY <1>3
  <2>. QED BY <1>1, <1>2, <2>1
<1>4. Spared(d, e, p)
  BY <1>3 DEF Spared
<1>. QED BY <1>1, <1>4 DEF e

LEMMA PasteSpares ==
    ASSUME NEW d, NEW p \in Paths, p # Root => p \in DOMAIN d,
           NEW below \in SUBSET {q \in Paths : Within(q, p) /\ q # p}, NEW e,
           e = [q \in below \cup {p} \cup {s \in DOMAIN d : ~Within(s, p)} |->
                  IF ~Within(q, p) THEN d[q]
                  ELSE IF canHaveValue(NameIn(q)) THEN "true" ELSE NoInfo]
    PROVE  Spared(d, e, p)
<1>1. DOMAIN e = below \cup {p} \cup {s \in DOMAIN d : ~Within(s, p)}
  OBVIOUS
<1>2. \A q \in DOMAIN e : e[q] = IF ~Within(q, p) THEN d[q]
                                 ELSE IF canHaveValue(NameIn(q)) THEN "true" ELSE NoInfo
  OBVIOUS
<1>3. Within(p, p) /\ NoInfo # "true"
  BY WithinFacts DEF NoInfo
<1>4. ASSUME NEW q \in Paths, ~StrictlyWithin(q, p)
      PROVE  /\ q # Root => (q \in DOMAIN d <=> q \in DOMAIN e)
             /\ q \in DOMAIN d /\ canHaveValue(NameIn(q)) => e[q] = d[q] \/ (q = p /\ e[q] # NoInfo)
  <2>1. CASE q = p
    BY <1>1, <1>2, <1>3, <2>1
  <2>2. CASE q # p
    <3>1. ~Within(q, p) /\ q \notin below
      BY <1>4, <2>2 DEF StrictlyWithin
    <3>. QED BY <1>1, <1>2, <2>2, <3>1
  <2>. QED BY <2>1, <2>2
<1>. QED BY <1>4 DEF Spared

LEMMA DeleteSpares ==
    ASSUME NEW d, NEW p \in Paths, Len(p) > 1, NEW e,
           e = [q \in {s \in DOMAIN d : ~Within(s, p)} |-> d[q]]
    PROVE  Spared(d, e, Parent(p))
<1>1. /\ DOMAIN e = {s \in DOMAIN d : ~Within(s, p)} /\ \A q \in DOMAIN e : e[q] = d[q]
  OBVIOUS
<1>2. ASSUME NEW q \in Paths, ~StrictlyWithin(q, Parent(p))
      PROVE  /\ q # Root => (q \in DOMAIN d <=> q \in DOMAIN e)
             /\ q \in DOMAIN d /\ canHaveValue(NameIn(q)) =>
                    e[q] = d[q] \/ (q = Parent(p) /\ e[q] # NoInfo)
  <2>1. ~Within(q, p)
    BY <1>2, WithinFacts
  <2>. QED BY <1>1, <2>1
<1>. QED BY <1>2 DEF Spared

LEMMA ResetSpares ==
    ASSUME NEW d, NEW e, Root \in DOMAIN e, Root \in DOMAIN d
    PROVE  Spared(d, e, Root)
<1>1. \A q \in Paths : ~StrictlyWithin(q, Root) => q = Root
  BY WithinFacts DEF StrictlyWithin
<1>. QED BY <1>1, RootHasNoValue DEF Spared

LEMMA ServePutSync ==
    ASSUME SyncInv, ExplorerInv', NEW r \in BagToSet(sent), ServePut(r)
    PROVE  SyncPart'
<1>. DEFINE p == getPath(tree, r.me)
<1>1. /\ r.op = "put" /\ r.url \in Paths /\ Answer(r, OK)
      /\ db' = With(r.url, r.value, db)
  BY DEF ServePut, CanPut
<1>2. r.op \in Edits \ {"cut"} /\ r.op \notin {"delete", "cutDelete", "reset"}
  BY <1>1 DEF Edits
<1>3. Refreshed(tree, r) = p
  BY <1>2 DEF Refreshed
<1>. HIDE DEF p
<1>4. Exists(Root)'
  <2>1. Root \in DOMAIN db
    BY DEF SyncInv, SyncPart, Exists
  <2>2. Root \in DOMAIN With(r.url, r.value, db)
    BY <2>1 DEF With
  <2>. QED BY <1>1, <2>2 DEF Exists
<1>5. /\ BoundTo(tree, r.me, p) /\ p \in Paths
      /\ p # Root => p \in DOMAIN db
      /\ IF r.op = "put"
         THEN /\ r.value \in Values
              /\ r.url = p \/ (r.url \in Children(p) /\ StrictlyWithin(r.url, p))
         ELSE r.url = p
      => /\ r.op \in {"delete", "cutDelete"} => Len(p) > 1
         /\ Spared(db, db', Refreshed(tree, r))
  <2>. HAVE /\ BoundTo(tree, r.me, p) /\ p \in Paths
            /\ p # Root => p \in DOMAIN db
            /\ IF r.op = "put"
               THEN /\ r.value \in Values
                    /\ r.url = p \/ (r.url \in Children(p) /\ StrictlyWithin(r.url, p))
               ELSE r.url = p
  <2>. QED BY <1>1, <1>2, <1>3, WithSpares
<1>. QED BY <1>1, <1>2, <1>4, <1>5, EditSync DEF p

LEMMA ServePasteSync ==
    ASSUME SyncInv, ExplorerInv', NEW r \in BagToSet(sent), ServePaste(r)
    PROVE  SyncPart'
<1>. DEFINE p == getPath(tree, r.me)
<1>1. PICK below \in SUBSET {q \in Paths : Within(q, r.url) /\ q # r.url} :
          db' = [q \in below \cup {r.url} \cup {s \in DOMAIN db : ~Within(s, r.url)} |->
                    IF ~Within(q, r.url) THEN db[q]
                    ELSE IF canHaveValue(NameIn(q)) THEN "true" ELSE NoInfo]
  BY DEF ServePaste
<1>2. r.op = "paste" /\ r.url \in Paths /\ Answer(r, OK)
  BY DEF ServePaste, CanPut
<1>3. r.op \in Edits \ {"cut"} /\ r.op \notin {"delete", "cutDelete", "reset", "put"}
  BY <1>2 DEF Edits
<1>4. Refreshed(tree, r) = p
  BY <1>3 DEF Refreshed
<1>. HIDE DEF p
<1>5. Exists(Root)'
  <2>1. Root \in DOMAIN db
    BY DEF SyncInv, SyncPart, Exists
  <2>2. DOMAIN db' = below \cup {r.url} \cup {s \in DOMAIN db : ~Within(s, r.url)}
    BY <1>1
  <2>3. Within(Root, r.url) => Root = r.url
    BY <1>2, WithinFacts
  <2>. QED BY <2>1, <2>2, <2>3 DEF Exists
<1>6. p \in Paths /\ (p # Root => p \in DOMAIN db) /\ r.url = p
      => Spared(db, db', Refreshed(tree, r))
  BY <1>1, <1>4, PasteSpares
<1>. QED BY <1>2, <1>3, <1>5, <1>6, EditSync DEF p

LEMMA ServePostSync ==
    ASSUME SyncInv, ExplorerInv', NEW r \in BagToSet(sent), ServePost(r)
    PROVE  SyncPart'
<1>. DEFINE p == getPath(tree, r.me)
<1>1. PICK q \in Children(r.url) : db' = With(q, NoInfo, db)
  BY DEF ServePost
<1>2. r.op = "post" /\ Answer(r, OK) /\ r.url \in Paths
  BY DEF ServePost, Exists, SyncInv, ExplorerInv, DbInv
<1>3. r.op \in Edits \ {"cut"} /\ r.op \notin {"delete", "cutDelete", "reset", "put"}
  BY <1>2 DEF Edits
<1>4. Refreshed(tree, r) = p
  BY <1>3 DEF Refreshed
<1>. HIDE DEF p
<1>5. Exists(Root)'
  <2>1. Root \in DOMAIN db
    BY DEF SyncInv, SyncPart, Exists
  <2>2. Root \in DOMAIN With(q, NoInfo, db)
    BY <2>1 DEF With
  <2>. QED BY <1>1, <2>2 DEF Exists
<1>6. StrictlyWithin(q, r.url)
  <2>1. Within(q, r.url) /\ Len(q) = Len(r.url) + 1 /\ Len(r.url) \in Nat
    BY <1>2, PathsTypes DEF Children
  <2>2. q # r.url
    BY <2>1
  <2>. QED BY <2>1, <2>2 DEF StrictlyWithin
<1>7. p \in Paths /\ (p # Root => p \in DOMAIN db) /\ r.url = p
      => Spared(db, db', Refreshed(tree, r))
  BY <1>1, <1>4, <1>6, WithSpares
<1>. QED BY <1>2, <1>3, <1>5, <1>7, EditSync DEF p

LEMMA ServeDeleteSync ==
    ASSUME SyncInv, ExplorerInv', NEW r \in BagToSet(sent), ServeDelete(r)
    PROVE  SyncPart'
<1>. DEFINE p == getPath(tree, r.me)
<1>1. /\ r.op \in {"delete", "cutDelete"} /\ Len(r.url) > 1 /\ Answer(r, OK)
      /\ db' = [q \in {s \in DOMAIN db : ~Within(s, r.url)} |-> db[q]]
  BY DEF ServeDelete
<1>2. r.url \in Paths
  BY DEF ServeDelete, Exists, SyncInv, ExplorerInv, DbInv
<1>3. r.op \in Edits \ {"cut"} /\ r.op # "put" /\ r.op # "reset"
  BY <1>1 DEF Edits
<1>4. Refreshed(tree, r) = Parent(p)
  BY <1>1, <1>3 DEF Refreshed
<1>. HIDE DEF p
<1>5. Exists(Root)'
  <2>1. Root \in DOMAIN db
    BY DEF SyncInv, SyncPart, Exists
  <2>2. ~Within(Root, r.url)
    <3>. SUFFICES ASSUME Within(Root, r.url) PROVE FALSE
      OBVIOUS
    <3>1. r.url = Root
      BY <1>2, WithinFacts
    <3>. QED BY <1>1, <3>1 DEF Root
  <2>3. DOMAIN db' = {s \in DOMAIN db : ~Within(s, r.url)}
    BY <1>1
  <2>. QED BY <2>1, <2>2, <2>3 DEF Exists
<1>6. p \in Paths /\ r.url = p
      => Len(p) > 1 /\ Spared(db, db', Refreshed(tree, r))
  BY <1>1, <1>4, DeleteSpares
<1>. QED BY <1>1, <1>2, <1>3, <1>5, <1>6, EditSync DEF p

LEMMA ServeResetSync ==
    ASSUME SyncInv, ExplorerInv', NEW r \in BagToSet(sent), ServeReset(r)
    PROVE  SyncPart'
<1>. DEFINE a == [request |-> r, reply |-> OK]
<1>1. r.op = "reset" /\ db' \in Databases /\ Answer(r, OK)
  BY DEF ServeReset
<1>2. a.request = r /\ a.reply.ok
  BY OKFacts
<1>. HIDE DEF a
<1>3. Root \in DOMAIN db /\ Root \in DOMAIN db'
  <2>1. PICK e : e = db'
    OBVIOUS
  <2>2. Root \in DOMAIN e
    BY <1>1, <2>1, DatabasesAssumption DEF Root
  <2>3. Root \in DOMAIN db
    BY DEF SyncInv, SyncPart, Exists
  <2>. QED BY <2>1, <2>2, <2>3
<1>4. Done(a) /\ AnswerInv(tree, a) /\ r.op \notin {"info", "exists", "list"}
  BY <1>1, <1>2 DEF Done, AnswerInv
<1>5. ListCurrent(a)'
  BY <1>2, <1>4 DEF ListCurrent
<1>6. Refreshed(tree, r) = Root
  BY <1>1 DEF Refreshed
<1>7. Spared(db, db', Refreshed(tree, r))
  BY <1>3, <1>6, ResetSpares
<1>8. Exists(Root)'
  BY <1>3 DEF Exists
<1>. QED BY <1>1, <1>4, <1>5, <1>7, <1>8, ServedSync DEF a

LEMMA ServeSync ==
    ASSUME SyncInv, ExplorerInv', NEW r \in BagToSet(sent), Serve(r)
    PROVE  SyncPart'
BY ServeReadSync, ServePutSync, ServePasteSync, ServePostSync, ServeDeleteSync,
   ServeResetSync, RefuseSync DEF Serve
-------------------------------------------------------------------------------
(* The requests that follow a list, served and handled in one step.        *)

\* With an "info" under way there are updates only.
LEMMA InfoAlone ==
    ASSUME NEW t, NEW S, NEW A, CallsInv(S, A), NEW r \in BagToSet(S), r.op = "info"
    PROVE  LET T == S (-) SetToBag({r}) IN
           /\ CallsInv(T, A)
           /\ Pended(T, A) \subseteq Pended(S, A) /\ Pended(S, A) \subseteq Pended(T, A) \cup {r}
           /\ \A q \in Pended(S, A) : q.op \in Updates
           /\ \A a \in BagToSet(A) : ~Done(a)
<1>. DEFINE T == S (-) SetToBag({r})
<1>1. /\ IsABag(S) /\ \A q \in BagToSet(S) : q.op # "info" => S[q] = 1
      /\ A # EmptyBag =>
            \E a \in BagToSet(A) :
                   /\ A = SetToBag({a}) /\ a.request \notin BagToSet(S)
                   /\ a.request.op \notin {"info", "exists"}
      /\ \A v, q \in Pended(S, A) :
            v = q \/ (v.op \in Updates /\ q.op \in Updates /\ (v.op = "info" \/ q.op = "info"))
  BY DEF CallsInv
<1>2. /\ IsABag(T) /\ BagToSet(T) \subseteq BagToSet(S) /\ BagToSet(S) \subseteq BagToSet(T) \cup {r}
      /\ \A y \in BagToSet(T) : y # r => T[y] = S[y]
  BY <1>1, BagTake
<1>. HIDE DEF T
<1>3. Pended(T, A) \subseteq Pended(S, A) /\ Pended(S, A) \subseteq Pended(T, A) \cup {r}
  BY <1>2 DEF Pended
<1>4. CallsInv(T, A)
  <2>1. \A q \in BagToSet(T) : q.op # "info" => T[q] = 1
    BY <1>1, <1>2
  <2>2. A # EmptyBag =>
          \E a \in BagToSet(A) :
                 /\ A = SetToBag({a}) /\ a.request \notin BagToSet(T)
                 /\ a.request.op \notin {"info", "exists"}
    BY <1>1, <1>2
  <2>3. \A v, q \in Pended(T, A) :
          v = q \/ (v.op \in Updates /\ q.op \in Updates /\ (v.op = "info" \/ q.op = "info"))
    BY <1>1, <1>3
  <2>. QED BY <1>2, <2>1, <2>2, <2>3 DEF CallsInv
<1>5. \A q \in Pended(S, A) : q.op \in Updates
  <2>1. r \in Pended(S, A) /\ r.op \in Updates
    BY DEF Pended, Updates
  <2>. QED BY <1>1, <2>1
<1>6. \A a \in BagToSet(A) : ~Done(a)
  <2>1. \A a \in BagToSet(A) : a.request \in Pended(S, A)
    BY DEF Pended
  <2>. QED BY <1>5, <2>1 DEF Done, Updates, Edits
<1>. QED BY <1>3, <1>4, <1>5, <1>6 DEF T

\* As InformedBy, or nothing at all: the rows are those of t, but for what p shows.
Renewed(t, u, p) ==
    /\ PlainInv(u)
    /\ \A n \in Objects(t) : getPath(u, n) = getPath(t, n) /\ u.nodes[n].subs = t.nodes[n].subs
    /\ \A n, q : BoundTo(u, n, q) <=> BoundTo(t, n, q)
    /\ \A q \in Paths : (IsShown(u, q) <=> IsShown(t, q)) /\ (OpenIn(u, q) <=> OpenIn(t, q))
    /\ \A q \in Paths : q # p => u.dom[q] = t.dom[q]

LEMMA InformedIsRenewed ==
    ASSUME NEW t, NEW u, NEW n, NEW p, NEW info, InformedBy(t, u, n, p, info)
    PROVE  Renewed(t, u, p)
<1>1. /\ PlainInv(u)
      /\ \A m \in Objects(t) : getPath(u, m) = getPath(t, m) /\ u.nodes[m].subs = t.nodes[m].subs
      /\ \A q \in Paths : /\ q # p => u.dom[q] = t.dom[q]
                          /\ u.dom[q] = <<>> <=> t.dom[q] = <<>>
      /\ \A m, q : BoundTo(u, m, q) <=> BoundTo(t, m, q)
      /\ u.dom[p][1].text = t.dom[p][1].text
  BY DEF InformedBy
<1>2. ASSUME NEW q \in Paths
      PROVE  (IsShown(u, q) <=> IsShown(t, q)) /\ (OpenIn(u, q) <=> OpenIn(t, q))
  <2>1. IsShown(u, q) <=> IsShown(t, q)
    BY <1>1 DEF IsShown
  <2>2. u.dom[q][1].text = t.dom[q][1].text
    <3>1. CASE q = p
      BY <1>1, <3>1
    <3>2. CASE q # p
      BY <1>1, <3>2
    <3>. QED BY <3>1, <3>2
  <2>. QED BY <2>1, <2>2 DEF OpenIn
<1>. QED BY <1>1, <1>2 DEF Renewed

\* The value of p has come.
LEMMA RenewedIsRight ==
    ASSUME NEW t, NEW u, NEW p \in Paths, Renewed(t, u, p), NEW d, NEW I, NEW J,
           \A x \in I : x = p \/ x \in J,
           IsShown(t, p) /\ canHaveValue(NameIn(p)) /\ p \in DOMAIN d =>
               u.dom[p][1].info = IF d[p] = NoInfo THEN t.dom[p][1].info ELSE d[p],
           NEW q \in Paths, Parent(q) \in Paths \/ q = Root, RowRight(t, d, I, q)
    PROVE  RowRight(u, d, J, q)
<1>1. /\ IsShown(u, q) <=> IsShown(t, q)
      /\ q # Root => (OpenIn(u, Parent(q)) <=> OpenIn(t, Parent(q)))
      /\ q # p => u.dom[q] = t.dom[q]
  BY DEF Renewed
<1>2. IsShown(t, q) /\ canHaveValue(NameIn(q)) => q \in DOMAIN d
  BY RootHasNoValue DEF RowRight
<1>3. IsShown(t, q) /\ canHaveValue(NameIn(q)) =>
          t.dom[q][1].info = d[q] \/ (q \in I /\ d[q] # NoInfo)
  BY DEF RowRight
<1>4. IsShown(u, q) /\ canHaveValue(NameIn(q)) =>
          u.dom[q][1].info = d[q] \/ (q \in J /\ d[q] # NoInfo)
  <2>1. CASE q = p
    BY <1>1, <1>2, <1>3, <2>1
  <2>2. CASE q # p
    BY <1>1, <1>3, <2>2
  <2>. QED BY <2>1, <2>2
<1>. QED BY <1>1, <1>4 DEF RowRight

LEMMA AboveIsPath ==
    ASSUME NEW q \in Paths
    PROVE  Parent(q) \in Paths \/ q = Root
BY PathParts

LEMMA InfoIsCalm ==
    ASSUME DbInv, NEW t, TreeInv(t), NEW S, NEW A, NEW sel \in Objects(t) \cup {Null},
           Calm(t, db, S, A, sel), NEW r \in BagToSet(S), r.op = "info",
           \A q \in Pended(S, A) : q.op \notin {"defs", "reset"} => q.me \in Objects(t),
           NEW u, IF Exists(r.url) THEN u = Informed(t, r.me, Reply(TRUE, Info(r.url), NoInfo, {}))
                  ELSE u = t
    PROVE  Calm(u, db, S (-) SetToBag({r}), A, sel)
<1>. DEFINE T == S (-) SetToBag({r})
            p == r.url
            I == DueInfos(t, S, A)
            J == DueInfos(u, T, A)
<1>1. PlainInv(t) /\ CallsInv(S, A) /\ Attends(t, sel) /\ \A q \in Pended(S, A) : CallInv(t, db, q)
  BY DEF Calm, Attends
<1>2. r \in Pended(S, A)
  BY DEF Pended
<1>3. BoundTo(t, r.me, p) /\ p \in Paths
  BY <1>1, <1>2 DEF CallInv, BoundTo, IsShown
<1>4. /\ CallsInv(T, A)
      /\ Pended(T, A) \subseteq Pended(S, A) /\ Pended(S, A) \subseteq Pended(T, A) \cup {r}
      /\ \A q \in Pended(S, A) : q.op \in Updates
      /\ \A a \in BagToSet(A) : ~Done(a)
  BY <1>1, InfoAlone
<1>. HIDE DEF T
<1>5. /\ DueRows(t, S, A) \subseteq DueRows(u, T, A)
      /\ \A x \in I : x = p \/ x \in J
  BY <1>4 DEF DueRows, DueInfos
<1>6. /\ Renewed(t, u, p)
      /\ IsShown(t, p) /\ canHaveValue(NameIn(p)) /\ p \in DOMAIN db =>
             u.dom[p][1].info = IF db[p] = NoInfo THEN t.dom[p][1].info ELSE db[p]
  <2>1. CASE Exists(p)
    <3>. DEFINE data == Reply(TRUE, Info(p), NoInfo, {})
    <3>1. data.info = Info(p) /\ data.writable = NoInfo
      BY DEF Reply
    <3>2. data.info \in Texts /\ data.writable \in Texts
      BY <2>1, <3>1, DbTypes DEF Texts
    <3>3. u = Informed(t, r.me, data)
      BY <2>1
    <3>. HIDE DEF data, p
    <3>4. InformedBy(t, u, r.me, p, Info(p))
      BY <1>1, <1>3, <3>1, <3>2, <3>3, InformedIsExact
    <3>5. Renewed(t, u, p)
      BY <3>4, InformedIsRenewed
    <3>6. canHaveValue(NameIn(p)) => u.dom[p][1].info = IF db[p] = NoInfo THEN t.dom[p][1].info ELSE db[p]
      BY <3>4 DEF InformedBy, Info
    <3>. QED BY <3>5, <3>6
  <2>2. CASE ~Exists(p)
    <3>1. u = t
      BY <2>2
    <3>2. Renewed(t, t, p)
      BY <1>1 DEF Renewed
    <3>. QED BY <2>2, <3>1, <3>2 DEF Exists
  <2>. QED BY <2>1, <2>2
<1>7. /\ PlainInv(u)
      /\ \A n \in Objects(t) : getPath(u, n) = getPath(t, n) /\ u.nodes[n].subs = t.nodes[n].subs
      /\ \A n, q : BoundTo(u, n, q) <=> BoundTo(t, n, q)
      /\ \A q \in Paths : (IsShown(u, q) <=> IsShown(t, q)) /\ (OpenIn(u, q) <=> OpenIn(t, q))
  BY <1>6 DEF Renewed
<1>8. ASSUME NEW q \in Pended(T, A) PROVE CallInv(u, db, q)
  <2>1. q \in Pended(S, A) /\ q.op \in Updates /\ CallInv(t, db, q)
    BY <1>1, <1>4
  <2>2. q.me \in Objects(t) /\ q.op \notin Edits
    BY <2>1 DEF Updates, Edits
  <2>3. q.op = "list" => ListInv(u, db, q)
    BY <1>7, <2>1, <2>2 DEF CallInv, ListInv, BoundTo, IsShown
  <2>4. q.op = "exists" => ExistsInv(u, q)
    <3>. HAVE q.op = "exists"
    <3>1. ExistsInv(t, q) /\ getPath(u, q.me) = getPath(t, q.me)
      BY <1>7, <2>1, <2>2 DEF CallInv
    <3>2. IsShown(u, q.url) <=> IsShown(t, q.url)
      BY <1>7 DEF IsShown
    <3>3. getPath(t, q.me) \in Paths
      BY <3>1 DEF ExistsInv, BoundTo, IsShown
    <3>. QED BY <1>7, <3>1, <3>2, <3>3 DEF ExistsInv
  <2>5. q.op = "info" => BoundTo(u, q.me, q.url)
    BY <1>7, <2>1 DEF CallInv
  <2>. QED BY <2>2, <2>3, <2>4, <2>5 DEF CallInv
<1>9. \A a \in BagToSet(A) : AnswerInv(u, a)
  BY <1>4 DEF AnswerInv
<1>10. sel # Null => Attached(u, sel)
  BY <1>1, <1>7 DEF Attends, Attached, Cut
<1>11. ASSUME NEW q \in Paths \ DueRows(u, T, A) PROVE RowRight(u, db, J, q)
  <2>1. RowRight(t, db, I, q)
    BY <1>5, <1>11 DEF Calm
  <2>. HIDE DEF I, J, p
  <2>. QED BY <1>3, <1>5, <1>6, <2>1, AboveIsPath, RenewedIsRight
<1>12. Calm(u, db, T, A, sel)
  BY <1>4, <1>7, <1>8, <1>9, <1>10, <1>11 DEF Calm
<1>. QED BY <1>12 DEF T

LEMMA InfoRefreshedSync ==
    ASSUME SyncInv, ExplorerInv', NEW r \in BagToSet(sent), InfoRefreshed(r)
    PROVE  SyncPart'
<1>. DEFINE u == IF Exists(r.url) THEN Informed(tree, r.me, Reply(TRUE, Info(r.url), NoInfo, {}))
                 ELSE tree
<1>1. /\ r.op = "info" /\ UNCHANGED <<db, selected, answered, hurried>>
      /\ sent' = sent (-) SetToBag({r}) /\ Becomes(u)
  BY DEF InfoRefreshed, FollowUp
<1>2. /\ ExplorerInv /\ DbInv /\ TreeInv(tree) /\ r \in Pending
      /\ selected \in Objects(tree) \cup {Null}
  BY DEF SyncInv, ExplorerInv, SelectedInv, Pending
<1>3. r.me \in Objects(tree)
  BY <1>1, <1>2, CalledFor
<1>4. IF Exists(r.url) THEN u = Informed(tree, r.me, Reply(TRUE, Info(r.url), NoInfo, {}))
      ELSE u = tree
  OBVIOUS
<1>5. TreeInv(u) /\ Objects(u) = Objects(tree)
  <2>1. CASE Exists(r.url)
    <3>. DEFINE data == Reply(TRUE, Info(r.url), NoInfo, {})
    <3>1. data.info \in Texts /\ data.writable \in Texts
      BY <1>2, <2>1, DbTypes DEF Reply, Texts
    <3>2. u = Informed(tree, r.me, data)
      BY <2>1
    <3>. HIDE DEF data, u
    <3>. QED BY <1>2, <1>3, <3>1, <3>2, InformedProperties
  <2>2. CASE ~Exists(r.url)
    BY <1>2, <2>2
  <2>. QED BY <2>1, <2>2
<1>. HIDE DEF u
<1>6. hurried' \in Nat /\ Exists(Root)'
  BY <1>1 DEF SyncInv, SyncPart, Exists
<1>7. ASSUME hurried' = 0 PROVE Calm(tree', db', sent', answered', selected')
  <2>1. Calm(tree, db, sent, answered, selected)
    BY <1>1, <1>7 DEF SyncInv, SyncPart
  <2>2. \A q \in Pended(sent, answered) : q \in Pending
    BY DEF Pended, Pending
  <2>3. \A q \in Pended(sent, answered) : q.op \notin {"defs", "reset"} => q.me \in Objects(tree)
    BY <1>2, <2>2, CalledFor
  <2>4. Calm(u, db, sent (-) SetToBag({r}), answered, selected)
    BY <1>1, <1>2, <1>4, <2>1, <2>3, InfoIsCalm
  <2>5. Calm(u, db', sent', answered', selected')
    BY <1>1, <2>4
  <2>6. \A q \in Pended(sent', answered') : q \in Pending
    <3>1. CallsInv(sent, answered)
      BY <2>1 DEF Calm
    <3>2. Pended(sent (-) SetToBag({r}), answered) \subseteq Pended(sent, answered)
      BY <1>1, <3>1, InfoAlone
    <3>. QED BY <1>1, <2>2, <3>2
  <2>. QED BY <1>1, <1>2, <1>5, <2>5, <2>6, CalmStep
<1>8. ASSUME hurried' = 0 PROVE \A a \in BagToSet(answered') : ListCurrent(a)'
  <2>. SUFFICES ASSUME NEW a \in BagToSet(answered) PROVE ListCurrent(a)'
    BY <1>1
  <2>1. ListCurrent(a)
    BY <1>1, <1>8 DEF SyncInv, SyncPart
  <2>. QED BY <1>1, <2>1, CurrentStays
<1>. QED BY <1>6, <1>7, <1>8 DEF SyncPart

LEMMA ConfirmedMissing ==
    ASSUME NEW t, NEW S, NEW sel, Calm(t, db, S, EmptyBag, sel),
           NEW r \in BagToSet(S), r.op = "exists", ~Exists(r.url)
    PROVE  Calm(t, db, S (-) SetToBag({r}), EmptyBag, sel)
<1>. DEFINE T == S (-) SetToBag({r})
<1>1. /\ PlainInv(t) /\ CallsInv(S, EmptyBag) /\ Attends(t, sel)
      /\ \A q \in BagToSet(S) : CallInv(t, db, q)
  BY NoAnswers DEF Calm, Attends
<1>2. /\ IsABag(T) /\ BagToSet(T) = BagToSet(S) \ {r}
      /\ \A q \in BagToSet(T) : q.op = "info"
  BY <1>1, CallAlone
<1>. HIDE DEF T
<1>3. CallsInv(T, EmptyBag)
  BY <1>2, NoAnswers DEF CallsInv, Updates
<1>4. DueInfos(t, T, EmptyBag) = DueInfos(t, S, EmptyBag)
  BY <1>2, NoAnswers
<1>5. ~IsShown(t, r.url)
  BY <1>1 DEF CallInv, ExistsInv
<1>6. ASSUME NEW q \in Paths PROVE RowRight(t, db, DueInfos(t, T, EmptyBag), q)
  <2>1. CASE q = r.url
    BY <1>5, <2>1 DEF RowRight, Exists
  <2>2. CASE q # r.url
    <3>1. q \notin DueRows(t, S, EmptyBag)
      BY <1>2, <2>2, NoAnswers
    <3>. QED BY <1>4, <3>1 DEF Calm
  <2>. QED BY <2>1, <2>2
<1>7. Pended(T, EmptyBag) = BagToSet(T) /\ BagToSet(EmptyBag) = {}
  BY NoAnswers
<1>8. Calm(t, db, T, EmptyBag, sel)
  BY <1>1, <1>2, <1>3, <1>6, <1>7 DEF Calm, Attends
<1>. QED BY <1>8 DEF T

LEMMA ConfirmedGrows ==
    ASSUME DbInv, NEW t, TreeInv(t), PlainInv(t), NEW r, ExistsInv(t, r), Exists(r.url)
    PROVE  LET p == getPath(t, r.me)
               u == add(t, r.me, Writable, OK)
               s == CHOOSE n \in u.nodes[r.me].subs : u.nodes[n].name = Writable
           IN  /\ GrownBy(t, u, r.me, p, Writable, NoInfo)
               /\ s = Fresh(t) /\ r.url = Append(p, Writable)
               /\ BoundTo(t, r.me, p) /\ BoundTo(u, s, r.url) /\ getPath(u, s) = r.url
               /\ r.url \in Paths /\ t.dom[r.url] = <<>> /\ Parent(r.url) = p
<1>. DEFINE p == getPath(t, r.me)
            u == add(t, r.me, Writable, OK)
            s == CHOOSE n \in u.nodes[r.me].subs : u.nodes[n].name = Writable
<1>1. BoundTo(t, r.me, p) /\ r.url = Append(p, Writable) /\ ~IsShown(t, r.url)
  BY DEF ExistsInv
<1>2. r.url \in Paths /\ t.dom[r.url] = <<>>
  BY <1>1 DEF Exists, DbInv, IsShown
<1>3. Writable \in Names \ {"bws"} /\ OK.info = NoInfo /\ OK.info \in Texts /\ OK.writable \in Texts
  BY DEF Names, Writable, OK, Reply, Texts
<1>4. Parent(r.url) = p
  <2>1. p \in Seq(Names)
    BY <1>1, PathsTypes DEF BoundTo, IsShown
  <2>. QED BY <1>1, <1>3, <2>1, AppendedName
<1>5. r.me \in Objects(t)
  BY <1>1, BoundOnce DEF BoundTo
<1>. HIDE DEF p, u
<1>6. GrownBy(t, u, r.me, p, Writable, NoInfo)
  <2>. DEFINE data == OK
  <2>1. data.info = NoInfo /\ data.info \in Texts /\ data.writable \in Texts
    BY <1>3
  <2>2. u = add(t, r.me, Writable, data)
    BY DEF u
  <2>. HIDE DEF data
  <2>3. GrownBy(t, add(t, r.me, Writable, data), r.me, p, Writable, data.info)
    BY <1>1, <1>2, <1>3, <2>1, AddGrows
  <2>. QED BY <2>1, <2>2, <2>3
<1>7. /\ TreeInv(u) /\ Objects(t) \subseteq Objects(u)
      /\ BoundTo(u, Fresh(t), r.url) /\ PlainInv(u)
      /\ Fresh(t) \in u.nodes[r.me].subs /\ u.nodes[Fresh(t)].name = Writable
  BY <1>1, <1>6 DEF GrownBy, Grown
<1>8. s = Fresh(t)
  <2>1. \A n, m \in u.nodes[r.me].subs : u.nodes[n].name = u.nodes[m].name => n = m
    BY <1>5, <1>7 DEF TreeInv, LinkInv
  <2>. QED BY <1>7, <2>1
<1>. HIDE DEF s
<1>9. getPath(u, s) = r.url
  <2>1. BoundTo(u, s, r.url)
    BY <1>7, <1>8
  <2>. QED BY <1>7, <2>1, BoundOnce DEF BoundTo
<1>. QED BY <1>1, <1>2, <1>4, <1>6, <1>7, <1>8, <1>9 DEF p, u, s

LEMMA ConfirmedIsCalm ==
    ASSUME DbInv, NEW t, TreeInv(t), NEW S, NEW sel \in Objects(t) \cup {Null},
           Calm(t, db, S, EmptyBag, sel), NEW r \in BagToSet(S), r.op = "exists", Exists(r.url)
    PROVE  LET u == add(t, r.me, Writable, OK)
               s == CHOOSE n \in u.nodes[r.me].subs : u.nodes[n].name = Writable
               U == S (-) SetToBag({r}) (+) SetToBag({Ask("info", getPath(u, s), s)})
           IN  /\ Calm(u, db, U, EmptyBag, sel)
               /\ TreeInv(u) /\ Objects(t) \subseteq Objects(u) /\ s \in Objects(u)
               /\ \A q \in BagToSet(U) : q \in BagToSet(S) \/ q.me \in Objects(u)
<1>. DEFINE T == S (-) SetToBag({r})
            p == getPath(t, r.me)
            u == add(t, r.me, Writable, OK)
            s == CHOOSE n \in u.nodes[r.me].subs : u.nodes[n].name = Writable
            i == Ask("info", getPath(u, s), s)
            U == T (+) SetToBag({i})
            c == r.url
<1>1. /\ PlainInv(t) /\ CallsInv(S, EmptyBag) /\ Attends(t, sel)
      /\ \A q \in BagToSet(S) : CallInv(t, db, q)
  BY NoAnswers DEF Calm, Attends
<1>2. /\ IsABag(T) /\ BagToSet(T) = BagToSet(S) \ {r}
      /\ \A q \in BagToSet(T) : q.op = "info"
  BY <1>1, CallAlone
<1>3. ExistsInv(t, r)
  BY <1>1 DEF CallInv
<1>4. /\ GrownBy(t, u, r.me, p, Writable, NoInfo)
      /\ s = Fresh(t) /\ c = Append(p, Writable)
      /\ BoundTo(t, r.me, p) /\ BoundTo(u, s, c) /\ getPath(u, s) = c
      /\ c \in Paths /\ t.dom[c] = <<>> /\ Parent(c) = p
  BY <1>1, <1>3, ConfirmedGrows
<1>5. i.op = "info" /\ i.url = c /\ i.me = s
  BY <1>4 DEF Ask, Request
<1>. HIDE DEF i, T, s, u
<1>6. IsABag(U) /\ BagToSet(U) = BagToSet(T) \cup {i}
  <2>. DEFINE C == SetToBag({i})
  <2>1. IsABag(C) /\ BagToSet(C) = {i}
    <3>1. BagToSet(SetToBag({i})) = {i}
      BY BagFacts
    <3>2. IsABag(SetToBag({i}))
      BY DEF SetToBag, IsABag
    <3>. QED BY <3>1, <3>2
  <2>. HIDE DEF C
  <2>2. IsABag(T (+) C) /\ BagToSet(T (+) C) = BagToSet(T) \cup BagToSet(C)
    BY <1>2, <2>1, BagPut
  <2>. QED BY <2>1, <2>2 DEF C
<1>. HIDE DEF U, p, c
<1>7. /\ TreeInv(u) /\ PlainInv(u) /\ Objects(t) \subseteq Objects(u) /\ Grown(t, u)
      /\ \A q \in Paths : q # c => u.dom[q] = t.dom[q]
      /\ u.dom[c][1].text = "+" /\ u.dom[c][1].info = NoInfo /\ IsShown(u, c)
  BY <1>4 DEF GrownBy, Grown, BoundTo
<1>8. /\ \A n, q : BoundTo(t, n, q) => BoundTo(u, n, q)
      /\ \A n \in Objects(t) : Attached(t, n) => Attached(u, n)
  BY <1>7, GrownKeeps
<1>9. \A q \in BagToSet(U) : q.op = "info"
  BY <1>2, <1>5, <1>6
<1>10. CallsInv(U, EmptyBag)
  BY <1>6, <1>9, NoAnswers DEF CallsInv, Updates
<1>11. ASSUME NEW q \in BagToSet(U) PROVE CallInv(u, db, q) /\ BoundTo(u, q.me, q.url)
  <2>1. q.op = "info"
    BY <1>9
  <2>2. BoundTo(u, q.me, q.url)
    <3>1. CASE q = i
      BY <1>4, <1>5, <3>1 DEF c
    <3>2. CASE q \in BagToSet(T)
      BY <1>1, <1>2, <1>8, <2>1, <3>2 DEF CallInv
    <3>. QED BY <1>6, <3>1, <3>2
  <2>. QED BY <2>1, <2>2 DEF CallInv, Edits
<1>12. ASSUME NEW q \in Paths PROVE RowRight(u, db, DueInfos(u, U, EmptyBag), q)
  <2>. DEFINE I == DueInfos(t, S, EmptyBag)
              J == DueInfos(u, U, EmptyBag)
  <2>1. c \in J /\ \A x \in I : x \in J
    <3>1. J = {x \in Paths : \E y \in BagToSet(U) : y.op \in {"list", "info"} /\ x = y.url}
      BY NoAnswers
    <3>2. I = {x \in Paths : \E y \in BagToSet(S) : y.op \in {"list", "info"} /\ x = y.url}
      BY NoAnswers
    <3>3. c \in J
      BY <1>4, <1>5, <1>6, <3>1 DEF c
    <3>4. ASSUME NEW x \in I PROVE x \in J
      <4>1. PICK y \in BagToSet(S) : y.op \in {"list", "info"} /\ x = y.url
        BY <3>2
      <4>2. y \in BagToSet(U)
        BY <1>2, <1>6, <4>1
      <4>. QED BY <3>1, <3>2, <4>1, <4>2
    <3>. QED BY <3>3, <3>4
  <2>2. CASE q = c
    <3>1. c \in DOMAIN db /\ OpenIn(u, Parent(c))
      <4>1. OpenIn(t, p) /\ p \in Paths
        BY <1>3 DEF ExistsInv, p, OpenIn, IsShown
      <4>2. p # c /\ u.dom[p] = t.dom[p]
        BY <1>4, <1>7, <4>1 DEF OpenIn, IsShown, c, p
      <4>3. OpenIn(u, p)
        BY <4>1, <4>2 DEF OpenIn, IsShown
      <4>. QED BY <1>4, <4>3 DEF Exists, c, p
    <3>. QED BY <1>7, <2>1, <2>2, <3>1 DEF RowRight
  <2>3. CASE q # c
    <3>1. RowRight(t, db, I, q)
      <4>1. q \notin DueRows(t, S, EmptyBag)
        BY <1>2, <2>3, NoAnswers DEF c
      <4>. QED BY <4>1 DEF Calm
    <3>2. u.dom[q] = t.dom[q] /\ (IsShown(u, q) <=> IsShown(t, q))
      BY <1>7, <2>3 DEF IsShown
    <3>3. OpenIn(u, Parent(q)) <=> OpenIn(t, Parent(q))
      <4>1. CASE Parent(q) = c
        BY <1>4, <1>7, <4>1 DEF OpenIn, IsShown, c
      <4>2. CASE Parent(q) # c
        BY <1>7, <4>2 DEF OpenIn, IsShown
      <4>. QED BY <4>1, <4>2
    <3>4. RowRight(u, db, I, q)
      BY <3>1, <3>2, <3>3 DEF RowRight
    <3>. QED BY <2>1, <3>4, RightIsMonotonic
  <2>. QED BY <2>2, <2>3
<1>13. Pended(U, EmptyBag) = BagToSet(U) /\ BagToSet(EmptyBag) = {}
  BY NoAnswers
<1>14. sel # Null => Attached(u, sel)
  BY <1>1, <1>8 DEF Attends
<1>15. Calm(u, db, U, EmptyBag, sel)
  BY <1>7, <1>10, <1>11, <1>12, <1>13, <1>14 DEF Calm
<1>16. s \in Objects(u)
  <2>1. BoundTo(u, s, c)
    BY <1>4 DEF c
  <2>. QED BY <1>7, <2>1, BoundOnce
<1>17. \A q \in BagToSet(U) : q \in BagToSet(S) \/ q.me \in Objects(u)
  BY <1>2, <1>5, <1>6, <1>16
<1>. QED BY <1>7, <1>15, <1>16, <1>17 DEF U, T, u, s, i

LEMMA ConfirmedToExistSync ==
    ASSUME SyncInv, ExplorerInv', NEW r \in BagToSet(sent), ConfirmedToExist(r)
    PROVE  SyncPart'
<1>. DEFINE u == add(tree, r.me, Writable, OK)
            s == CHOOSE n \in u.nodes[r.me].subs : u.nodes[n].name = Writable
            T == sent (-) SetToBag({r})
            U == T (+) SetToBag({Ask("info", getPath(u, s), s)})
<1>1. /\ r.op = "exists" /\ UNCHANGED <<db, selected, answered, hurried>>
      /\ IF Exists(r.url) THEN sent' = U /\ Becomes(u) ELSE sent' = T /\ Becomes(tree)
  BY DEF ConfirmedToExist, FollowUp
<1>2. /\ ExplorerInv /\ DbInv /\ TreeInv(tree)
      /\ selected \in Objects(tree) \cup {Null}
  BY DEF SyncInv, ExplorerInv, SelectedInv
<1>3. hurried' \in Nat /\ Exists(Root)'
  BY <1>1 DEF SyncInv, SyncPart, Exists
<1>4. ASSUME hurried' = 0
      PROVE  answered' = EmptyBag /\ Calm(tree', db', sent', answered', selected')
  <2>1. Calm(tree, db, sent, answered, selected)
    BY <1>1, <1>4 DEF SyncInv, SyncPart
  <2>2. answered = EmptyBag
    BY <1>1, <2>1, NoneAnswered DEF Calm
  <2>3. Calm(tree, db, sent, EmptyBag, selected) /\ answered' = EmptyBag
    BY <1>1, <2>1, <2>2
  <2>4. \A S : Pended(S, answered') = BagToSet(S)
    BY <2>3, NoAnswers
  <2>5. CASE Exists(r.url)
    <3>1. /\ Calm(u, db, U, EmptyBag, selected)
          /\ TreeInv(u) /\ Objects(tree) \subseteq Objects(u)
          /\ \A q \in BagToSet(U) : q \in BagToSet(sent) \/ q.me \in Objects(u)
      BY <1>1, <1>2, <2>3, <2>5, ConfirmedIsCalm
    <3>. HIDE DEF U, u
    <3>2. sent' = U /\ Becomes(u)
      BY <1>1, <2>5
    <3>3. \A q \in Pended(sent', answered') : q \in Pending \/ q.me \in Objects(u) \cup {Null}
      BY <2>4, <3>1, <3>2 DEF Pending
    <3>4. Calm(u, db', sent', answered', selected')
      BY <1>1, <2>3, <3>1, <3>2
    <3>5. selected' \in {Null, selected} \cup Objects(u)
      BY <1>1
    <3>. QED BY <1>2, <2>3, <3>1, <3>2, <3>3, <3>4, <3>5, CalmStep
  <2>6. CASE ~Exists(r.url)
    <3>1. Calm(tree, db, T, EmptyBag, selected)
      BY <1>1, <2>3, <2>6, ConfirmedMissing
    <3>2. BagToSet(T) \subseteq BagToSet(sent)
      BY BagFacts
    <3>. HIDE DEF T
    <3>3. sent' = T /\ Becomes(tree)
      BY <1>1, <2>6
    <3>4. \A q \in Pended(sent', answered') : q \in Pending
      BY <2>4, <3>2, <3>3 DEF Pending
    <3>5. Calm(tree, db', sent', answered', selected')
      BY <1>1, <2>3, <3>1, <3>3
    <3>6. selected' \in {Null, selected} \cup Objects(tree)
      BY <1>1
    <3>. QED BY <1>2, <2>3, <3>3, <3>4, <3>5, <3>6, CalmStep
  <2>. QED BY <2>3, <2>5, <2>6
<1>5. hurried' = 0 => BagToSet(answered') = {}
  BY <1>4, NoAnswers
<1>. QED BY <1>3, <1>4, <1>5 DEF SyncPart

LEMMA ServesSync ==
    ASSUME SyncInv, ExplorerInv', Serves
    PROVE  SyncPart'
BY ServeSync, ConfirmedToExistSync, InfoRefreshedSync DEF Serves
-------------------------------------------------------------------------------
(* The theorem.                                                            *)

LEMMA SyncStarts ==
    ASSUME Init
    PROVE  SyncInv
<1>1. ExplorerInv
  BY ExplorerInit
<1>2. Exists(Root)
  BY DatabasesAssumption DEF Init, Exists, Root
<1>3. SyncPart
  BY <1>1, <1>2, FreshSync DEF Init, ExplorerInv
<1>. QED BY <1>1, <1>3 DEF SyncInv

LEMMA StutterSync ==
    ASSUME SyncInv, UNCHANGED vars
    PROVE  SyncPart'
<1>1. /\ db' = db /\ tree' = tree /\ selected' = selected /\ sent' = sent
      /\ answered' = answered /\ hurried' = hurried
  BY DEF vars
<1>2. hurried' \in Nat /\ Exists(Root)'
  BY <1>1 DEF SyncInv, SyncPart, Exists
<1>3. ASSUME hurried' = 0
      PROVE  /\ Calm(tree', db', sent', answered', selected')
             /\ \A a \in BagToSet(answered') : ListCurrent(a)'
  <2>1. Calm(tree, db, sent, answered, selected) /\ \A a \in BagToSet(answered) : ListCurrent(a)
    BY <1>1, <1>3 DEF SyncInv, SyncPart
  <2>2. \A a \in BagToSet(answered) : ListCurrent(a)'
    BY <1>1, <2>1, CurrentStays
  <2>. QED BY <1>1, <2>1, <2>2
<1>. QED BY <1>2, <1>3 DEF SyncPart

LEMMA SyncStep ==
    ASSUME SyncInv, [Next]_vars
    PROVE  SyncInv'
<1>1. ExplorerInv'
  BY ExplorerStep DEF SyncInv
<1>2. CASE Next
  BY <1>1, <1>2, ClicksSync, ServesSync, AnswersSync DEF Next, SyncInv
<1>3. CASE UNCHANGED vars
  BY <1>1, <1>3, StutterSync DEF SyncInv
<1>. QED BY <1>2, <1>3

LEMMA SyncShows ==
    ASSUME SyncInv
    PROVE  TreeShowsServer
<1>. SUFFICES ASSUME hurried = 0, Quiet, NEW p \in Paths \ {<<"bws">>}
              PROVE  IF Exists(p) /\ IsOpen(Parent(p))
                     THEN /\ Len(tree.dom[p]) = 1 /\ tree.dom[p][1].handlers = 1
                          /\ canHaveValue(NameIn(p)) => tree.dom[p][1].info = db[p]
                     ELSE ~IsShown(tree, p)
  BY DEF TreeShowsServer
<1>1. Calm(tree, db, EmptyBag, EmptyBag, selected)
  BY DEF SyncInv, SyncPart, Quiet
<1>2. PlainInv(tree) /\ RowRight(tree, db, {}, p)
  BY <1>1, QuietIsResting DEF Resting
<1>3. IsShown(tree, p) <=> Exists(p) /\ IsOpen(Parent(p))
  BY <1>2 DEF RowRight, Root, Exists, IsOpen, OpenIn
<1>4. IsShown(tree, p) => PlainRow(tree, p)
  BY <1>2 DEF PlainInv
<1>. QED BY <1>2, <1>3, <1>4 DEF PlainRow, RowRight

\* When the user waits for answers before the next click, then at rest the page
\* shows what the server has. (expand, collapse, refresh, add and remove of
\* playground.js keep the rows by hand, for whatever answer comes next.)
THEOREM RowsShowServer == Spec => []TreeShowsServer
<1>1. Init => SyncInv
  BY SyncStarts
<1>2. SyncInv /\ [Next]_vars => SyncInv'
  BY SyncStep
<1>3. SyncInv => TreeShowsServer
  BY SyncShows
<1>. QED BY <1>1, <1>2, <1>3, PTL DEF Spec
===============================================================================
