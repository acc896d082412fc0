---------------------------- MODULE ExplorerProofs ----------------------------
(***************************************************************************)
(* Theorems about Explorer for any tree of data, any number of requests    *)
(* under way and any number of rows with one path: the types, that the     *)
(* buttons of a row act on the node of that row, and that the page writes  *)
(* to the row whose pencil was clicked or not at all.                      *)
(***************************************************************************)
EXTENDS Explorer, ListProofs

-------------------------------------------------------------------------------
(* The inductive invariant.                                                *)

Names == {"bws", Writable, DisplayName} \cup UNION {{p[i] : i \in 1 .. Len(p)} : p \in Paths}
Texts == {NoInfo, "true", "false", "+", "-"} \cup UNION {{d[p] : p \in DOMAIN d} : d \in Databases}

Nodes == [name : Names, parent : Nat, subs : SUBSET Nat, info : Texts, writable : Texts]
Rows  == [text : Texts, info : Texts, node : Nat, handlers : Nat]
Trees == [nodes : UNION {[D -> Nodes] : D \in SUBSET (Nat \ {Null})},
          dom   : [Paths -> Seq(Rows)]]

Objects(t) == DOMAIN t.nodes

\* f gives the path of every object. That there is one means that no object is
\* among its own ancestors.
IsRoute(t, f) ==
    /\ f \in [Objects(t) -> Seq(Names)]
    /\ \A n \in Objects(t) :
          f[n] = IF t.nodes[n].parent = Null THEN <<t.nodes[n].name>>
                 ELSE Append(f[t.nodes[n].parent], t.nodes[n].name)

\* Objects are linked both ways from a parent to its subs, and one way from a
\* sub that was replaced; the root is never cut off or taken for another.
LinkInv(t) ==
    /\ IsFiniteSet(Objects(t))
    /\ \E f : IsRoute(t, f)
    /\ \A n \in Objects(t) : LET o == t.nodes[n] IN
         /\ o.parent \in Objects(t) \cup {Null}
         /\ \A s \in o.subs : s \in Objects(t) /\ t.nodes[s].parent = n
         /\ \A s, u \in o.subs : t.nodes[s].name = t.nodes[u].name => s = u
         /\ o.name = "bws" <=> n = dataRoot
    /\ dataRoot \in Objects(t) /\ t.nodes[dataRoot].parent = Null

\* Of the rows with one path the first alone is bound, to an object with that
\* path; and a row is inside a row of its parent.
RowsInv(t) ==
    \A p \in Paths :
        /\ \A i \in 1 .. Len(t.dom[p]) : LET row == t.dom[p][i] IN
             /\ row.node # Null => /\ i = 1 /\ row.node \in Objects(t)
                                   /\ getPath(t, row.node) = p
             /\ row.handlers > 0 => row.node # Null
        /\ Len(p) > 1 /\ t.dom[p] # <<>> => t.dom[Parent(p)] # <<>>

TreeInv(t) == t \in Trees /\ LinkInv(t) /\ RowsInv(t)

DbInv == DOMAIN db \subseteq Paths /\ db \in [DOMAIN db -> Texts]

\* The path of the selected object is the one asked for, or relative.
Relative(p) == p[1] # "bws"
SelectedInv ==
    /\ selected # Null => /\ selected \in Objects(tree)
                          /\ \/ getPath(tree, selected) = asked
                             \/ Relative(getPath(tree, selected))
    /\ dialog.edit \/ dialog.form # "none" \/ dialog.sure # "none" => selected # Null

Writes == {"cut", "cutDelete", "delete", "put", "paste", "post"}

\* A cut goes where its DELETE will go.
RequestInv(r) ==
    /\ r.op \in Ops
    /\ r.me \in Objects(tree) \cup {Null}
    /\ r.op \notin {"defs", "reset"} => r.me # Null
    /\ r.op = "defs" => selected # Null
    /\ r.value \in Texts
    /\ r.op \in Writes /\ Within(r.url, <<"bws">>) =>
         r.url = r.for \/ (r.op = "put" /\ Parent(r.url) = r.for)

ReplyInv(a) ==
    a.request.op = "list" /\ a.reply.ok =>
        /\ a.reply.info \in Texts /\ a.reply.writable \in Texts
        /\ IsFiniteSet(a.reply.members)
        /\ a.reply.members \subseteq [name : Names \ {"bws"}, info : Texts, writable : Texts]

ExplorerInv ==
    /\ TreeInv(tree)
    /\ DbInv
    /\ SelectedInv
    /\ \A r \in Pending : RequestInv(r)
    /\ \A a \in BagToSet(answered) : ReplyInv(a)
-------------------------------------------------------------------------------
(* Recursive functions over numbers and over sets, when a step stays in T. *)

\* s iterates op h times, starting with base.
IsIteration(s, h, T, base, op) ==
    /\ s \in [0 .. h -> T]
    /\ \A i \in 0 .. h : s[i] = IF i = 0 THEN base ELSE op[s[i - 1]]

LEMMA IterationExists ==
    ASSUME NEW h \in Nat, NEW T, NEW base \in T, NEW op \in [T -> T]
    PROVE  \E s : IsIteration(s, h, T, base, op)
<1>. DEFINE Iterates(s, n) == \A i \in 0 .. n : s[i] = IF i = 0 THEN base ELSE op[s[i - 1]]
            G == {n \in Nat : \E s \in [0 .. n -> T] : Iterates(s, n)}
<1>1. 0 \in G
  <2>. DEFINE s == [i \in 0 .. 0 |-> base]
  <2>1. s \in [0 .. 0 -> T] /\ Iterates(s, 0)
    OBVIOUS
  <2>. QED BY <2>1
<1>2. ASSUME NEW n \in G PROVE n + 1 \in G
  <2>1. PICK s \in [0 .. n -> T] : Iterates(s, n)
    OBVIOUS
  <2>. DEFINE u == [i \in 0 .. n + 1 |-> IF i = n + 1 THEN op[s[n]] ELSE s[i]]
  <2>2. n \in 0 .. n /\ s[n] \in T /\ op[s[n]] \in T
    OBVIOUS
  <2>3. u \in [0 .. n + 1 -> T]
    BY <2>2
  <2>4. \A i \in 0 .. n : u[i] = s[i]
    OBVIOUS
  <2>5. Iterates(u, n + 1)
    <3>. SUFFICES ASSUME NEW i \in 0 .. n + 1
                  PROVE  u[i] = IF i = 0 THEN base ELSE op[u[i - 1]]
      OBVIOUS
    <3>1. CASE i = n + 1
      BY <3>1, <2>2
    <3>2. CASE i \in 0 .. n
      <4>1. s[i] = IF i = 0 THEN base ELSE op[s[i - 1]]
        BY <2>1, <3>2
      <4>2. i # 0 => i - 1 \in 0 .. n
        BY <3>2
      <4>. HIDE DEF u
      <4>. QED BY <4>1, <4>2, <2>4, <3>2
    <3>. QED BY <3>1, <3>2
  <2>6. n + 1 \in Nat
    OBVIOUS
  <2>. HIDE DEF u
  <2>. QED BY <2>3, <2>5, <2>6
<1>3. h \in G
  <2>. HIDE DEF G
  <2>1. G \in SUBSET Nat
    BY DEF G
  <2>2. G = Nat
    BY <1>1, <1>2, <2>1, SetInduction
  <2>. QED BY <2>2
<1>4. PICK s \in [0 .. h -> T] : Iterates(s, h)
  BY <1>3
<1>. QED BY <1>4 DEF IsIteration

\* What holds of the first value and is kept by every step holds of all.
LEMMA IterationStays ==
    ASSUME NEW h \in Nat, NEW T, NEW s, s[0] \in T,
           \A i \in 1 .. h : s[i - 1] \in T => s[i] \in T
    PROVE  \A i \in 0 .. h : s[i] \in T
<1>. DEFINE G == {n \in Nat : n <= h => s[n] \in T}
<1>1. 0 \in G
  OBVIOUS
<1>2. ASSUME NEW n \in G PROVE n + 1 \in G
  OBVIOUS
<1>. HIDE DEF G
<1>3. G \in SUBSET Nat
  BY DEF G
<1>4. G = Nat
  BY <1>1, <1>2, <1>3, SetInduction
<1>. QED BY <1>4 DEF G

\* The element that a fold takes from a set.
Chosen(s) == CHOOSE x \in s : TRUE

LEMMA ChosenProperties ==
    ASSUME NEW S, IsFiniteSet(S), S # {}
    PROVE  /\ Chosen(S) \in S /\ IsFiniteSet(S \ {Chosen(S)})
           /\ Cardinality(S) \in Nat \ {0}
           /\ Cardinality(S \ {Chosen(S)}) = Cardinality(S) - 1
<1>1. Chosen(S) \in S
  BY DEF Chosen
<1>. HIDE DEF Chosen
<1>2. Cardinality(S) \in Nat /\ Cardinality(S) # 0
  BY FS_CardinalityType, FS_EmptySet
<1>. QED BY <1>1, <1>2, FS_RemoveElement

\* iter is what folding op over the subsets of S gives, starting with base.
IsFold(iter, S, T, base, op) ==
    /\ iter \in [SUBSET S -> T]
    /\ \A s \in SUBSET S :
          iter[s] = IF s = {} THEN base ELSE op[Chosen(s)][iter[s \ {Chosen(s)}]]

LEMMA FoldExists ==
    ASSUME NEW S, IsFiniteSet(S), NEW T, NEW base \in T, NEW op \in [S -> [T -> T]]
    PROVE  \E iter : IsFold(iter, S, T, base, op)
<1>. DEFINE Small(n) == {s \in SUBSET S : Cardinality(s) <= n}
            Folds(f, n) == \A s \in Small(n) :
                f[s] = IF s = {} THEN base ELSE op[Chosen(s)][f[s \ {Chosen(s)}]]
            G == {n \in Nat : \E f \in [Small(n) -> T] : Folds(f, n)}
<1>1. \A s \in SUBSET S : IsFiniteSet(s) /\ Cardinality(s) \in Nat
  BY FS_Subset, FS_CardinalityType
<1>2. \A s \in SUBSET S : s # {} => /\ Chosen(s) \in s
                                    /\ Cardinality(s \ {Chosen(s)}) = Cardinality(s) - 1
  BY <1>1, ChosenProperties
<1>3. 0 \in G
  <2>. DEFINE f == [s \in Small(0) |-> base]
  <2>1. \A s \in Small(0) : s = {}
    BY <1>1, FS_EmptySet
  <2>2. f \in [Small(0) -> T] /\ Folds(f, 0)
    BY <2>1
  <2>. HIDE DEF f
  <2>. QED BY <2>2
<1>4. ASSUME NEW n \in G PROVE n + 1 \in G
  <2>1. PICK f \in [Small(n) -> T] : Folds(f, n)
    OBVIOUS
  <2>. DEFINE Next1(s) == IF s = {} THEN base ELSE op[Chosen(s)][f[s \ {Chosen(s)}]]
              g == [s \in Small(n + 1) |-> Next1(s)]
  <2>2. n \in Nat /\ n + 1 \in Nat
    OBVIOUS
  <2>3. \A s \in Small(n + 1) : s # {} => Chosen(s) \in S /\ s \ {Chosen(s)} \in Small(n)
    BY <1>1, <1>2, <2>2
  <2>4. g \in [Small(n + 1) -> T]
    <3>. SUFFICES ASSUME NEW s \in Small(n + 1) PROVE Next1(s) \in T
      OBVIOUS
    <3>1. s # {} => Chosen(s) \in S /\ f[s \ {Chosen(s)}] \in T
      BY <2>3
    <3>. QED BY <3>1
  <2>5. \A s \in Small(n) : s \in Small(n + 1) /\ g[s] = f[s]
    <3>1. \A s \in Small(n) : s \in Small(n + 1)
      BY <1>1, <2>2
    <3>2. \A s \in Small(n) : Next1(s) = f[s]
      BY <2>1
    <3>. QED BY <3>1, <3>2
  <2>6. Folds(g, n + 1)
    <3>. SUFFICES ASSUME NEW s \in Small(n + 1)
                  PROVE  g[s] = IF s = {} THEN base ELSE op[Chosen(s)][g[s \ {Chosen(s)}]]
      OBVIOUS
    <3>1. g[s] = Next1(s)
      OBVIOUS
    <3>2. s # {} => g[s \ {Chosen(s)}] = f[s \ {Chosen(s)}]
      BY <2>3, <2>5
    <3>. HIDE DEF g
    <3>. QED BY <3>1, <3>2
  <2>. HIDE DEF g
  <2>. QED BY <2>2, <2>4, <2>6
<1>5. Cardinality(S) \in G
  <2>. HIDE DEF G
  <2>1. G \in SUBSET Nat
    BY DEF G
  <2>2. G = Nat
    BY <1>3, <1>4, <2>1, SetInduction
  <2>. QED BY <2>2, <1>1
<1>6. Small(Cardinality(S)) = SUBSET S
  BY FS_Subset
<1>7. PICK f \in [SUBSET S -> T] : Folds(f, Cardinality(S))
  <2>1. \E f \in [Small(Cardinality(S)) -> T] : Folds(f, Cardinality(S))
    BY <1>5
  <2>. QED BY <2>1, <1>6
<1>8. \A s \in SUBSET S :
         f[s] = IF s = {} THEN base ELSE op[Chosen(s)][f[s \ {Chosen(s)}]]
  BY <1>6, <1>7
<1>. QED BY <1>7, <1>8 DEF IsFold

LEMMA FoldStays ==
    ASSUME NEW S, IsFiniteSet(S), NEW T, NEW iter, iter[{}] \in T,
           \A s \in SUBSET S : s # {} /\ iter[s \ {Chosen(s)}] \in T => iter[s] \in T
    PROVE  iter[S] \in T
<1>. DEFINE G == {n \in Nat : \A s \in SUBSET S : Cardinality(s) = n => iter[s] \in T}
<1>1. \A s \in SUBSET S : IsFiniteSet(s) /\ Cardinality(s) \in Nat
  BY FS_Subset, FS_CardinalityType
<1>2. 0 \in G
  BY <1>1, FS_EmptySet
<1>3. ASSUME NEW n \in G PROVE n + 1 \in G
  <2>. SUFFICES ASSUME NEW s \in SUBSET S, Cardinality(s) = n + 1 PROVE iter[s] \in T
    OBVIOUS
  <2>1. s # {}
    BY <1>1, FS_EmptySet
  <2>2. s \ {Chosen(s)} \in SUBSET S /\ Cardinality(s \ {Chosen(s)}) = n
    BY <1>1, <2>1, ChosenProperties
  <2>. QED BY <2>1, <2>2
<1>. HIDE DEF G
<1>4. G \in SUBSET Nat
  BY DEF G
<1>5. G = Nat
  BY <1>2, <1>3, <1>4, SetInduction
<1>. QED BY <1>1, <1>5 DEF G
-------------------------------------------------------------------------------
(* The paths of objects.                                                   *)

LEMMA AppendedName ==
    ASSUME NEW S, NEW q \in Seq(S), NEW x \in S
    PROVE  /\ Append(q, x) \in Seq(S)
           /\ Len(q) \in Nat /\ Len(Append(q, x)) = Len(q) + 1
           /\ Append(q, x) # <<>>
           /\ Append(q, x)[Len(q) + 1] = x
           /\ \A i \in 1 .. Len(q) : Append(q, x)[i] = q[i]
           /\ q # <<>> => Len(q) # 0 /\ Append(q, x)[1] = q[1]
           /\ Parent(Append(q, x)) = q
<1>1. Append(q, x) \in Seq(S) /\ Len(q) \in Nat /\ Len(Append(q, x)) = Len(q) + 1
  OBVIOUS
<1>2. Append(q, x)[Len(q) + 1] = x /\ \A i \in 1 .. Len(q) : Append(q, x)[i] = q[i]
  OBVIOUS
<1>3. q # <<>> => Len(q) # 0
  OBVIOUS
<1>4. q # <<>> => Append(q, x)[1] = q[1]
  BY <1>1, <1>2, <1>3
<1>5. SubSeq(Append(q, x), 1, Len(q)) = q
  OBVIOUS
<1>6. Len(Append(q, x)) - 1 = Len(q)
  BY <1>1
<1>7. Append(q, x) # <<>>
  <2>1. Len(<<>>) = 0
    OBVIOUS
  <2>2. Len(Append(q, x)) # 0
    BY <1>1
  <2>. QED BY <2>1, <2>2
<1>8. Parent(Append(q, x)) = q
  BY <1>5, <1>6 DEF Parent
<1>. QED BY <1>1, <1>2, <1>3, <1>4, <1>7, <1>8

\* What path every object has, given the path of its parent.
Extended(t, f, n) ==
    IF t.nodes[n].parent = Null THEN <<t.nodes[n].name>>
    ELSE Append(f[t.nodes[n].parent], t.nodes[n].name)

LEMMA TreeTypes ==
    ASSUME NEW t \in Trees
    PROVE  /\ Objects(t) \in SUBSET (Nat \ {Null}) /\ t.nodes \in [Objects(t) -> Nodes]
           /\ t.dom \in [Paths -> Seq(Rows)]
           /\ t = [nodes |-> t.nodes, dom |-> t.dom]
BY DEF Trees, Objects

LEMMA TreeFields ==
    ASSUME NEW t \in Trees, NEW new
    PROVE  /\ [t EXCEPT !.dom = new] = [nodes |-> t.nodes, dom |-> new]
           /\ [t EXCEPT !.nodes = new] = [nodes |-> new, dom |-> t.dom]
<1>1. DOMAIN t = {"nodes", "dom"}
  BY DEF Trees
<1>. DEFINE u == [t EXCEPT !.dom = new]
            v == [t EXCEPT !.nodes = new]
<1>2. /\ u = [x \in {"nodes", "dom"} |-> IF x = "dom" THEN new ELSE t.nodes]
      /\ v = [x \in {"nodes", "dom"} |-> IF x = "dom" THEN t.dom ELSE new]
  BY <1>1
<1>. QED BY <1>2

LEMMA MakeTree ==
    ASSUME NEW D \in SUBSET (Nat \ {Null}), NEW nodes \in [D -> Nodes],
           NEW dom \in [Paths -> Seq(Rows)]
    PROVE  [nodes |-> nodes, dom |-> dom] \in Trees
BY DEF Trees

\* There is one way to give paths to objects.
LEMMA RouteIsPath ==
    ASSUME NEW t \in Trees, NEW f, IsRoute(t, f),
           \A n \in Objects(t) : t.nodes[n].parent \in Objects(t) \cup {Null}
    PROVE  \A n \in Objects(t) : getPath(t, n) = f[n]
<1>. DEFINE D == Objects(t)
            Is(g) == g = [n \in D |-> Extended(t, g, n)]
            g == CHOOSE g : Is(g)
            G == {k \in Nat : \A n \in D : Len(f[n]) <= k => g[n] = f[n]}
<1>1. \A n \in D : f[n] = Extended(t, f, n) /\ f[n] \in Seq(Names) /\ t.nodes[n].name \in Names
  BY TreeTypes DEF IsRoute, Extended, Nodes
<1>2. Is(f)
  BY <1>1 DEF IsRoute
<1>3. Is(g)
  BY <1>2
<1>4. \A n \in D : g[n] = Extended(t, g, n)
  BY <1>3
<1>. HIDE DEF g
<1>5. \A n \in D : Len(f[n]) \in Nat \ {0}
  <2>. SUFFICES ASSUME NEW n \in D PROVE Len(f[n]) \in Nat \ {0}
    OBVIOUS
  <2>. DEFINE m == t.nodes[n].parent
  <2>1. CASE m = Null
    <3>1. f[n] = <<t.nodes[n].name>>
      BY <1>1, <2>1 DEF Extended
    <3>2. Len(<<t.nodes[n].name>>) = 1
      OBVIOUS
    <3>. QED BY <3>1, <3>2
  <2>2. CASE m # Null
    <3>1. m \in D /\ f[m] \in Seq(Names) /\ f[n] = Append(f[m], t.nodes[n].name)
      BY <1>1, <2>2 DEF Extended
    <3>. DEFINE q == f[m]
                x == t.nodes[n].name
    <3>2. q \in Seq(Names) /\ x \in Names /\ f[n] = Append(q, x)
      BY <1>1, <3>1
    <3>. HIDE DEF q, x
    <3>3. Len(q) \in Nat /\ Len(f[n]) = Len(q) + 1
      BY <3>2, AppendedName
    <3>. QED BY <3>3
  <2>. QED BY <2>1, <2>2
<1>6. 0 \in G
  BY <1>5
<1>7. ASSUME NEW k \in G PROVE k + 1 \in G
  <2>. SUFFICES ASSUME NEW n \in D, Len(f[n]) <= k + 1 PROVE g[n] = f[n]
    OBVIOUS
  <2>. DEFINE m == t.nodes[n].parent
  <2>1. CASE m = Null
    BY <2>1, <1>1, <1>4 DEF Extended
  <2>2. CASE m \in D
    <3>1. m # Null
      BY <2>2, TreeTypes
    <3>2. f[n] = Append(f[m], t.nodes[n].name) /\ g[n] = Append(g[m], t.nodes[n].name)
      BY <3>1, <1>1, <1>4 DEF Extended
    <3>3. f[m] \in Seq(Names)
      BY <2>2, <1>1
    <3>4. Len(f[n]) = Len(f[m]) + 1
      BY <3>2, <3>3
    <3>5. Len(f[m]) <= k
      BY <3>4, <1>5, <2>2
    <3>. QED BY <3>2, <3>5, <2>2
  <2>. QED BY <2>1, <2>2
<1>8. G = Nat
  <2>. HIDE DEF G
  <2>1. G \in SUBSET Nat
    BY DEF G
  <2>. QED BY <1>6, <1>7, <2>1, SetInduction
<1>9. \A n \in D : g[n] = f[n]
  BY <1>5, <1>8
<1>10. \A n \in D : getPath(t, n) = g[n]
  BY DEF getPath, g, Objects, Extended
<1>. QED BY <1>9, <1>10

\* The paths of a tree's objects: names from the topmost object on.
LEMMA PathProperties ==
    ASSUME NEW t \in Trees, LinkInv(t)
    PROVE  /\ IsRoute(t, [n \in Objects(t) |-> getPath(t, n)])
           /\ \A n \in Objects(t) :
                /\ getPath(t, n) \in Seq(Names) /\ Len(getPath(t, n)) \in Nat \ {0}
                /\ t.nodes[n].name \in Names
                /\ getPath(t, n)[Len(getPath(t, n))] = t.nodes[n].name
                /\ t.nodes[n].parent = Null => getPath(t, n) = <<t.nodes[n].name>>
                /\ t.nodes[n].parent # Null =>
                     /\ t.nodes[n].parent \in Objects(t)
                     /\ getPath(t, n) = Append(getPath(t, t.nodes[n].parent), t.nodes[n].name)
                     /\ Len(getPath(t, n)) = Len(getPath(t, t.nodes[n].parent)) + 1
                     /\ getPath(t, n)[1] = getPath(t, t.nodes[n].parent)[1]
                     /\ Parent(getPath(t, n)) = getPath(t, t.nodes[n].parent)
<1>1. PICK f : IsRoute(t, f)
  BY DEF LinkInv
<1>2. \A n \in Objects(t) : t.nodes[n].parent \in Objects(t) \cup {Null}
  BY DEF LinkInv
<1>3. \A n \in Objects(t) : getPath(t, n) = f[n]
  BY <1>1, <1>2, RouteIsPath
<1>4. f = [n \in Objects(t) |-> getPath(t, n)]
  BY <1>1, <1>3 DEF IsRoute
<1>5. ASSUME NEW n \in Objects(t)
      PROVE  /\ f[n] \in Seq(Names) /\ Len(f[n]) \in Nat \ {0}
             /\ t.nodes[n].name \in Names
             /\ f[n][Len(f[n])] = t.nodes[n].name
             /\ t.nodes[n].parent = Null => f[n] = <<t.nodes[n].name>>
             /\ t.nodes[n].parent # Null =>
                  /\ t.nodes[n].parent \in Objects(t)
                  /\ f[n] = Append(f[t.nodes[n].parent], t.nodes[n].name)
                  /\ Len(f[n]) = Len(f[t.nodes[n].parent]) + 1
                  /\ f[n][1] = f[t.nodes[n].parent][1]
                  /\ Parent(f[n]) = f[t.nodes[n].parent]
  <2>. DEFINE m == t.nodes[n].parent
  <2>1. f[n] \in Seq(Names) /\ t.nodes[n].name \in Names
    BY <1>1, TreeTypes DEF IsRoute, Nodes
  <2>2. CASE m = Null
    <3>1. f[n] = <<t.nodes[n].name>>
      BY <1>1, <2>2 DEF IsRoute
    <3>. QED BY <2>1, <2>2, <3>1
  <2>3. CASE m # Null
    <3>1. m \in Objects(t)
      BY <2>3, <1>2
    <3>2. f[n] = Append(f[m], t.nodes[n].name)
      BY <1>1, <2>3 DEF IsRoute
    <3>3. f[m] \in Seq(Names)
      BY <1>1, <3>1 DEF IsRoute
    <3>. DEFINE q == f[m]
                x == t.nodes[n].name
    <3>4. q # <<>> /\ Len(q) \in Nat
      <4>1. f[m] = IF t.nodes[m].parent = Null THEN <<t.nodes[m].name>>
                   ELSE Append(f[t.nodes[m].parent], t.nodes[m].name)
        BY <1>1, <3>1 DEF IsRoute
      <4>2. t.nodes[m].parent # Null => f[t.nodes[m].parent] \in Seq(Names)
        BY <1>1, <1>2, <3>1 DEF IsRoute
      <4>3. t.nodes[m].name \in Names
        BY <3>1, TreeTypes DEF Nodes
      <4>4. CASE t.nodes[m].parent = Null
        BY <4>1, <4>4
      <4>5. CASE t.nodes[m].parent # Null
        <5>. DEFINE r == f[t.nodes[m].parent]
                    y == t.nodes[m].name
        <5>1. f[m] = Append(r, y) /\ r \in Seq(Names) /\ y \in Names
          BY <4>1, <4>2, <4>3, <4>5
        <5>. HIDE DEF r, y
        <5>. QED BY <5>1, AppendedName
      <4>. QED BY <4>4, <4>5
    <3>. HIDE DEF q, x
    <3>5. q \in Seq(Names) /\ x \in Names
      BY <3>3, <2>1 DEF q, x
    <3>6. /\ Len(Append(q, x)) = Len(q) + 1 /\ Len(q) \in Nat \ {0}
          /\ Append(q, x)[Len(q) + 1] = x
          /\ Append(q, x)[1] = q[1]
          /\ Parent(Append(q, x)) = q
      <4>1. /\ Len(q) \in Nat /\ Len(Append(q, x)) = Len(q) + 1 /\ Len(q) # 0
            /\ Append(q, x)[Len(q) + 1] = x /\ Append(q, x)[1] = q[1]
            /\ Parent(Append(q, x)) = q
        BY <3>4, <3>5, AppendedName
      <4>. QED BY <4>1
    <3>. QED BY <3>1, <3>2, <3>6, <2>1, <2>3 DEF q, x
  <2>. QED BY <2>2, <2>3
<1>. QED BY <1>1, <1>3, <1>4, <1>5, <1>2

\* u is t but for what the rows and objects show.
SameShape(t, u) ==
    /\ u \in Trees /\ Objects(u) = Objects(t)
    /\ \A n \in Objects(t) : /\ u.nodes[n].name = t.nodes[n].name
                             /\ u.nodes[n].parent = t.nodes[n].parent
                             /\ u.nodes[n].subs = t.nodes[n].subs
    /\ \A p \in Paths : /\ Len(u.dom[p]) = Len(t.dom[p])
                        /\ \A i \in 1 .. Len(t.dom[p]) :
                             /\ u.dom[p][i].node = t.dom[p][i].node
                             /\ u.dom[p][i].handlers = t.dom[p][i].handlers

\* No object of t is gone, and one whose path changed is cut off.
Keeps(t, u) ==
    /\ Objects(t) \subseteq Objects(u)
    /\ \A n \in Objects(t) :
          getPath(u, n) = getPath(t, n) \/ Relative(getPath(u, n))

LEMMA KeepsIsTransitive ==
    ASSUME NEW t, NEW u, NEW v, Keeps(t, u), Keeps(u, v)
    PROVE  Keeps(t, v)
BY DEF Keeps

LEMMA RowListTypes ==
    ASSUME NEW t \in Trees, NEW p \in Paths
    PROVE  /\ t.dom[p] \in Seq(Rows) /\ Len(t.dom[p]) \in Nat
           /\ t.dom[p] = <<>> <=> Len(t.dom[p]) = 0
           /\ \A i \in 1 .. Len(t.dom[p]) : t.dom[p][i] \in Rows
<1>. DEFINE d == t.dom[p]
<1>1. d \in Seq(Rows)
  BY TreeTypes
<1>. HIDE DEF d
<1>2. Len(d) \in Nat /\ (d = <<>> <=> Len(d) = 0) /\ \A i \in 1 .. Len(d) : d[i] \in Rows
  BY <1>1
<1>. QED BY <1>1, <1>2 DEF d

LEMMA ShapeIsKept ==
    ASSUME NEW t, NEW u, TreeInv(t), SameShape(t, u)
    PROVE  /\ TreeInv(u) /\ Keeps(t, u)
           /\ \A n \in Objects(t) : getPath(u, n) = getPath(t, n)
           /\ \A p \in Paths : u.dom[p] = <<>> <=> t.dom[p] = <<>>
<1>. DEFINE f == [n \in Objects(t) |-> getPath(t, n)]
<1>1. t \in Trees /\ LinkInv(t) /\ RowsInv(t) /\ u \in Trees /\ Objects(u) = Objects(t)
  BY DEF TreeInv, SameShape
<1>2. IsRoute(t, f)
  BY <1>1, PathProperties
<1>3. IsRoute(u, f)
  BY <1>1, <1>2 DEF IsRoute, SameShape
<1>4. \A n \in Objects(u) : u.nodes[n].parent \in Objects(u) \cup {Null}
  BY <1>1 DEF LinkInv, SameShape
<1>5. \A n \in Objects(t) : getPath(u, n) = getPath(t, n)
  <2>1. \A n \in Objects(u) : getPath(u, n) = f[n]
    <3>. HIDE DEF f
    <3>. QED BY <1>1, <1>3, <1>4, RouteIsPath
  <2>. QED BY <1>1, <2>1
<1>6. LinkInv(u)
  <2>1. \E g : IsRoute(u, g)
    BY <1>3
  <2>. QED BY <1>1, <1>4, <2>1 DEF LinkInv, SameShape
<1>7. \A p \in Paths : u.dom[p] = <<>> <=> t.dom[p] = <<>>
  BY <1>1, RowListTypes DEF SameShape
<1>8. RowsInv(u)
  <2>. SUFFICES ASSUME NEW p \in Paths
                PROVE  /\ \A i \in 1 .. Len(u.dom[p]) : LET row == u.dom[p][i] IN
                            /\ row.node # Null => /\ i = 1 /\ row.node \in Objects(u)
                                                  /\ getPath(u, row.node) = p
                            /\ row.handlers > 0 => row.node # Null
                       /\ Len(p) > 1 /\ u.dom[p] # <<>> => u.dom[Parent(p)] # <<>>
    BY DEF RowsInv
  <2>1. Len(p) > 1 => Parent(p) \in Paths
    BY PathsAssumption DEF Parent
  <2>2. Len(p) > 1 /\ u.dom[p] # <<>> => u.dom[Parent(p)] # <<>>
    BY <1>1, <1>7, <2>1 DEF RowsInv
  <2>3. ASSUME NEW i \in 1 .. Len(u.dom[p])
        PROVE  /\ u.dom[p][i].node # Null => /\ i = 1 /\ u.dom[p][i].node \in Objects(u)
                                             /\ getPath(u, u.dom[p][i].node) = p
               /\ u.dom[p][i].handlers > 0 => u.dom[p][i].node # Null
    <3>1. i \in 1 .. Len(t.dom[p]) /\ u.dom[p][i].node = t.dom[p][i].node
          /\ u.dom[p][i].handlers = t.dom[p][i].handlers
      BY DEF SameShape
    <3>2. /\ t.dom[p][i].node # Null => /\ i = 1 /\ t.dom[p][i].node \in Objects(t)
                                        /\ getPath(t, t.dom[p][i].node) = p
          /\ t.dom[p][i].handlers > 0 => t.dom[p][i].node # Null
      BY <3>1, <1>1 DEF RowsInv
    <3>. QED BY <3>1, <3>2, <1>1, <1>5
  <2>. QED BY <2>2, <2>3
<1>. QED BY <1>1, <1>5, <1>6, <1>7, <1>8 DEF TreeInv, Keeps

LEMMA SameShapeReflexive == ASSUME NEW t \in Trees PROVE SameShape(t, t)
BY DEF SameShape

LEMMA SameShapeTransitive ==
    ASSUME NEW t, NEW u, NEW v, SameShape(t, u), SameShape(u, v)
    PROVE  SameShape(t, v)
BY DEF SameShape

\* One row that shows something else.
LEMMA RowChanged ==
    ASSUME NEW t \in Trees, NEW p \in Paths, NEW row \in Rows, t.dom[p] # <<>>,
           row.node = t.dom[p][1].node, row.handlers = t.dom[p][1].handlers
    PROVE  LET u == [t EXCEPT !.dom[p][1] = row] IN
           /\ SameShape(t, u) /\ u.nodes = t.nodes /\ u.dom[p][1] = row
           /\ \A q \in Paths : q # p => u.dom[q] = t.dom[q]
<1>. DEFINE dom == [t.dom EXCEPT ![p][1] = row]
            u   == [t EXCEPT !.dom[p][1] = row]
<1>1. u = [nodes |-> t.nodes, dom |-> dom]
  BY TreeFields
<1>. HIDE DEF u
<1>2. t.dom \in [Paths -> Seq(Rows)]
  BY TreeTypes
<1>. DEFINE d == t.dom[p]
            e == [d EXCEPT ![1] = row]
<1>3. d \in Seq(Rows) /\ Len(d) \in Nat /\ Len(d) # 0
  BY RowListTypes
<1>4. dom[p] = e /\ \A q \in Paths : q # p => dom[q] = t.dom[q]
  BY <1>2
<1>5. dom = [q \in Paths |-> IF q = p THEN e ELSE t.dom[q]]
  BY <1>2
<1>. HIDE DEF d
<1>6. e \in Seq(Rows) /\ Len(e) = Len(d) /\ e[1] = row /\ \A i \in 2 .. Len(d) : e[i] = d[i]
  BY <1>3
<1>. HIDE DEF e, dom
<1>7. dom \in [Paths -> Seq(Rows)]
  BY <1>2, <1>5, <1>6
<1>8. u \in Trees /\ u.nodes = t.nodes /\ u.dom = dom
  <2>1. Objects(t) \in SUBSET (Nat \ {Null}) /\ t.nodes \in [Objects(t) -> Nodes]
    BY TreeTypes
  <2>. QED BY <1>1, <1>7, <2>1, MakeTree
<1>9. ASSUME NEW q \in Paths
      PROVE  /\ Len(u.dom[q]) = Len(t.dom[q])
             /\ \A i \in 1 .. Len(t.dom[q]) :
                  /\ u.dom[q][i].node = t.dom[q][i].node
                  /\ u.dom[q][i].handlers = t.dom[q][i].handlers
  <2>1. CASE q = p
    <3>1. u.dom[q] = e /\ t.dom[q] = d
      BY <2>1, <1>4, <1>8 DEF d
    <3>2. ASSUME NEW i \in 1 .. Len(d)
          PROVE  e[i].node = d[i].node /\ e[i].handlers = d[i].handlers
      <4>1. CASE i = 1
        BY <4>1, <1>6 DEF d
      <4>2. CASE i \in 2 .. Len(d)
        BY <4>2, <1>6
      <4>. QED BY <4>1, <4>2, <1>3
    <3>. QED BY <3>1, <3>2, <1>6
  <2>2. CASE q # p
    BY <2>2, <1>4, <1>8
  <2>. QED BY <2>1, <2>2
<1>10. SameShape(t, u)
  BY <1>8, <1>9 DEF SameShape, Objects
<1>. QED BY <1>4, <1>6, <1>8, <1>10 DEF u

LEMMA TextShape ==
    ASSUME NEW t \in Trees, NEW p, NEW text \in Texts
    PROVE  SameShape(t, SetText(t, p, text)) /\ SameShape(t, SetRowInfo(t, p, text))
<1>1. CASE IsShown(t, p)
  <2>1. p \in Paths /\ t.dom[p] # <<>>
    BY <1>1 DEF IsShown
  <2>. DEFINE row1 == [t.dom[p][1] EXCEPT !.text = text]
              row2 == [t.dom[p][1] EXCEPT !.info = text]
  <2>2. t.dom[p][1] \in Rows
    BY <2>1, RowListTypes
  <2>3. /\ row1 \in Rows /\ row1.node = t.dom[p][1].node /\ row1.handlers = t.dom[p][1].handlers
        /\ row2 \in Rows /\ row2.node = t.dom[p][1].node /\ row2.handlers = t.dom[p][1].handlers
    BY <2>2 DEF Rows
  <2>4. SetText(t, p, text) = [t EXCEPT !.dom[p][1] = row1]
    BY <1>1 DEF SetText
  <2>5. SetRowInfo(t, p, text) = [t EXCEPT !.dom[p][1] = row2]
    BY <1>1 DEF SetRowInfo
  <2>. HIDE DEF row1, row2
  <2>. QED BY <2>1, <2>3, <2>4, <2>5, RowChanged
<1>2. CASE ~IsShown(t, p)
  BY <1>2, SameShapeReflexive DEF SetText, SetRowInfo
<1>. QED BY <1>1, <1>2

LEMMA InfoShape ==
    ASSUME NEW t \in Trees, NEW n \in Objects(t), NEW data,
           data.info \in Texts, data.writable \in Texts
    PROVE  LET u == setInfoFrom(t, n, data) IN
           /\ SameShape(t, u) /\ u.dom = t.dom
           /\ u.nodes[n].info = IF data.info = NoInfo THEN t.nodes[n].info ELSE data.info
           /\ \A m \in Objects(t) : m # n => u.nodes[m] = t.nodes[m]
<1>. DEFINE o == t.nodes[n]
            new == [o EXCEPT !.info     = IF data.info = NoInfo THEN o.info ELSE data.info,
                             !.writable = IF data.writable = NoInfo THEN o.writable
                                          ELSE data.writable]
            nodes == [t.nodes EXCEPT ![n] = new]
            u == setInfoFrom(t, n, data)
<1>1. t.nodes \in [Objects(t) -> Nodes] /\ Objects(t) \in SUBSET (Nat \ {Null})
      /\ t.dom \in [Paths -> Seq(Rows)] /\ t = [nodes |-> t.nodes, dom |-> t.dom]
  BY TreeTypes
<1>2. u = [nodes |-> nodes, dom |-> t.dom]
  <2>1. u = [t EXCEPT !.nodes = nodes]
    BY DEF setInfoFrom
  <2>. HIDE DEF nodes
  <2>. QED BY <2>1, TreeFields
<1>3. o \in Nodes
  BY <1>1
<1>. HIDE DEF o
<1>4. /\ new \in Nodes /\ new.name = o.name /\ new.parent = o.parent /\ new.subs = o.subs
      /\ new.info = IF data.info = NoInfo THEN o.info ELSE data.info
  BY <1>3 DEF Nodes
<1>. HIDE DEF new
<1>5. nodes \in [Objects(t) -> Nodes] /\ nodes[n] = new
      /\ \A m \in Objects(t) : m # n => nodes[m] = t.nodes[m]
  BY <1>1, <1>4
<1>. HIDE DEF nodes
<1>6. u \in Trees
  BY <1>1, <1>2, <1>5, MakeTree
<1>7. u.nodes = nodes /\ u.dom = t.dom /\ Objects(u) = Objects(t)
  BY <1>2, <1>5 DEF Objects
<1>. HIDE DEF u
<1>8. SameShape(t, u)
  BY <1>4, <1>5, <1>6, <1>7 DEF SameShape, o
<1>. QED BY <1>4, <1>5, <1>7, <1>8 DEF u, o
-------------------------------------------------------------------------------
(* Paths within paths.                                                     *)

LEMMA WithinElements ==
    ASSUME NEW S, NEW p \in Seq(S), NEW q \in Seq(S)
    PROVE  Within(p, q) <=> Len(p) >= Len(q) /\ \A i \in 1 .. Len(q) : p[i] = q[i]
<1>1. Len(p) \in Nat /\ Len(q) \in Nat
  OBVIOUS
<1>2. CASE Len(p) >= Len(q)
  <2>. DEFINE r == SubSeq(p, 1, Len(q))
  <2>1. r \in Seq(S) /\ Len(r) = Len(q) /\ \A i \in 1 .. Len(q) : r[i] = p[i]
    BY <1>1, <1>2
  <2>. HIDE DEF r
  <2>2. r = q <=> \A i \in 1 .. Len(q) : r[i] = q[i]
    <3>1. ASSUME \A i \in 1 .. Len(q) : r[i] = q[i] PROVE r = q
      <4>1. r = [i \in 1 .. Len(r) |-> r[i]] /\ q = [i \in 1 .. Len(q) |-> q[i]]
        BY <2>1
      <4>. QED BY <4>1, <3>1, <2>1
    <3>. QED BY <3>1
  <2>3. Within(p, q) <=> r = q
    BY <1>2 DEF Within, r
  <2>. QED BY <1>2, <2>1, <2>2, <2>3
<1>3. CASE ~(Len(p) >= Len(q))
  BY <1>3 DEF Within
<1>. QED BY <1>2, <1>3

LEMMA ParentElements ==
    ASSUME NEW S, NEW p \in Seq(S), Len(p) > 0
    PROVE  /\ Parent(p) \in Seq(S) /\ Len(Parent(p)) = Len(p) - 1
           /\ \A i \in 1 .. Len(p) - 1 : Parent(p)[i] = p[i]
<1>1. Len(p) \in Nat /\ Len(p) - 1 \in Nat
  OBVIOUS
<1>. QED BY <1>1 DEF Parent

\* The path that is left of q when everything above its k-th name is cut off.
CutAbove(q, k) == SubSeq(q, k, Len(q))

LEMMA CutPath ==
    ASSUME NEW S, NEW q \in Seq(S), NEW x \in S, NEW k \in 1 .. Len(q)
    PROVE  /\ CutAbove(q, k) \in Seq(S)
           /\ CutAbove(q, k)[1] = q[k]
           /\ CutAbove(q, Len(q)) = <<q[Len(q)]>>
           /\ CutAbove(Append(q, x), k) = Append(CutAbove(q, k), x)
<1>1. Len(q) \in Nat /\ k \in Nat /\ k >= 1 /\ k <= Len(q)
  OBVIOUS
<1>2. /\ CutAbove(q, k) \in Seq(S) /\ Len(CutAbove(q, k)) = Len(q) - k + 1
      /\ \A i \in 1 .. Len(q) - k + 1 : CutAbove(q, k)[i] = q[k + i - 1]
  <2>. DEFINE r == SubSeq(q, k, Len(q))
  <2>1. r \in Seq(S) /\ Len(r) = Len(q) - k + 1
    BY <1>1
  <2>2. \A i \in 1 .. Len(q) - k + 1 : r[i] = q[k + i - 1]
    BY <1>1
  <2>. QED BY <2>1, <2>2 DEF CutAbove
<1>3. CutAbove(q, k)[1] = q[k]
  <2>1. 1 \in 1 .. Len(q) - k + 1 /\ k + 1 - 1 = k
    BY <1>1
  <2>. HIDE DEF CutAbove
  <2>. QED BY <1>2, <2>1
<1>4. CutAbove(q, Len(q)) = <<q[Len(q)]>>
  <2>. DEFINE r == SubSeq(q, Len(q), Len(q))
  <2>1. r \in Seq(S) /\ Len(r) = 1
    BY <1>1
  <2>2. r[1] = q[Len(q)]
    BY <1>1
  <2>. HIDE DEF r
  <2>3. r = [i \in 1 .. 1 |-> r[i]]
    BY <2>1
  <2>4. <<q[Len(q)]>> = [i \in 1 .. 1 |-> q[Len(q)]]
    OBVIOUS
  <2>5. r = <<q[Len(q)]>>
    BY <2>2, <2>3, <2>4
  <2>. QED BY <2>5 DEF r, CutAbove
<1>5. CutAbove(Append(q, x), k) = Append(CutAbove(q, k), x)
  <2>. DEFINE a == Append(q, x)
              r == SubSeq(a, k, Len(q) + 1)
              c == CutAbove(q, k)
              b == Append(c, x)
              m == Len(q) - k + 1
  <2>1. /\ a \in Seq(S) /\ Len(a) = Len(q) + 1 /\ a[Len(q) + 1] = x
        /\ \A i \in 1 .. Len(q) : a[i] = q[i]
    BY AppendedName
  <2>. HIDE DEF a
  <2>2. r \in Seq(S) /\ Len(r) = m + 1
    BY <1>1, <2>1
  <2>3. \A i \in 1 .. m + 1 : r[i] = a[k + i - 1]
    BY <1>1, <2>1
  <2>4. c \in Seq(S) /\ Len(c) = m
    BY <1>2
  <2>5. \A i \in 1 .. m : c[i] = q[k + i - 1]
    BY <1>2
  <2>. HIDE DEF c
  <2>6. b \in Seq(S) /\ Len(b) = m + 1 /\ b[m + 1] = x /\ \A i \in 1 .. m : b[i] = c[i]
    <3>. HIDE DEF m
    <3>. QED BY <2>4, AppendedName
  <2>. HIDE DEF b, r
  <2>7. ASSUME NEW i \in 1 .. m + 1 PROVE r[i] = b[i]
    <3>1. CASE i = m + 1
      <4>1. k + i - 1 = Len(q) + 1
        BY <3>1, <1>1
      <4>. QED BY <3>1, <4>1, <2>1, <2>3, <2>6
    <3>2. CASE i # m + 1
      <4>1. i \in 1 .. m /\ k + i - 1 \in 1 .. Len(q)
        BY <3>2, <1>1
      <4>. QED BY <4>1, <2>1, <2>3, <2>5, <2>6
    <3>. QED BY <3>1, <3>2
  <2>8. r = [i \in 1 .. m + 1 |-> r[i]] /\ b = [i \in 1 .. m + 1 |-> b[i]]
    <3>. HIDE DEF m
    <3>. QED BY <2>2, <2>6
  <2>9. r = b
    <3>. HIDE DEF m
    <3>. QED BY <2>7, <2>8
  <2>. QED BY <2>9, <2>1 DEF r, b, c, a, CutAbove
<1>. QED BY <1>2, <1>3, <1>4, <1>5

LEMMA PathsTypes ==
    ASSUME NEW p \in Paths
    PROVE  /\ p \in Seq(Names) /\ Len(p) \in Nat \ {0} /\ p[1] = "bws"
           /\ Len(p) > 1 => Parent(p) \in Paths
<1>1. p \in Seq(Names) /\ Len(p) \in Nat /\ Len(p) > 0
  <2>1. p \in Seq(STRING) /\ Len(p) \in Nat /\ Len(p) > 0
    BY PathsAssumption
  <2>2. \A i \in 1 .. Len(p) : p[i] \in Names
    BY DEF Names
  <2>3. p = [i \in 1 .. Len(p) |-> p[i]]
    BY <2>1
  <2>4. p \in [1 .. Len(p) -> Names]
    BY <2>2, <2>3
  <2>. QED BY <2>1, <2>4
<1>2. \A i \in 1 .. Len(p) : p[i] = "bws" <=> i = 1
  BY PathsAssumption
<1>3. p[1] = "bws"
  BY <1>1, <1>2
<1>4. Len(p) > 1 => Parent(p) \in Paths
  BY PathsAssumption DEF Parent
<1>. QED BY <1>1, <1>3, <1>4

LEMMA WithinParent ==
    ASSUME NEW S, NEW p \in Seq(S), NEW q \in Seq(S), Len(p) > 0
    PROVE  /\ Within(p, q) /\ p # q => Len(p) > Len(q) /\ Within(Parent(p), q)
           /\ Within(Parent(p), q) => Within(p, q) /\ Len(p) > Len(q)
<1>1. Len(p) \in Nat /\ Len(q) \in Nat
  OBVIOUS
<1>. DEFINE r == Parent(p)
<1>2. r \in Seq(S) /\ Len(r) = Len(p) - 1 /\ \A i \in 1 .. Len(p) - 1 : r[i] = p[i]
  BY ParentElements
<1>. HIDE DEF r
<1>3. Within(p, q) <=> Len(p) >= Len(q) /\ \A i \in 1 .. Len(q) : p[i] = q[i]
  BY WithinElements
<1>4. Within(r, q) <=> Len(r) >= Len(q) /\ \A i \in 1 .. Len(q) : r[i] = q[i]
  BY <1>2, WithinElements
<1>5. Within(p, q) /\ Len(p) = Len(q) => p = q
  <2>1. p = [i \in 1 .. Len(p) |-> p[i]] /\ q = [i \in 1 .. Len(q) |-> q[i]]
    OBVIOUS
  <2>. QED BY <1>3, <2>1
<1>6. ASSUME Within(p, q), p # q PROVE Len(p) > Len(q) /\ Within(r, q)
  <2>1. Len(p) > Len(q)
    BY <1>1, <1>3, <1>5, <1>6
  <2>. QED BY <2>1, <1>1, <1>2, <1>3, <1>4, <1>6
<1>7. ASSUME Within(r, q) PROVE Within(p, q) /\ Len(p) > Len(q)
  BY <1>1, <1>2, <1>3, <1>4, <1>7
<1>. QED BY <1>6, <1>7 DEF r

\* A row is shown inside the rows of all paths above it.
LEMMA AncestorShown ==
    ASSUME NEW t \in Trees, RowsInv(t), NEW q \in Seq(Names), Len(q) > 0,
           NEW p \in Paths, t.dom[p] # <<>>, Within(p, q)
    PROVE  IsShown(t, q)
<1>. DEFINE G == {k \in Nat : \A r \in Paths :
                     Len(r) <= k /\ t.dom[r] # <<>> /\ Within(r, q) => IsShown(t, q)}
<1>1. 0 \in G
  BY PathsTypes
<1>2. ASSUME NEW k \in G PROVE k + 1 \in G
  <2>. SUFFICES ASSUME NEW r \in Paths, Len(r) <= k + 1, t.dom[r] # <<>>, Within(r, q)
                PROVE  IsShown(t, q)
    OBVIOUS
  <2>1. r \in Seq(Names) /\ Len(r) \in Nat /\ Len(r) > 0 /\ (Len(r) > 1 => Parent(r) \in Paths)
    BY PathsTypes
  <2>2. CASE r = q
    BY <2>2 DEF IsShown
  <2>3. CASE r # q
    <3>1. Len(r) > Len(q) /\ Within(Parent(r), q)
      BY <2>1, <2>3, WithinParent
    <3>2. Len(q) \in Nat
      OBVIOUS
    <3>3. Len(r) > 1 /\ Parent(r) \in Paths
      BY <2>1, <3>1, <3>2
    <3>4. t.dom[Parent(r)] # <<>>
      BY <3>3 DEF RowsInv
    <3>5. Len(Parent(r)) <= k
      BY <2>1, ParentElements
    <3>. QED BY <3>1, <3>3, <3>4, <3>5
  <2>. QED BY <2>2, <2>3
<1>3. G = Nat
  <2>. HIDE DEF G
  <2>1. G \in SUBSET Nat
    BY DEF G
  <2>. QED BY <1>1, <1>2, <2>1, SetInduction
<1>4. Len(p) \in G
  BY <1>3, PathsTypes
<1>. QED BY <1>4
-------------------------------------------------------------------------------
(* Cutting an object off.                                                  *)

\* The object and all that have it among their ancestors.
Below(t, sub) ==
    {n \in Objects(t) :
       \A X \in SUBSET Objects(t) :
          sub \in X /\ (\A m \in Objects(t) : t.nodes[m].parent \in X => m \in X) => n \in X}

LEMMA BelowProperties ==
    ASSUME NEW t \in Trees, LinkInv(t), NEW sub \in Objects(t)
    PROVE  /\ sub \in Below(t, sub) /\ Below(t, sub) \subseteq Objects(t)
           /\ \A m \in Objects(t) : t.nodes[m].parent \in Below(t, sub) => m \in Below(t, sub)
           /\ \A n \in Below(t, sub) : n # sub => t.nodes[n].parent \in Below(t, sub)
           /\ \A n \in Below(t, sub) : Within(getPath(t, n), getPath(t, sub))
<1>. DEFINE D == Objects(t)
            B == Below(t, sub)
            Closed1(X) == sub \in X /\ \A m \in D : t.nodes[m].parent \in X => m \in X
<1>1. \A X \in SUBSET D : Closed1(X) => B \subseteq X
  BY DEF Below
<1>2. sub \in B /\ B \subseteq D
  BY DEF Below
<1>3. \A m \in D : t.nodes[m].parent \in B => m \in B
  BY DEF Below
<1>. HIDE DEF B
<1>4. \A n \in B : n # sub => t.nodes[n].parent \in B
  <2>. DEFINE X == {sub} \cup {n \in B : t.nodes[n].parent \in B}
  <2>1. X \in SUBSET D /\ Closed1(X)
    BY <1>2, <1>3
  <2>2. B \subseteq X
    BY <1>1, <2>1
  <2>. QED BY <2>2
<1>5. \A n \in B : Within(getPath(t, n), getPath(t, sub))
  <2>. DEFINE X == {n \in D : Within(getPath(t, n), getPath(t, sub))}
              q == getPath(t, sub)
  <2>1. q \in Seq(Names)
    BY PathProperties
  <2>2. sub \in X
    BY <2>1, WithinElements
  <2>3. ASSUME NEW m \in D, t.nodes[m].parent \in X PROVE m \in X
    <3>1. t.nodes[m].parent # Null
      BY <2>3, TreeTypes
    <3>. DEFINE p == getPath(t, m)
    <3>2. p \in Seq(Names) /\ Len(p) \in Nat \ {0} /\ Parent(p) = getPath(t, t.nodes[m].parent)
      BY <3>1, PathProperties
    <3>3. Within(Parent(p), q)
      BY <2>3, <3>2
    <3>. HIDE DEF p, q
    <3>4. Within(p, q)
      BY <2>1, <3>2, <3>3, WithinParent
    <3>. QED BY <3>4 DEF p, q
  <2>4. Closed1(X) /\ X \in SUBSET D
    BY <2>2, <2>3
  <2>. QED BY <1>1, <2>4
<1>. QED BY <1>2, <1>3, <1>4, <1>5 DEF B

LEMMA CutRoute ==
    ASSUME NEW t \in Trees, LinkInv(t), NEW sub \in Objects(t),
           NEW u \in Trees, Objects(u) = Objects(t),
           \A n \in Objects(t) :
              /\ u.nodes[n].name = t.nodes[n].name
              /\ u.nodes[n].parent = IF n = sub THEN Null ELSE t.nodes[n].parent
    PROVE  /\ \E f : IsRoute(u, f)
           /\ \A n \in Below(t, sub) : getPath(u, n)[1] = t.nodes[sub].name
           /\ \A n \in Objects(t) : n \notin Below(t, sub) => getPath(u, n) = getPath(t, n)
<1>. DEFINE D == Objects(t)
            B == Below(t, sub)
            k == Len(getPath(t, sub))
            f == [n \in D |-> getPath(t, n)]
            g == [n \in D |-> IF n \in B THEN CutAbove(f[n], k) ELSE f[n]]
<1>1. /\ sub \in B /\ B \subseteq D
      /\ \A m \in D : t.nodes[m].parent \in B => m \in B
      /\ \A n \in B : n # sub => t.nodes[n].parent \in B
      /\ \A n \in B : Within(f[n], f[sub])
  BY BelowProperties
<1>2. /\ IsRoute(t, f) /\ k = Len(f[sub]) /\ f[sub][k] = t.nodes[sub].name
      /\ \A n \in D : f[n] \in Seq(Names) /\ Len(f[n]) \in Nat \ {0} /\ t.nodes[n].name \in Names
  BY PathProperties
<1>3. \A n \in D : f[n] = IF t.nodes[n].parent = Null THEN <<t.nodes[n].name>>
                          ELSE Append(f[t.nodes[n].parent], t.nodes[n].name)
  BY <1>2 DEF IsRoute
<1>4. \A n \in D : t.nodes[n].parent \in D \cup {Null}
  BY DEF LinkInv
<1>5. Null \notin D
  BY TreeTypes
<1>. HIDE DEF f, k, B
<1>6. \A n \in B : k \in 1 .. Len(f[n]) /\ f[n][k] = t.nodes[sub].name
  <2>. SUFFICES ASSUME NEW n \in B
                PROVE  k \in 1 .. Len(f[n]) /\ f[n][k] = t.nodes[sub].name
    OBVIOUS
  <2>. DEFINE p == f[n]
              q == f[sub]
  <2>1. /\ p \in Seq(Names) /\ q \in Seq(Names) /\ Len(p) \in Nat /\ Len(q) \in Nat \ {0}
        /\ Within(p, q) /\ k = Len(q) /\ q[k] = t.nodes[sub].name
    BY <1>1, <1>2
  <2>. HIDE DEF p, q
  <2>2. Len(p) >= Len(q) /\ \A i \in 1 .. Len(q) : p[i] = q[i]
    BY <2>1, WithinElements
  <2>3. k \in 1 .. Len(p) /\ p[k] = t.nodes[sub].name
    BY <2>1, <2>2
  <2>. QED BY <2>3 DEF p
<1>7. \A n \in B : CutAbove(f[n], k) \in Seq(Names) /\ CutAbove(f[n], k)[1] = t.nodes[sub].name
  <2>. SUFFICES ASSUME NEW n \in B
                PROVE  /\ CutAbove(f[n], k) \in Seq(Names)
                       /\ CutAbove(f[n], k)[1] = t.nodes[sub].name
    OBVIOUS
  <2>. DEFINE p == f[n]
              x == t.nodes[sub].name
  <2>1. p \in Seq(Names) /\ k \in 1 .. Len(p) /\ p[k] = x /\ x \in Names
    BY <1>1, <1>2, <1>6
  <2>. HIDE DEF p, x
  <2>2. CutAbove(p, k) \in Seq(Names) /\ CutAbove(p, k)[1] = p[k]
    BY <2>1, CutPath
  <2>. QED BY <2>1, <2>2 DEF p, x
<1>8. CutAbove(f[sub], k) = <<t.nodes[sub].name>>
  <2>. DEFINE q == f[sub]
  <2>1. q \in Seq(Names) /\ k \in 1 .. Len(q) /\ k = Len(q) /\ q[k] = t.nodes[sub].name
    BY <1>1, <1>2, <1>6
  <2>. HIDE DEF q
  <2>2. CutAbove(q, Len(q)) = <<q[Len(q)]>>
    BY <2>1, <1>2, CutPath
  <2>. QED BY <2>1, <2>2 DEF q
<1>9. g \in [D -> Seq(Names)]
  BY <1>2, <1>7
<1>10. ASSUME NEW n \in D
       PROVE  g[n] = IF u.nodes[n].parent = Null THEN <<u.nodes[n].name>>
                     ELSE Append(g[u.nodes[n].parent], u.nodes[n].name)
  <2>. DEFINE m == t.nodes[n].parent
              x == t.nodes[n].name
  <2>1. CASE n = sub
    BY <2>1, <1>1, <1>8
  <2>2. CASE n # sub /\ n \in B
    <3>1. m \in B /\ m \in D /\ m # Null
      BY <1>1, <1>5, <2>2
    <3>2. f[n] = Append(f[m], x) /\ g[n] = CutAbove(f[n], k) /\ g[m] = CutAbove(f[m], k)
      BY <1>3, <2>2, <3>1
    <3>3. f[m] \in Seq(Names) /\ x \in Names /\ k \in 1 .. Len(f[m])
      BY <1>2, <1>6, <3>1
    <3>. DEFINE q == f[m]
    <3>. HIDE DEF q, x
    <3>4. CutAbove(Append(q, x), k) = Append(CutAbove(q, k), x)
      BY <3>3, CutPath DEF q
    <3>5. g[n] = Append(g[m], x)
      BY <3>2, <3>4 DEF q
    <3>6. u.nodes[n].parent = m /\ u.nodes[n].name = x
      BY <2>2 DEF x
    <3>. HIDE DEF g, m
    <3>. QED BY <3>1, <3>5, <3>6
  <2>3. CASE n \notin B
    <3>1. n # sub /\ m \notin B
      BY <1>1, <2>3
    <3>2. u.nodes[n].parent = m /\ u.nodes[n].name = x
      BY <3>1
    <3>3. g[n] = f[n] /\ (m # Null => g[m] = f[m])
      BY <1>4, <2>3, <3>1
    <3>. HIDE DEF g
    <3>. QED BY <1>3, <3>2, <3>3
  <2>. QED BY <2>1, <2>2, <2>3
<1>11. IsRoute(u, g)
  <2>. HIDE DEF g
  <2>. QED BY <1>9, <1>10 DEF IsRoute
<1>12. \A n \in D : getPath(u, n) = g[n]
  <2>1. \A n \in Objects(u) : u.nodes[n].parent \in Objects(u) \cup {Null}
    BY <1>4
  <2>. HIDE DEF g
  <2>2. \A n \in Objects(u) : getPath(u, n) = g[n]
    BY <1>11, <2>1, RouteIsPath
  <2>. QED BY <2>2
<1>13. \A n \in B : getPath(u, n)[1] = t.nodes[sub].name
  BY <1>1, <1>7, <1>12
<1>14. \A n \in D : n \notin B => getPath(u, n) = getPath(t, n)
  BY <1>12 DEF f
<1>. QED BY <1>11, <1>13, <1>14 DEF B

\* remove(): the object is cut off with all below it, and their rows are gone.
LEMMA RemoveProperties ==
    ASSUME NEW t, TreeInv(t), NEW me \in Objects(t), NEW sub \in Objects(t) \ {dataRoot},
           t.nodes[sub].parent \in {me, Null}
    PROVE  LET u == remove(t, me, sub) IN
           /\ TreeInv(u) /\ Keeps(t, u) /\ Objects(u) = Objects(t)
           /\ \A n \in Objects(t) :
                u.nodes[n].parent = IF n = sub THEN Null ELSE t.nodes[n].parent
           /\ \A n \in Objects(t) :
                n # sub /\ Len(getPath(t, n)) <= Len(getPath(t, sub)) =>
                   getPath(u, n) = getPath(t, n)
           /\ \A q \in Paths : Len(q) < Len(getPath(t, sub)) => u.dom[q] = t.dom[q]
           /\ t.nodes[sub].parent = Null =>
                u.dom = t.dom /\ \A n \in Objects(t) : getPath(u, n) = getPath(t, n)
<1>. DEFINE D     == Objects(t)
            path  == getPath(t, sub)
            shown == IsShown(t, path)
            dom   == IF shown THEN RemoveRow(t.dom, path) ELSE t.dom
            nodes == [t.nodes EXCEPT ![sub].parent = Null, ![me].subs = @ \ {sub}]
            u     == remove(t, me, sub)
            B     == Below(t, sub)
<1>1. /\ t \in Trees /\ LinkInv(t) /\ RowsInv(t) /\ t.nodes \in [D -> Nodes]
      /\ D \in SUBSET (Nat \ {Null}) /\ t.dom \in [Paths -> Seq(Rows)]
  BY TreeTypes DEF TreeInv
<1>2. u = [nodes |-> nodes, dom |-> dom]
  BY DEF remove
<1>. HIDE DEF u
<1>3. /\ nodes \in [D -> Nodes]
      /\ \A n \in D : /\ nodes[n].name = t.nodes[n].name
                      /\ nodes[n].parent = IF n = sub THEN Null ELSE t.nodes[n].parent
                      /\ nodes[n].subs = IF n = me THEN t.nodes[n].subs \ {sub} ELSE t.nodes[n].subs
  <2>1. \A n \in D : t.nodes[n] \in Nodes
    BY <1>1
  <2>2. Null \in Nat
    BY DEF Null
  <2>. QED BY <1>1, <2>1, <2>2 DEF Nodes
<1>4. path \in Seq(Names) /\ Len(path) \in Nat \ {0} /\ path[Len(path)] = t.nodes[sub].name
      /\ t.nodes[sub].name # "bws"
  <2>1. t.nodes[sub].name # "bws"
    BY <1>1 DEF LinkInv
  <2>. QED BY <1>1, <2>1, PathProperties
<1>. HIDE DEF nodes, path
<1>5. \A p \in Paths :
        IF shown /\ p = path THEN t.dom[p] # <<>> /\ dom[p] = Tail(t.dom[p])
        ELSE IF shown /\ Within(p, path) THEN dom[p] = <<>>
        ELSE dom[p] = t.dom[p]
  <2>1. CASE shown
    <3>1. path \in Paths /\ t.dom[path] # <<>>
      BY <2>1 DEF IsShown
    <3>2. \A p \in Paths : dom[p] = IF p = path THEN Tail(t.dom[p])
                                    ELSE IF Within(p, path) THEN <<>>
                                    ELSE t.dom[p]
      BY <2>1 DEF RemoveRow
    <3>. HIDE DEF dom, shown
    <3>. QED BY <2>1, <3>1, <3>2
  <2>2. CASE ~shown
    BY <2>2
  <2>. QED BY <2>1, <2>2
<1>6. dom \in [Paths -> Seq(Rows)]
  <2>1. \A p \in Paths : t.dom[p] # <<>> => Tail(t.dom[p]) \in Seq(Rows)
    BY <1>1
  <2>2. ASSUME shown PROVE dom \in [Paths -> Seq(Rows)]
    <3>1. dom = [p \in Paths |-> dom[p]]
      BY <2>2 DEF RemoveRow
    <3>2. ASSUME NEW p \in Paths PROVE dom[p] \in Seq(Rows)
      <4>1. t.dom[p] \in Seq(Rows) /\ <<>> \in Seq(Rows)
        BY <1>1
      <4>. HIDE DEF dom
      <4>. QED BY <1>5, <2>1, <4>1
    <3>. HIDE DEF dom
    <3>. QED BY <3>1, <3>2
  <2>. QED BY <1>1, <2>2
<1>. HIDE DEF dom
<1>7. u \in Trees /\ u.nodes = nodes /\ u.dom = dom /\ Objects(u) = D
  <2>1. u \in Trees
    BY <1>1, <1>2, <1>3, <1>6, MakeTree
  <2>2. u.nodes = nodes /\ u.dom = dom
    BY <1>2
  <2>. QED BY <1>3, <2>1, <2>2 DEF Objects
<1>. HIDE DEF u
<1>8. /\ sub \in B /\ B \subseteq D
      /\ \A n \in B : Within(getPath(t, n), path)
  BY <1>1, BelowProperties DEF path
<1>9. /\ \E f : IsRoute(u, f)
      /\ \A n \in B : getPath(u, n)[1] = t.nodes[sub].name
      /\ \A n \in D : n \notin B => getPath(u, n) = getPath(t, n)
  <2>1. \A n \in Objects(t) :
           /\ u.nodes[n].name = t.nodes[n].name
           /\ u.nodes[n].parent = IF n = sub THEN Null ELSE t.nodes[n].parent
    BY <1>3, <1>7
  <2>. HIDE DEF Below
  <2>. QED BY <1>1, <1>7, <2>1, CutRoute
<1>. HIDE DEF B
<1>10. ASSUME NEW n \in D
       PROVE  /\ u.nodes[n].parent \in D \cup {Null}
              /\ \A s \in u.nodes[n].subs : s \in D /\ u.nodes[s].parent = n
              /\ \A s, v \in u.nodes[n].subs : u.nodes[s].name = u.nodes[v].name => s = v
              /\ u.nodes[n].name = "bws" <=> n = dataRoot
  <2>1. /\ t.nodes[n].parent \in D \cup {Null}
        /\ \A s \in t.nodes[n].subs : s \in D /\ t.nodes[s].parent = n
        /\ \A s, v \in t.nodes[n].subs : t.nodes[s].name = t.nodes[v].name => s = v
        /\ t.nodes[n].name = "bws" <=> n = dataRoot
    BY <1>1 DEF LinkInv
  <2>2. u.nodes[n].subs \subseteq t.nodes[n].subs
    BY <1>3, <1>7
  <2>3. sub \notin u.nodes[n].subs
    BY <1>3, <1>7, <1>1, <2>1
  <2>4. u.nodes[n].parent \in D \cup {Null}
    BY <1>3, <1>7, <2>1
  <2>5. \A s \in u.nodes[n].subs : s \in D /\ u.nodes[s].parent = n
    <3>. SUFFICES ASSUME NEW s \in u.nodes[n].subs PROVE s \in D /\ u.nodes[s].parent = n
      OBVIOUS
    <3>1. s \in D /\ s # sub /\ t.nodes[s].parent = n
      BY <2>1, <2>2, <2>3
    <3>. QED BY <1>3, <1>7, <3>1
  <2>6. \A s, v \in u.nodes[n].subs : u.nodes[s].name = u.nodes[v].name => s = v
    BY <1>3, <1>7, <2>1, <2>2
  <2>7. u.nodes[n].name = "bws" <=> n = dataRoot
    BY <1>3, <1>7, <2>1
  <2>. QED BY <2>4, <2>5, <2>6, <2>7
<1>11. LinkInv(u)
  <2>1. IsFiniteSet(D) /\ dataRoot \in D /\ t.nodes[dataRoot].parent = Null
    BY <1>1 DEF LinkInv
  <2>2. u.nodes[dataRoot].parent = Null
    BY <1>3, <1>7, <2>1
  <2>. QED BY <1>7, <1>9, <1>10, <2>1, <2>2 DEF LinkInv
<1>12. ASSUME NEW p \in Paths, dom[p] # <<>> PROVE Len(p) > 1 => dom[Parent(p)] # <<>>
  <2>. SUFFICES ASSUME Len(p) > 1 PROVE dom[Parent(p)] # <<>>
    OBVIOUS
  <2>1. p \in Seq(Names) /\ Parent(p) \in Paths
    BY PathsTypes
  <2>2. t.dom[p] # <<>> /\ ~(shown /\ p # path /\ Within(p, path))
    BY <1>5, <1>12
  <2>3. t.dom[Parent(p)] # <<>>
    BY <1>1, <2>2 DEF RowsInv
  <2>4. Within(Parent(p), path) => Within(p, path) /\ p # path
    BY <1>4, <2>1, WithinParent
  <2>5. Within(path, path)
    BY <1>4, WithinElements
  <2>. QED BY <1>5, <2>1, <2>2, <2>3, <2>4, <2>5
<1>13. ASSUME NEW p \in Paths, NEW i \in 1 .. Len(dom[p])
       PROVE  /\ dom[p][i].node # Null => /\ i = 1 /\ dom[p][i].node \in D
                                          /\ getPath(u, dom[p][i].node) = p
              /\ dom[p][i].handlers > 0 => dom[p][i].node # Null
  <2>0. \A j \in 1 .. Len(t.dom[p]) :
           /\ t.dom[p][j].node # Null => /\ j = 1 /\ t.dom[p][j].node \in D
                                         /\ getPath(t, t.dom[p][j].node) = p
           /\ t.dom[p][j].handlers > 0 => t.dom[p][j].node # Null
    BY <1>1 DEF RowsInv
  <2>1. CASE shown /\ p = path
    <3>1. dom[p] = Tail(t.dom[p]) /\ t.dom[p] # <<>>
      BY <1>5, <2>1
    <3>2. i + 1 \in 1 .. Len(t.dom[p]) /\ i + 1 # 1 /\ dom[p][i] = t.dom[p][i + 1]
      <4>. DEFINE d == t.dom[p]
      <4>1. d \in Seq(Rows) /\ d # <<>> /\ i \in 1 .. Len(Tail(d))
        BY <1>1, <3>1
      <4>. HIDE DEF d
      <4>2. i + 1 \in 1 .. Len(d) /\ i + 1 # 1 /\ Tail(d)[i] = d[i + 1]
        BY <4>1
      <4>. QED BY <3>1, <4>2 DEF d
    <3>3. dom[p][i].node = Null /\ ~(dom[p][i].handlers > 0)
      BY <2>0, <3>2
    <3>. QED BY <3>3
  <2>2. CASE shown /\ p # path /\ Within(p, path)
    <3>1. dom[p] = <<>>
      BY <1>5, <2>2
    <3>. QED BY <3>1
  <2>3. CASE ~(shown /\ (p = path \/ Within(p, path)))
    <3>1. dom[p] = t.dom[p]
      BY <1>5, <2>3
    <3>2. t.dom[p] # <<>>
      BY <3>1
    <3>3. ~Within(p, path)
      BY <1>1, <1>4, <2>3, <3>2, AncestorShown
    <3>4. t.dom[p][i].node # Null => t.dom[p][i].node \notin B
      BY <1>8, <2>0, <3>1, <3>3
    <3>. QED BY <1>9, <2>0, <3>1, <3>4
  <2>. QED BY <2>1, <2>2, <2>3
<1>14. RowsInv(u)
  BY <1>7, <1>12, <1>13 DEF RowsInv
<1>15. Keeps(t, u)
  BY <1>4, <1>7, <1>8, <1>9 DEF Keeps, Relative
<1>16. \A n \in D : n # sub /\ Len(getPath(t, n)) <= Len(path) => getPath(u, n) = getPath(t, n)
  <2>. SUFFICES ASSUME NEW n \in B, n # sub, Len(getPath(t, n)) <= Len(path) PROVE FALSE
    BY <1>9
  <2>1. t.nodes[n].parent \in B
    BY <1>1, BelowProperties DEF B
  <2>. DEFINE m == t.nodes[n].parent
  <2>2. m \in D /\ n \in D /\ m # Null
    BY <1>1, <1>8, <2>1
  <2>3. Len(getPath(t, n)) = Len(getPath(t, m)) + 1 /\ Len(getPath(t, m)) \in Nat
    BY <1>1, <2>2, PathProperties
  <2>4. Len(getPath(t, m)) >= Len(path)
    BY <1>8, <2>1 DEF Within
  <2>. QED BY <1>4, <2>3, <2>4
<1>17. \A q \in Paths : Len(q) < Len(path) => u.dom[q] = t.dom[q]
  <2>. SUFFICES ASSUME NEW q \in Paths, Len(q) < Len(path) PROVE dom[q] = t.dom[q]
    BY <1>7
  <2>1. ~Within(q, path) /\ q # path
    <3>1. Len(q) \in Nat
      BY PathsTypes
    <3>. QED BY <1>4, <3>1 DEF Within
  <2>. QED BY <1>5, <2>1
<1>18. \A n \in D : u.nodes[n].parent = IF n = sub THEN Null ELSE t.nodes[n].parent
  BY <1>3, <1>7
<1>19. ASSUME t.nodes[sub].parent = Null
       PROVE  u.dom = t.dom /\ \A n \in D : getPath(u, n) = getPath(t, n)
  <2>1. path = <<t.nodes[sub].name>>
    BY <1>1, <1>19, PathProperties DEF path
  <2>2. ~shown
    BY <1>4, <2>1, PathsTypes DEF IsShown
  <2>. DEFINE f == [n \in D |-> getPath(t, n)]
  <2>3. IsRoute(t, f)
    BY <1>1, PathProperties
  <2>4. \A n \in D : u.nodes[n].parent = t.nodes[n].parent /\ u.nodes[n].name = t.nodes[n].name
    BY <1>3, <1>7, <1>19
  <2>5. IsRoute(u, f)
    BY <1>7, <2>3, <2>4 DEF IsRoute
  <2>6. \A n \in D : getPath(u, n) = f[n]
    <3>1. \A n \in Objects(u) : u.nodes[n].parent \in Objects(u) \cup {Null}
      BY <1>7, <1>10
    <3>. HIDE DEF f
    <3>2. \A n \in Objects(u) : getPath(u, n) = f[n]
      BY <1>7, <2>5, <3>1, RouteIsPath
    <3>. QED BY <1>7, <3>2
  <2>7. u.dom = t.dom
    BY <1>7, <2>2 DEF dom
  <2>. QED BY <2>6, <2>7
<1>. QED BY <1>7, <1>11, <1>14, <1>15, <1>16, <1>17, <1>18, <1>19 DEF TreeInv, u, path

\* What a handler that works on the object me leaves alone.
KeepsRow(t, u, me) ==
    /\ TreeInv(u) /\ Keeps(t, u) /\ Objects(u) = Objects(t)
    /\ getPath(u, me) = getPath(t, me)
    /\ \A q \in Paths : Len(q) <= Len(getPath(t, me)) =>
          /\ u.dom[q] = <<>> <=> t.dom[q] = <<>>
          /\ t.dom[q] # <<>> => u.dom[q][1].node = t.dom[q][1].node

\* iter gives the tree after remove() of every one of some subs of me.
RemovesAll(iter, t, me) ==
    /\ iter[{}] = t /\ removeAll(t, me) = iter[t.nodes[me].subs]
    /\ \A s \in SUBSET t.nodes[me].subs :
          /\ KeepsRow(t, iter[s], me)
          /\ s # {} => iter[s] = remove(iter[s \ {Chosen(s)}], me, Chosen(s))

LEMMA RemoveAllSteps ==
    ASSUME NEW t, TreeInv(t), NEW me \in Objects(t)
    PROVE  IsFiniteSet(t.nodes[me].subs) /\ \E iter : RemovesAll(iter, t, me)
<1>. DEFINE D == Objects(t)
            S == t.nodes[me].subs
            T == {u \in Trees : /\ KeepsRow(t, u, me)
                                /\ \A s \in S : u.nodes[s].parent \in {me, Null}}
            step(s, u) == remove(u, me, s)
            op == [x \in S |-> [u \in T |-> step(x, u)]]
            Body(iter, s) == IF s = {} THEN t ELSE step(Chosen(s), iter[s \ {Chosen(s)}])
            iter == CHOOSE iter : iter = [s \in SUBSET S |-> Body(iter, s)]
<1>1. t \in Trees /\ LinkInv(t) /\ RowsInv(t)
  BY DEF TreeInv
<1>2. /\ \A s \in S : s \in D /\ t.nodes[s].parent = me
      /\ IsFiniteSet(D) /\ dataRoot \in D /\ t.nodes[dataRoot].parent = Null
  BY <1>1 DEF LinkInv
<1>3. Null \notin D
  BY <1>1, TreeTypes
<1>4. S \subseteq D \ {dataRoot, me} /\ IsFiniteSet(S)
  <2>1. me \notin S
    <3>1. t.nodes[me].parent = me => Len(getPath(t, me)) = Len(getPath(t, me)) + 1
      BY <1>1, <1>3, PathProperties
    <3>2. Len(getPath(t, me)) \in Nat
      BY <1>1, PathProperties
    <3>. QED BY <1>2, <3>1, <3>2
  <2>2. S \subseteq D \ {dataRoot, me}
    BY <1>2, <1>3, <2>1
  <2>. QED BY <1>2, <2>2, FS_Subset
<1>5. t \in T
  BY <1>1, <1>2 DEF KeepsRow, Keeps
<1>6. ASSUME NEW x \in S, NEW u \in T PROVE step(x, u) \in T
  <2>. DEFINE v == step(x, u)
  <2>1. /\ TreeInv(u) /\ Keeps(t, u) /\ Objects(u) = D
        /\ getPath(u, me) = getPath(t, me)
        /\ u.nodes[x].parent \in {me, Null}
    BY <1>6 DEF KeepsRow
  <2>2. x \in Objects(u) \ {dataRoot} /\ x # me /\ me \in Objects(u)
    BY <1>4, <2>1
  <2>3. /\ TreeInv(v) /\ Keeps(u, v) /\ Objects(v) = D
        /\ \A n \in D : v.nodes[n].parent = IF n = x THEN Null ELSE u.nodes[n].parent
        /\ \A n \in D : n # x /\ Len(getPath(u, n)) <= Len(getPath(u, x)) =>
              getPath(v, n) = getPath(u, n)
        /\ \A q \in Paths : Len(q) < Len(getPath(u, x)) => v.dom[q] = u.dom[q]
        /\ u.nodes[x].parent = Null =>
              v.dom = u.dom /\ \A n \in D : getPath(v, n) = getPath(u, n)
    BY <2>1, <2>2, RemoveProperties
  <2>. HIDE DEF v
  <2>4. u.nodes[x].parent = me =>
           /\ Len(getPath(u, x)) = Len(getPath(u, me)) + 1
           /\ Len(getPath(u, me)) \in Nat
    <3>1. u \in Trees /\ LinkInv(u)
      BY <2>1 DEF TreeInv
    <3>2. me # Null
      BY <1>3
    <3>. HIDE DEF T
    <3>3. u.nodes[x].parent # Null =>
             Len(getPath(u, x)) = Len(getPath(u, u.nodes[x].parent)) + 1
      BY <2>2, <3>1, PathProperties
    <3>4. Len(getPath(u, me)) \in Nat
      BY <2>2, <3>1, PathProperties
    <3>. QED BY <3>2, <3>3, <3>4
  <2>5. getPath(v, me) = getPath(u, me)
    BY <2>1, <2>2, <2>3, <2>4
  <2>6. \A q \in Paths : Len(q) <= Len(getPath(u, me)) => v.dom[q] = u.dom[q]
    <3>. SUFFICES ASSUME NEW q \in Paths, Len(q) <= Len(getPath(u, me))
                  PROVE  v.dom[q] = u.dom[q]
      OBVIOUS
    <3>1. Len(q) \in Nat
      BY PathsTypes
    <3>2. CASE u.nodes[x].parent = Null
      BY <2>3, <3>2
    <3>3. CASE u.nodes[x].parent = me
      <4>1. Len(q) < Len(getPath(u, x))
        BY <2>4, <3>1, <3>3
      <4>. QED BY <2>3, <4>1
    <3>. QED BY <2>1, <3>2, <3>3
  <2>7. Keeps(t, v)
    BY <2>1, <2>3, KeepsIsTransitive
  <2>8. KeepsRow(t, v, me)
    BY <1>6, <2>1, <2>3, <2>5, <2>6, <2>7 DEF KeepsRow
  <2>9. \A s \in S : v.nodes[s].parent \in {me, Null}
    BY <1>4, <1>6, <2>3
  <2>10. v \in Trees
    BY <2>3 DEF TreeInv
  <2>11. v \in T
    BY <2>8, <2>9, <2>10
  <2>. QED BY <2>11 DEF v
<1>. HIDE DEF T, step
<1>7. op \in [S -> [T -> T]] /\ \A x \in S, u \in T : op[x][u] = step(x, u)
  BY <1>6
<1>. HIDE DEF op
<1>8. iter = [s \in SUBSET S |-> Body(iter, s)]
  <2>1. PICK f : IsFold(f, S, T, t, op)
    <3>1. IsFiniteSet(S) /\ t \in T /\ op \in [S -> [T -> T]]
      BY <1>4, <1>5, <1>7
    <3>. HIDE DEF S
    <3>. QED BY <3>1, FoldExists
  <2>2. /\ f \in [SUBSET S -> T]
        /\ \A s \in SUBSET S :
              f[s] = IF s = {} THEN t ELSE op[Chosen(s)][f[s \ {Chosen(s)}]]
    BY <2>1 DEF IsFold
  <2>3. \A s \in SUBSET S : f[s] = Body(f, s)
    <3>. SUFFICES ASSUME NEW s \in SUBSET S, s # {} PROVE f[s] = Body(f, s)
      BY <2>2
    <3>1. Chosen(s) \in S /\ s \ {Chosen(s)} \in SUBSET S
      BY DEF Chosen
    <3>2. f[s \ {Chosen(s)}] \in T
      BY <2>2, <3>1
    <3>3. f[s] = op[Chosen(s)][f[s \ {Chosen(s)}]]
      BY <2>2
    <3>. HIDE DEF S
    <3>. QED BY <1>7, <3>1, <3>2, <3>3
  <2>4. f = [s \in SUBSET S |-> Body(f, s)]
    BY <2>2, <2>3
  <2>. HIDE DEF S, Body
  <2>. QED BY <2>4
<1>. HIDE DEF iter
<1>9. iter[{}] = t /\ \A s \in SUBSET S : s # {} => iter[s] = step(Chosen(s), iter[s \ {Chosen(s)}])
  BY <1>8
<1>10. \A s \in SUBSET S : s # {} /\ iter[s \ {Chosen(s)}] \in T => iter[s] \in T
  <2>. SUFFICES ASSUME NEW s \in SUBSET S, s # {}, iter[s \ {Chosen(s)}] \in T
                PROVE  iter[s] \in T
    OBVIOUS
  <2>1. Chosen(s) \in S
    BY DEF Chosen
  <2>. HIDE DEF S
  <2>. QED BY <1>6, <1>9, <2>1
<1>11. ASSUME NEW s \in SUBSET S PROVE iter[s] \in T
  <2>1. IsFiniteSet(s)
    BY <1>4, FS_Subset
  <2>. HIDE DEF S
  <2>2. \A x \in SUBSET s : x # {} /\ iter[x \ {Chosen(x)}] \in T => iter[x] \in T
    BY <1>10
  <2>. QED BY <1>5, <1>9, <2>1, <2>2, FoldStays
<1>12. removeAll(t, me) = iter[S]
  BY Zenon DEF removeAll, FoldSet, MapThenFoldSet, iter, step, Chosen
<1>13. \A s \in SUBSET S : KeepsRow(t, iter[s], me)
  BY <1>11 DEF T
<1>14. \A s \in SUBSET S : s # {} => iter[s] = remove(iter[s \ {Chosen(s)}], me, Chosen(s))
  BY <1>9 DEF step
<1>. HIDE DEF S
<1>15. RemovesAll(iter, t, me)
  BY <1>9, <1>12, <1>13, <1>14 DEF RemovesAll, S
<1>16. IsFiniteSet(t.nodes[me].subs)
  BY <1>4 DEF S
<1>. QED BY <1>15, <1>16

LEMMA RemoveAllProperties ==
    ASSUME NEW t, TreeInv(t), NEW me \in Objects(t)
    PROVE  KeepsRow(t, removeAll(t, me), me)
<1>1. PICK iter : RemovesAll(iter, t, me)
  BY RemoveAllSteps
<1>. QED BY <1>1 DEF RemovesAll

LEMMA KeepsRowIsTransitive ==
    ASSUME NEW t, NEW u, NEW v, NEW me, KeepsRow(t, u, me), KeepsRow(u, v, me)
    PROVE  KeepsRow(t, v, me)
<1>1. Keeps(t, v)
  BY KeepsIsTransitive DEF KeepsRow
<1>. QED BY <1>1 DEF KeepsRow

LEMMA ShapeKeepsRow ==
    ASSUME NEW t, NEW u, NEW me \in Objects(t), TreeInv(t), SameShape(t, u)
    PROVE  KeepsRow(t, u, me)
<1>1. TreeInv(u) /\ Keeps(t, u) /\ getPath(u, me) = getPath(t, me) /\ Objects(u) = Objects(t)
  BY ShapeIsKept DEF SameShape
<1>2. ASSUME NEW q \in Paths
      PROVE  /\ u.dom[q] = <<>> <=> t.dom[q] = <<>>
             /\ t.dom[q] # <<>> => u.dom[q][1].node = t.dom[q][1].node
  <2>1. u.dom[q] = <<>> <=> t.dom[q] = <<>>
    BY ShapeIsKept
  <2>2. ASSUME t.dom[q] # <<>> PROVE u.dom[q][1].node = t.dom[q][1].node
    <3>1. t \in Trees
      BY DEF TreeInv
    <3>2. 1 \in 1 .. Len(t.dom[q])
      BY <2>2, <3>1, RowListTypes
    <3>. QED BY <3>2 DEF SameShape
  <2>. QED BY <2>1, <2>2
<1>. QED BY <1>1, <1>2 DEF KeepsRow

LEMMA CollapseProperties ==
    ASSUME NEW t, TreeInv(t), NEW me \in Objects(t)
    PROVE  KeepsRow(t, collapse(t, me), me)
<1>. DEFINE u == removeAll(t, me)
            p == getPath(t, me)
            v == SetText(u, p, "+")
<1>1. KeepsRow(t, u, me)
  BY RemoveAllProperties
<1>. HIDE DEF u
<1>2. TreeInv(u) /\ me \in Objects(u) /\ u \in Trees
  BY <1>1 DEF KeepsRow, TreeInv
<1>3. SameShape(u, v)
  <2>. HIDE DEF p
  <2>1. "+" \in Texts
    BY DEF Texts
  <2>. QED BY <1>2, <2>1, TextShape
<1>. HIDE DEF v
<1>4. KeepsRow(t, v, me)
  BY <1>1, <1>2, <1>3, ShapeKeepsRow, KeepsRowIsTransitive
<1>. QED BY <1>4 DEF collapse, u, v

LEMMA OpenedProperties ==
    ASSUME NEW t, TreeInv(t), NEW me \in Objects(t)
    PROVE  KeepsRow(t, Opened(t, me), me)
<1>1. t \in Trees
  BY DEF TreeInv
<1>. DEFINE p == getPath(t, me)
<1>2. SameShape(t, Opened(t, me))
  <2>1. Opened(t, me) = SetText(t, p, "-")
    BY DEF Opened
  <2>2. "-" \in Texts
    BY DEF Texts
  <2>. HIDE DEF p
  <2>. QED BY <1>1, <2>1, <2>2, TextShape
<1>. QED BY <1>2, ShapeKeepsRow

\* refresh() is collapse() and expand(): the tree, and one request for the list.
LEMMA RefreshProperties ==
    ASSUME NEW t, TreeInv(t), NEW me \in Objects(t)
    PROVE  LET r == refresh(t, me) IN
           /\ KeepsRow(t, r.tree, me)
           /\ \E url : r.requests = SetToBag({Ask("list", url, me)})
<1>. DEFINE u == collapse(t, me)
            v == Opened(u, me)
<1>1. KeepsRow(t, u, me)
  BY CollapseProperties
<1>. HIDE DEF u
<1>2. TreeInv(u) /\ me \in Objects(u)
  BY <1>1 DEF KeepsRow
<1>3. KeepsRow(u, v, me)
  BY <1>2, OpenedProperties
<1>. HIDE DEF v
<1>4. KeepsRow(t, v, me)
  BY <1>1, <1>3, KeepsRowIsTransitive
<1>5. refresh(t, me).tree = v
  BY DEF refresh, expand, u, v
<1>6. refresh(t, me).requests = SetToBag({Ask("list", getPath(u, me), me)})
  BY DEF refresh, expand, u, List
<1>. QED BY <1>4, <1>5, <1>6
-------------------------------------------------------------------------------
(* Adding an object.                                                       *)

LEMMA FreshIsNew ==
    ASSUME NEW t \in Trees, IsFiniteSet(Objects(t))
    PROVE  Fresh(t) \in Nat \ {Null} /\ Fresh(t) \notin Objects(t)
<1>. DEFINE D == Objects(t)
            I == 1 .. Cardinality(D) + 1
<1>1. Cardinality(D) \in Nat
  BY FS_CardinalityType
<1>2. \E n \in I : n \notin D
  <2>. SUFFICES ASSUME I \subseteq D PROVE FALSE
    OBVIOUS
  <2>1. Cardinality(I) = Cardinality(D) + 1
    BY <1>1, FS_Interval
  <2>2. Cardinality(I) <= Cardinality(D)
    <3>. HIDE DEF I, D
    <3>. QED BY FS_Subset DEF D
  <2>. QED BY <1>1, <2>1, <2>2
<1>3. Fresh(t) = CHOOSE n \in I : n \notin D
  BY DEF Fresh, Objects
<1>. HIDE DEF D, I
<1>4. Fresh(t) \in I /\ Fresh(t) \notin D
  BY <1>2, <1>3
<1>. QED BY <1>1, <1>4 DEF I, D, Null

\* The rows after add(): one more, and the first one bound to the new object.
Bound(d, sub, info) ==
    LET rows == Append(d, NewRow(info))
    IN  [rows EXCEPT ![1].node = sub, ![1].handlers = @ + 1]

LEMMA BoundRows ==
    ASSUME NEW d \in Seq(Rows), NEW sub \in Nat, NEW info \in Texts
    PROVE  LET e == Bound(d, sub, info)
           IN  /\ e \in Seq(Rows) /\ Len(e) = Len(d) + 1
               /\ e[1].node = sub
               /\ \A i \in 2 .. Len(d) : e[i] = d[i]
               /\ Len(d) # 0 => e[Len(d) + 1] = NewRow(info)
<1>. DEFINE row  == NewRow(info)
            rows == Append(d, row)
            one  == [rows[1] EXCEPT !.node = sub, !.handlers = @ + 1]
            e    == Bound(d, sub, info)
<1>1. row \in Rows
  BY DEF NewRow, Rows, Texts, Null
<1>. HIDE DEF row
<1>2. /\ rows \in Seq(Rows) /\ Len(d) \in Nat /\ Len(rows) = Len(d) + 1
      /\ rows[Len(d) + 1] = row /\ \A i \in 1 .. Len(d) : rows[i] = d[i]
  BY <1>1, AppendedName
<1>. HIDE DEF rows
<1>3. rows[1] \in Rows /\ rows = [i \in 1 .. Len(d) + 1 |-> rows[i]]
  BY <1>2
<1>4. one \in Rows /\ one.node = sub
  <2>. DEFINE r == rows[1]
  <2>1. r \in Rows
    BY <1>3
  <2>. HIDE DEF r
  <2>2. r.handlers + 1 \in Nat
    BY <2>1 DEF Rows
  <2>3. one = [r EXCEPT !.node = sub, !.handlers = r.handlers + 1]
    BY DEF r
  <2>. HIDE DEF one
  <2>. QED BY <2>1, <2>2, <2>3 DEF Rows
<1>5. e = [rows EXCEPT ![1] = one]
  <2>1. DOMAIN rows = 1 .. Len(d) + 1 /\ 1 \in DOMAIN rows
    BY <1>2
  <2>2. e = [rows EXCEPT ![1].node = sub, ![1].handlers = @ + 1]
    BY DEF Bound, rows, row
  <2>. QED BY <2>1, <2>2
<1>. HIDE DEF one, e
<1>6. /\ e \in Seq(Rows) /\ Len(e) = Len(d) + 1 /\ e[1] = one
      /\ \A i \in 2 .. Len(d) + 1 : e[i] = rows[i]
  BY <1>2, <1>4, <1>5
<1>7. \A i \in 2 .. Len(d) : e[i] = d[i]
  BY <1>2, <1>6
<1>8. Len(d) # 0 => e[Len(d) + 1] = row
  BY <1>2, <1>6
<1>. QED BY <1>4, <1>6, <1>7, <1>8 DEF e, rows, row

\* The tree after add(): an object and a row more.
Added(t, u, me, name, info) ==
    LET sub == Fresh(t)
        c   == Append(getPath(t, me), name)
    IN  /\ TreeInv(u) /\ Objects(u) = Objects(t) \cup {sub}
        /\ sub \in Nat \ {Null} /\ sub \notin Objects(t)
        /\ getPath(u, sub) = c /\ \A n \in Objects(t) : getPath(u, n) = getPath(t, n)
        /\ u.nodes[sub].name = name /\ u.nodes[sub].info = info /\ u.nodes[sub].subs = {}
        /\ \A n \in Objects(t) :
              /\ u.nodes[n].name = t.nodes[n].name /\ u.nodes[n].info = t.nodes[n].info
              /\ u.nodes[n].subs = IF n = me
                                   THEN {s \in t.nodes[n].subs : t.nodes[s].name # name} \cup {sub}
                                   ELSE t.nodes[n].subs
        /\ \A q \in Paths :
              u.dom[q] = IF ~(c \notin Paths \/ ~IsShown(t, Parent(c))) /\ q = c
                         THEN Bound(t.dom[q], sub, info) ELSE t.dom[q]

LEMMA AddIsExact ==
    ASSUME NEW t, TreeInv(t), NEW me \in Objects(t), NEW name \in Names \ {"bws"},
           NEW data, data.info \in Texts, data.writable \in Texts
    PROVE  Added(t, add(t, me, name, data), me, name, data.info)
<1>. DEFINE D     == Objects(t)
            sub   == Fresh(t)
            path  == Append(getPath(t, me), name)
            new   == NewNode(name, me, data.info, data.writable)
            nodes == With(sub, new, [t.nodes EXCEPT ![me].subs =
                                       {s \in @ : t.nodes[s].name # name} \cup {sub}])
            d     == t.dom[path]
            rows  == Append(d, NewRow(data.info))
            e     == [rows EXCEPT ![1].node = sub, ![1].handlers = @ + 1]
            hides == path \notin Paths \/ ~IsShown(t, Parent(path))
            dom   == IF hides THEN t.dom ELSE [t.dom EXCEPT ![path] = e]
            u     == add(t, me, name, data)
<1>1. /\ t \in Trees /\ LinkInv(t) /\ RowsInv(t) /\ t.nodes \in [D -> Nodes]
      /\ D \in SUBSET (Nat \ {Null}) /\ t.dom \in [Paths -> Seq(Rows)]
      /\ IsFiniteSet(D)
  BY TreeTypes DEF TreeInv, LinkInv
<1>2. sub \in Nat \ {Null} /\ sub \notin D
  BY <1>1, FreshIsNew
<1>3. u = [nodes |-> nodes, dom |-> dom]
  BY DEF add
<1>. HIDE DEF u, sub
<1>4. \A n \in D : /\ t.nodes[n].parent \in D \cup {Null}
                   /\ \A s \in t.nodes[n].subs : s \in D /\ t.nodes[s].parent = n
                   /\ \A s, v \in t.nodes[n].subs : t.nodes[s].name = t.nodes[v].name => s = v
                   /\ t.nodes[n].name = "bws" <=> n = dataRoot
  BY <1>1 DEF LinkInv
<1>5. new \in Nodes /\ new.name = name /\ new.parent = me /\ new.subs = {}
      /\ new.info = data.info
  BY <1>1 DEF NewNode, Nodes
<1>. HIDE DEF new
<1>6. /\ DOMAIN nodes = D \cup {sub} /\ nodes[sub] = new
      /\ \A n \in D : /\ nodes[n] \in Nodes
                      /\ nodes[n].name = t.nodes[n].name
                      /\ nodes[n].info = t.nodes[n].info
                      /\ nodes[n].parent = t.nodes[n].parent
                      /\ nodes[n].subs = IF n = me
                                         THEN {s \in t.nodes[n].subs : t.nodes[s].name # name} \cup {sub}
                                         ELSE t.nodes[n].subs
  <2>. DEFINE kept == {s \in t.nodes[me].subs : t.nodes[s].name # name} \cup {sub}
              old  == [t.nodes EXCEPT ![me].subs = kept]
  <2>1. kept \in SUBSET Nat
    BY <1>1, <1>2, <1>4
  <2>. HIDE DEF kept
  <2>2. \A n \in D : t.nodes[n] \in Nodes
    BY <1>1
  <2>3. /\ old \in [D -> Nodes]
        /\ \A n \in D : /\ old[n].name = t.nodes[n].name
                        /\ old[n].info = t.nodes[n].info
                        /\ old[n].parent = t.nodes[n].parent
                        /\ old[n].subs = IF n = me THEN kept ELSE t.nodes[n].subs
    BY <1>1, <2>1, <2>2 DEF Nodes
  <2>4. nodes = With(sub, new, old)
    BY DEF kept
  <2>. HIDE DEF old, nodes
  <2>5. DOMAIN nodes = D \cup {sub} /\ nodes[sub] = new /\ \A n \in D : nodes[n] = old[n]
    BY <1>2, <2>3, <2>4 DEF With
  <2>. QED BY <2>3, <2>5 DEF kept
<1>7. nodes \in [D \cup {sub} -> Nodes]
  <2>1. nodes = [n \in D \cup {sub} |-> nodes[n]]
    BY <1>6 DEF With
  <2>. HIDE DEF nodes
  <2>. QED BY <1>5, <1>6, <2>1
<1>. HIDE DEF nodes
<1>8. getPath(t, me) \in Seq(Names) /\ path \in Seq(Names)
  <2>1. getPath(t, me) \in Seq(Names)
    BY <1>1, PathProperties
  <2>. QED BY <2>1, AppendedName
<1>. HIDE DEF path
<1>9. path \in Paths =>
        /\ d \in Seq(Rows) /\ e \in Seq(Rows) /\ Len(d) \in Nat /\ Len(e) = Len(d) + 1
        /\ e[1].node = sub
        /\ \A i \in 2 .. Len(d) : e[i] = d[i]
        /\ Len(d) # 0 => e[Len(d) + 1] = NewRow(data.info)
  <2>. SUFFICES ASSUME path \in Paths
                PROVE  /\ d \in Seq(Rows) /\ e \in Seq(Rows) /\ Len(d) \in Nat
                       /\ Len(e) = Len(d) + 1
                       /\ e[1].node = sub
                       /\ \A i \in 2 .. Len(d) : e[i] = d[i]
                       /\ Len(d) # 0 => e[Len(d) + 1] = NewRow(data.info)
    OBVIOUS
  <2>. DEFINE info == data.info
  <2>1. d \in Seq(Rows) /\ sub \in Nat /\ info \in Texts
    BY <1>1, <1>2
  <2>2. e = Bound(d, sub, info)
    BY DEF Bound
  <2>. HIDE DEF d, e, info
  <2>3. Len(d) \in Nat
    BY <2>1
  <2>4. LET b == Bound(d, sub, info)
        IN  /\ b \in Seq(Rows) /\ Len(b) = Len(d) + 1
            /\ b[1].node = sub
            /\ \A i \in 2 .. Len(d) : b[i] = d[i]
            /\ Len(d) # 0 => b[Len(d) + 1] = NewRow(info)
    BY <2>1, BoundRows
  <2>. QED BY <2>1, <2>2, <2>3, <2>4 DEF info
<1>. HIDE DEF d, e
<1>10. dom \in [Paths -> Seq(Rows)]
  BY <1>1, <1>9
<1>11. \A p \in Paths : dom[p] = IF ~hides /\ p = path THEN e ELSE t.dom[p]
  BY <1>1
<1>. HIDE DEF dom
<1>12. u \in Trees /\ u.nodes = nodes /\ u.dom = dom /\ Objects(u) = D \cup {sub}
  <2>1. D \cup {sub} \in SUBSET (Nat \ {Null})
    BY <1>1, <1>2
  <2>2. u \in Trees
    BY <1>3, <1>7, <1>10, <2>1, MakeTree
  <2>3. u.nodes = nodes /\ u.dom = dom
    BY <1>3
  <2>. QED BY <1>6, <2>2, <2>3 DEF Objects
<1>13. ASSUME NEW n \in D \cup {sub}
       PROVE  /\ u.nodes[n].parent \in (D \cup {sub}) \cup {Null}
              /\ \A s \in u.nodes[n].subs : s \in D \cup {sub} /\ u.nodes[s].parent = n
              /\ \A s, v \in u.nodes[n].subs : u.nodes[s].name = u.nodes[v].name => s = v
              /\ u.nodes[n].name = "bws" <=> n = dataRoot
  <2>1. CASE n = sub
    <3>1. u.nodes[n].parent = me /\ u.nodes[n].subs = {} /\ u.nodes[n].name = name
      BY <1>5, <1>6, <1>12, <2>1
    <3>2. dataRoot \in D
      BY <1>1 DEF LinkInv
    <3>. QED BY <1>2, <2>1, <3>1, <3>2
  <2>2. CASE n \in D \ {me}
    <3>1. /\ u.nodes[n].parent = t.nodes[n].parent /\ u.nodes[n].subs = t.nodes[n].subs
          /\ u.nodes[n].name = t.nodes[n].name
      BY <1>6, <1>12, <2>2
    <3>2. \A s \in u.nodes[n].subs : /\ s \in D /\ u.nodes[s].parent = n
                                     /\ u.nodes[s].name = t.nodes[s].name
      BY <1>4, <1>6, <1>12, <2>2, <3>1
    <3>. QED BY <1>4, <2>2, <3>1, <3>2
  <2>3. CASE n = me
    <3>1. /\ u.nodes[n].parent = t.nodes[n].parent /\ u.nodes[n].name = t.nodes[n].name
          /\ u.nodes[n].subs = {s \in t.nodes[n].subs : t.nodes[s].name # name} \cup {sub}
      BY <1>6, <1>12, <2>3
    <3>2. u.nodes[sub].parent = me /\ u.nodes[sub].name = name
      BY <1>5, <1>6, <1>12
    <3>3. \A s \in t.nodes[n].subs : /\ s \in D /\ u.nodes[s].parent = n
                                     /\ u.nodes[s].name = t.nodes[s].name
      BY <1>4, <1>6, <1>12, <2>3
    <3>4. \A s \in u.nodes[n].subs : s \in D \cup {sub} /\ u.nodes[s].parent = n
      BY <2>3, <3>1, <3>2, <3>3
    <3>5. \A s, v \in u.nodes[n].subs : u.nodes[s].name = u.nodes[v].name => s = v
      BY <1>4, <2>3, <3>1, <3>2, <3>3
    <3>. QED BY <1>4, <2>3, <3>1, <3>4, <3>5
  <2>. QED BY <2>1, <2>2, <2>3
<1>. DEFINE f == [n \in D |-> getPath(t, n)]
            g == [n \in D \cup {sub} |-> IF n = sub THEN path ELSE f[n]]
<1>14. IsRoute(t, f)
  BY <1>1, PathProperties
<1>15. IsRoute(u, g)
  <2>1. \A n \in D : f[n] \in Seq(Names)
    BY <1>14 DEF IsRoute
  <2>2. g \in [D \cup {sub} -> Seq(Names)]
    BY <1>8, <2>1
  <2>3. ASSUME NEW n \in D \cup {sub}
        PROVE  g[n] = IF u.nodes[n].parent = Null THEN <<u.nodes[n].name>>
                      ELSE Append(g[u.nodes[n].parent], u.nodes[n].name)
    <3>1. CASE n = sub
      <4>1. u.nodes[n].parent = me /\ u.nodes[n].name = name /\ me # Null
        BY <1>1, <1>5, <1>6, <1>12, <3>1
      <4>2. g[n] = path /\ g[me] = getPath(t, me)
        BY <1>2, <3>1
      <4>. HIDE DEF g
      <4>. QED BY <4>1, <4>2 DEF path
    <3>2. CASE n \in D
      <4>1. /\ u.nodes[n].parent = t.nodes[n].parent /\ u.nodes[n].name = t.nodes[n].name
            /\ t.nodes[n].parent \in D \cup {Null}
        BY <1>4, <1>6, <1>12, <3>2
      <4>2. g[n] = f[n] /\ \A m \in D : g[m] = f[m]
        BY <1>2, <3>2
      <4>3. f[n] = IF t.nodes[n].parent = Null THEN <<t.nodes[n].name>>
                   ELSE Append(f[t.nodes[n].parent], t.nodes[n].name)
        BY <1>14, <3>2 DEF IsRoute
      <4>. HIDE DEF g, f
      <4>. QED BY <4>1, <4>2, <4>3
    <3>. QED BY <3>1, <3>2
  <2>. HIDE DEF g
  <2>. QED BY <1>12, <2>2, <2>3 DEF IsRoute
<1>16. getPath(u, sub) = path /\ \A n \in D : getPath(u, n) = getPath(t, n)
  <2>1. \A n \in Objects(u) : u.nodes[n].parent \in Objects(u) \cup {Null}
    BY <1>12, <1>13
  <2>2. \A n \in Objects(u) : getPath(u, n) = g[n]
    <3>. HIDE DEF g
    <3>. QED BY <1>12, <1>15, <2>1, RouteIsPath
  <2>. QED BY <1>2, <1>12, <2>2
<1>. HIDE DEF f, g
<1>17. LinkInv(u)
  <2>1. IsFiniteSet(D \cup {sub})
    BY <1>1, FS_AddElement
  <2>2. dataRoot \in D \cup {sub} /\ u.nodes[dataRoot].parent = Null
    <3>1. dataRoot \in D /\ t.nodes[dataRoot].parent = Null
      BY <1>1 DEF LinkInv
    <3>. QED BY <1>6, <1>12, <3>1
  <2>3. \E h : IsRoute(u, h)
    BY <1>15
  <2>. QED BY <1>12, <1>13, <2>1, <2>2, <2>3 DEF LinkInv
<1>18. ASSUME NEW p \in Paths, dom[p] # <<>> PROVE Len(p) > 1 => dom[Parent(p)] # <<>>
  <2>. SUFFICES ASSUME Len(p) > 1 PROVE dom[Parent(p)] # <<>>
    OBVIOUS
  <2>1. Parent(p) \in Paths
    BY PathsTypes
  <2>2. \A q \in Paths : t.dom[q] # <<>> => dom[q] # <<>>
    <3>. SUFFICES ASSUME NEW q \in Paths, t.dom[q] # <<>>, ~hides, q = path PROVE e # <<>>
      BY <1>11
    <3>1. Len(e) # 0
      BY <1>9
    <3>. QED BY <3>1
  <2>3. t.dom[Parent(p)] # <<>>
    <3>1. CASE ~hides /\ p = path
      BY <3>1 DEF IsShown
    <3>2. CASE ~(~hides /\ p = path)
      <4>1. t.dom[p] # <<>>
        BY <1>11, <1>18, <3>2
      <4>. QED BY <1>1, <4>1 DEF RowsInv
    <3>. QED BY <3>1, <3>2
  <2>. QED BY <2>1, <2>2, <2>3
<1>19. ASSUME NEW p \in Paths, NEW i \in 1 .. Len(dom[p])
       PROVE  /\ dom[p][i].node # Null => /\ i = 1 /\ dom[p][i].node \in D \cup {sub}
                                          /\ getPath(u, dom[p][i].node) = p
              /\ dom[p][i].handlers > 0 => dom[p][i].node # Null
  <2>1. \A j \in 1 .. Len(t.dom[p]) :
           /\ t.dom[p][j].node # Null => /\ j = 1 /\ t.dom[p][j].node \in D
                                         /\ getPath(t, t.dom[p][j].node) = p
           /\ t.dom[p][j].handlers > 0 => t.dom[p][j].node # Null
    BY <1>1 DEF RowsInv
  <2>2. CASE ~(~hides /\ p = path)
    <3>1. dom[p] = t.dom[p]
      BY <1>11, <2>2
    <3>. QED BY <1>16, <2>1, <3>1
  <2>3. CASE ~hides /\ p = path
    <3>1. dom[p] = e /\ t.dom[p] = d /\ i \in 1 .. Len(d) + 1 /\ Len(d) \in Nat
      BY <1>9, <1>11, <2>3 DEF d
    <3>2. CASE i = 1
      <4>1. dom[p][i].node = sub
        BY <1>9, <2>3, <3>1, <3>2
      <4>. QED BY <1>2, <1>16, <2>3, <3>2, <4>1
    <3>3. CASE i \in 2 .. Len(d)
      <4>1. dom[p][i] = t.dom[p][i] /\ i \in 1 .. Len(t.dom[p])
        BY <1>9, <2>3, <3>1, <3>3
      <4>. QED BY <1>16, <2>1, <4>1
    <3>4. CASE i = Len(d) + 1 /\ i # 1
      <4>1. dom[p][i] = NewRow(data.info)
        BY <1>9, <2>3, <3>1, <3>4
      <4>. QED BY <4>1 DEF NewRow
    <3>. QED BY <3>1, <3>2, <3>3, <3>4
  <2>. QED BY <2>2, <2>3
<1>20. RowsInv(u)
  BY <1>12, <1>18, <1>19 DEF RowsInv
<1>21. /\ u.nodes[sub].name = name /\ u.nodes[sub].info = data.info /\ u.nodes[sub].subs = {}
       /\ \A n \in D : u.nodes[n].name = t.nodes[n].name /\ u.nodes[n].info = t.nodes[n].info
  BY <1>5, <1>6, <1>12
<1>22. \A n \in D : u.nodes[n].subs = IF n = me
                                       THEN {s \in t.nodes[n].subs : t.nodes[s].name # name} \cup {sub}
                                       ELSE t.nodes[n].subs
  BY <1>6, <1>12
<1>23. \A q \in Paths : u.dom[q] = IF ~hides /\ q = path THEN Bound(t.dom[q], sub, data.info)
                                   ELSE t.dom[q]
  <2>1. e = Bound(d, sub, data.info)
    BY DEF e, Bound
  <2>. QED BY <1>11, <1>12, <2>1 DEF d
<1>24. TreeInv(u)
  BY <1>12, <1>17, <1>20 DEF TreeInv
<1>. QED BY <1>2, <1>12, <1>16, <1>21, <1>22, <1>23, <1>24 DEF Added, u, sub, path

LEMMA AddProperties ==
    ASSUME NEW t, TreeInv(t), NEW me \in Objects(t), NEW name \in Names \ {"bws"},
           NEW data, data.info \in Texts, data.writable \in Texts
    PROVE  LET u   == add(t, me, name, data)
               sub == Fresh(t)
           IN  /\ TreeInv(u) /\ Keeps(t, u) /\ Objects(u) = Objects(t) \cup {sub}
               /\ sub \in u.nodes[me].subs /\ u.nodes[sub].name = name
<1>1. Added(t, add(t, me, name, data), me, name, data.info)
  BY AddIsExact
<1>2. me \in Objects(t)
  OBVIOUS
<1>. QED BY <1>1, <1>2 DEF Added, Keeps
-------------------------------------------------------------------------------
(* The objects that are left when nothing refers to the others.            *)

Near(t, S) ==
    (S \cup {t.nodes[n].parent : n \in S} \cup UNION {t.nodes[n].subs : n \in S}) \ {Null}

\* After as many steps as there are objects nothing new is reached.
LEMMA ReachableProperties ==
    ASSUME NEW t \in Trees, LinkInv(t), NEW H \in SUBSET Objects(t), dataRoot \in H
    PROVE  LET R == Reachable(t, H) IN
           /\ H \subseteq R /\ R \subseteq Objects(t)
           /\ \A n \in R : t.nodes[n].parent \in R \cup {Null} /\ t.nodes[n].subs \subseteq R
<1>. DEFINE D == Objects(t)
            h == Cardinality(D)
            Steps(f) == [i \in 0 .. h |-> IF i = 0 THEN H ELSE Near(t, f[i - 1])]
            reach == CHOOSE f : f = Steps(f)
            op == [S \in SUBSET D |-> Near(t, S)]
<1>1. /\ IsFiniteSet(D) /\ D \in SUBSET (Nat \ {Null})
      /\ \A n \in D : t.nodes[n].parent \in D \cup {Null} /\ t.nodes[n].subs \subseteq D
  BY TreeTypes DEF LinkInv
<1>2. \A S \in SUBSET D : S \subseteq Near(t, S) /\ Near(t, S) \subseteq D
  BY <1>1 DEF Near
<1>3. h \in Nat
  BY <1>1, FS_CardinalityType
<1>4. Reachable(t, H) = reach[h]
  BY Zenon DEF Reachable, Near, Objects
<1>. HIDE DEF D, h
<1>5. op \in [SUBSET D -> SUBSET D]
  BY <1>2
<1>6. \E f : f = Steps(f)
  <2>. DEFINE T == SUBSET D
  <2>1. H \in T /\ op \in [T -> T]
    BY <1>5 DEF D
  <2>. HIDE DEF op, T
  <2>2. PICK f : IsIteration(f, h, T, H, op)
    BY <1>3, <2>1, IterationExists
  <2>3. \A i \in 0 .. h : i # 0 => op[f[i - 1]] = Near(t, f[i - 1])
    <3>. SUFFICES ASSUME NEW i \in 0 .. h, i # 0 PROVE op[f[i - 1]] = Near(t, f[i - 1])
      OBVIOUS
    <3>1. i - 1 \in 0 .. h
      BY <1>3
    <3>. QED BY <2>2, <3>1 DEF op, T, IsIteration
  <2>4. \A i \in 0 .. h : f[i] = IF i = 0 THEN H ELSE op[f[i - 1]]
    BY <2>2 DEF IsIteration
  <2>5. f = [i \in 0 .. h |-> f[i]]
    BY <2>2 DEF IsIteration
  <2>. QED BY <2>3, <2>4, <2>5
<1>7. reach = Steps(reach)
  BY <1>6
<1>. HIDE DEF reach
<1>8. reach[0] = H /\ \A i \in 1 .. h : reach[i] = Near(t, reach[i - 1])
  <2>1. \A i \in 0 .. h : reach[i] = IF i = 0 THEN H ELSE Near(t, reach[i - 1])
    BY <1>7
  <2>. QED BY <1>3, <2>1
<1>. DEFINE G == {n \in Nat : n <= h =>
                    /\ H \subseteq reach[n] /\ reach[n] \subseteq D
                    /\ Near(t, reach[n]) = reach[n] \/ Cardinality(reach[n]) >= n + 1}
<1>9. 0 \in G
  <2>1. IsFiniteSet(H)
    BY <1>1, FS_Subset DEF D
  <2>2. Cardinality(H) \in Nat /\ Cardinality(H) # 0
    BY <2>1, FS_CardinalityType, FS_EmptySet
  <2>. QED BY <1>8, <2>2 DEF D
<1>10. ASSUME NEW n \in G PROVE n + 1 \in G
  <2>. SUFFICES ASSUME n + 1 <= h
                PROVE  /\ H \subseteq reach[n + 1] /\ reach[n + 1] \subseteq D
                       /\ \/ Near(t, reach[n + 1]) = reach[n + 1]
                          \/ Cardinality(reach[n + 1]) >= n + 1 + 1
    OBVIOUS
  <2>. DEFINE S == reach[n]
              U == reach[n + 1]
  <2>1. /\ n \in Nat /\ H \subseteq S /\ S \subseteq D
        /\ Near(t, S) = S \/ Cardinality(S) >= n + 1
    BY <1>3
  <2>2. U = Near(t, S)
    <3>1. n + 1 \in 1 .. h /\ (n + 1) - 1 = n
      BY <1>3, <2>1
    <3>. QED BY <1>8, <3>1
  <2>. HIDE DEF S, U
  <2>3. S \subseteq U /\ U \subseteq D
    BY <1>2, <2>1, <2>2
  <2>4. Near(t, U) = U \/ Cardinality(U) >= n + 1 + 1
    <3>. SUFFICES ASSUME Near(t, U) # U PROVE Cardinality(U) >= n + 1 + 1
      OBVIOUS
    <3>1. U # S /\ Cardinality(S) >= n + 1
      BY <2>1, <2>2
    <3>2. IsFiniteSet(U)
      BY <1>1, <2>3, FS_Subset
    <3>3. IsFiniteSet(S) /\ Cardinality(S) <= Cardinality(U) /\ Cardinality(S) # Cardinality(U)
      BY <2>3, <3>1, <3>2, FS_Subset
    <3>4. Cardinality(S) \in Nat /\ Cardinality(U) \in Nat
      BY <3>2, <3>3, FS_CardinalityType
    <3>. QED BY <2>1, <3>1, <3>3, <3>4
  <2>. QED BY <2>1, <2>3, <2>4 DEF U
<1>11. G = Nat
  <2>. HIDE DEF G
  <2>1. G \in SUBSET Nat
    BY DEF G
  <2>. QED BY <1>9, <1>10, <2>1, SetInduction
<1>. DEFINE R == reach[h]
<1>12. /\ H \subseteq R /\ R \subseteq D
       /\ Near(t, R) = R \/ Cardinality(R) >= h + 1
  BY <1>3, <1>11
<1>. HIDE DEF R, G
<1>13. Cardinality(R) <= h /\ Cardinality(R) \in Nat
  BY <1>1, <1>12, FS_Subset, FS_CardinalityType DEF h
<1>14. Near(t, R) = R
  BY <1>3, <1>12, <1>13
<1>15. \A n \in R : t.nodes[n].parent \in R \cup {Null} /\ t.nodes[n].subs \subseteq R
  <2>. SUFFICES ASSUME NEW n \in R
                PROVE  t.nodes[n].parent \in R \cup {Null} /\ t.nodes[n].subs \subseteq R
    OBVIOUS
  <2>1. t.nodes[n].parent \in Near(t, R) \cup {Null}
    BY DEF Near
  <2>2. t.nodes[n].subs \ {Null} \subseteq Near(t, R)
    BY DEF Near
  <2>3. Null \notin t.nodes[n].subs
    BY <1>1, <1>12
  <2>. QED BY <1>14, <2>1, <2>2, <2>3
<1>. QED BY <1>4, <1>12, <1>15 DEF R, D

\* Collecting objects changes nothing for those that are held.
LEMMA CollectedProperties ==
    ASSUME NEW t, TreeInv(t), NEW held, held \subseteq Objects(t) \cup {Null}
    PROVE  LET v == Collected(t, held) IN
           /\ TreeInv(v) /\ held \ {Null} \subseteq Objects(v) /\ Objects(v) \subseteq Objects(t)
           /\ \A n \in Objects(v) : getPath(v, n) = getPath(t, n)
           /\ v.dom = t.dom /\ \A n \in Objects(v) : v.nodes[n] = t.nodes[n]
<1>. DEFINE bound == {t.dom[p][1].node : p \in {q \in Paths : t.dom[q] # <<>>}}
            H == ({dataRoot} \cup held \cup bound) \ {Null}
            live == Reachable(t, H)
            nodes == [n \in live |-> t.nodes[n]]
            v == Collected(t, held)
            D == Objects(t)
<1>1. t \in Trees /\ LinkInv(t) /\ RowsInv(t) /\ D \in SUBSET (Nat \ {Null})
      /\ t.nodes \in [D -> Nodes] /\ t.dom \in [Paths -> Seq(Rows)]
  BY TreeTypes DEF TreeInv
<1>2. bound \subseteq D \cup {Null}
  <2>. SUFFICES ASSUME NEW p \in Paths, t.dom[p] # <<>> PROVE t.dom[p][1].node \in D \cup {Null}
    OBVIOUS
  <2>1. 1 \in 1 .. Len(t.dom[p])
    BY <1>1, RowListTypes
  <2>. QED BY <1>1, <2>1 DEF RowsInv
<1>3. dataRoot \in D /\ t.nodes[dataRoot].parent = Null /\ dataRoot # Null /\ IsFiniteSet(D)
  BY <1>1 DEF LinkInv, dataRoot, Null
<1>4. v = [nodes |-> nodes, dom |-> t.dom]
  <2>1. v = [t EXCEPT !.nodes = nodes]
    BY DEF Collected
  <2>. HIDE DEF nodes, v
  <2>. QED BY <1>1, <2>1, TreeFields
<1>5. H \in SUBSET D /\ dataRoot \in H /\ held \ {Null} \subseteq H /\ bound \ {Null} \subseteq H
  BY <1>2, <1>3
<1>. HIDE DEF H, v, bound
<1>6. /\ H \subseteq live /\ live \subseteq D
      /\ \A n \in live : t.nodes[n].parent \in live \cup {Null} /\ t.nodes[n].subs \subseteq live
  BY <1>1, <1>5, ReachableProperties
<1>. HIDE DEF live
<1>7. /\ v.nodes = nodes /\ v.dom = t.dom /\ Objects(v) = live
      /\ \A n \in live : v.nodes[n] = t.nodes[n]
  BY <1>4 DEF Objects
<1>8. v \in Trees
  <2>1. nodes \in [live -> Nodes] /\ live \in SUBSET (Nat \ {Null})
    BY <1>1, <1>6
  <2>. HIDE DEF nodes
  <2>. QED BY <1>1, <1>4, <2>1, MakeTree
<1>. HIDE DEF nodes
<1>. DEFINE f == [n \in D |-> getPath(t, n)]
            g == [n \in live |-> f[n]]
<1>9. IsRoute(t, f)
  BY <1>1, PathProperties
<1>10. IsRoute(v, g)
  <2>. HIDE DEF f
  <2>1. \A n \in D : /\ f[n] \in Seq(Names)
                     /\ f[n] = IF t.nodes[n].parent = Null THEN <<t.nodes[n].name>>
                               ELSE Append(f[t.nodes[n].parent], t.nodes[n].name)
    BY <1>9 DEF IsRoute
  <2>2. g \in [live -> Seq(Names)] /\ \A n \in live : g[n] = f[n]
    BY <1>6, <2>1
  <2>. HIDE DEF g
  <2>3. \A n \in live : g[n] = IF v.nodes[n].parent = Null THEN <<v.nodes[n].name>>
                               ELSE Append(g[v.nodes[n].parent], v.nodes[n].name)
    <3>. SUFFICES ASSUME NEW n \in live
                  PROVE  g[n] = IF v.nodes[n].parent = Null THEN <<v.nodes[n].name>>
                                ELSE Append(g[v.nodes[n].parent], v.nodes[n].name)
      OBVIOUS
    <3>1. n \in D /\ v.nodes[n] = t.nodes[n] /\ t.nodes[n].parent \in live \cup {Null}
      BY <1>6, <1>7
    <3>2. t.nodes[n].parent # Null => g[t.nodes[n].parent] = f[t.nodes[n].parent]
      BY <2>2, <3>1
    <3>. QED BY <2>1, <2>2, <3>1, <3>2
  <2>. QED BY <1>7, <2>2, <2>3 DEF IsRoute
<1>11. \A n \in Objects(v) : getPath(v, n) = getPath(t, n)
  <2>1. \A n \in Objects(v) : v.nodes[n].parent \in Objects(v) \cup {Null}
    BY <1>6, <1>7
  <2>2. \A n \in live : g[n] = getPath(t, n)
    BY <1>6
  <2>3. \A n \in Objects(v) : getPath(v, n) = g[n]
    <3>. HIDE DEF g
    <3>. QED BY <1>8, <1>10, <2>1, RouteIsPath
  <2>. QED BY <1>7, <2>2, <2>3
<1>. HIDE DEF f, g
<1>12. LinkInv(v)
  <2>1. IsFiniteSet(Objects(v)) /\ dataRoot \in Objects(v)
    BY <1>3, <1>5, <1>6, <1>7, FS_Subset
  <2>2. ASSUME NEW n \in Objects(v)
        PROVE  LET o == v.nodes[n] IN
               /\ o.parent \in Objects(v) \cup {Null}
               /\ \A s \in o.subs : s \in Objects(v) /\ v.nodes[s].parent = n
               /\ \A s, u \in o.subs : v.nodes[s].name = v.nodes[u].name => s = u
               /\ o.name = "bws" <=> n = dataRoot
    <3>1. n \in D /\ n \in live /\ v.nodes[n] = t.nodes[n]
      BY <1>6, <1>7
    <3>2. /\ \A s \in t.nodes[n].subs : s \in D /\ t.nodes[s].parent = n
          /\ \A s, u \in t.nodes[n].subs : t.nodes[s].name = t.nodes[u].name => s = u
          /\ t.nodes[n].name = "bws" <=> n = dataRoot
      BY <1>1, <3>1 DEF LinkInv
    <3>3. \A s \in t.nodes[n].subs : s \in live /\ v.nodes[s] = t.nodes[s]
      BY <1>6, <1>7, <3>1
    <3>. QED BY <1>6, <1>7, <3>1, <3>2, <3>3
  <2>3. \E e : IsRoute(v, e)
    BY <1>10
  <2>. QED BY <1>3, <1>7, <2>1, <2>2, <2>3 DEF LinkInv
<1>13. RowsInv(v)
  <2>1. \A p \in Paths : Len(p) > 1 /\ t.dom[p] # <<>> => t.dom[Parent(p)] # <<>>
    BY <1>1 DEF RowsInv
  <2>2. ASSUME NEW p \in Paths, NEW i \in 1 .. Len(t.dom[p])
        PROVE  /\ t.dom[p][i].node # Null => /\ i = 1 /\ t.dom[p][i].node \in Objects(v)
                                             /\ getPath(v, t.dom[p][i].node) = p
               /\ t.dom[p][i].handlers > 0 => t.dom[p][i].node # Null
    <3>1. /\ t.dom[p][i].node # Null => /\ i = 1 /\ t.dom[p][i].node \in D
                                        /\ getPath(t, t.dom[p][i].node) = p
          /\ t.dom[p][i].handlers > 0 => t.dom[p][i].node # Null
      BY <1>1 DEF RowsInv
    <3>2. t.dom[p] # <<>>
      BY <1>1, RowListTypes
    <3>3. i = 1 /\ t.dom[p][i].node # Null => t.dom[p][i].node \in live
      BY <1>5, <1>6, <3>2 DEF bound
    <3>. QED BY <1>7, <1>11, <3>1, <3>3
  <2>. QED BY <1>7, <2>1, <2>2 DEF RowsInv
<1>14. held \ {Null} \subseteq Objects(v) /\ Objects(v) \subseteq D
  BY <1>5, <1>6, <1>7
<1>. QED BY <1>7, <1>8, <1>11, <1>12, <1>13, <1>14 DEF TreeInv, v
-------------------------------------------------------------------------------
(* What the callbacks do with the tree.                                    *)

LEMMA InformedProperties ==
    ASSUME NEW t, TreeInv(t), NEW n \in Objects(t), NEW data,
           data.info \in Texts, data.writable \in Texts
    PROVE  LET v == Informed(t, n, data) IN
           TreeInv(v) /\ Keeps(t, v) /\ Objects(v) = Objects(t)
<1>. DEFINE u == setInfoFrom(t, n, data)
            p == getPath(u, n)
            info == u.nodes[n].info
            v == SetRowInfo(u, p, info)
<1>1. t \in Trees
  BY DEF TreeInv
<1>2. SameShape(t, u)
  BY <1>1, InfoShape
<1>. HIDE DEF u
<1>3. u \in Trees /\ n \in Objects(u)
  BY <1>2 DEF SameShape
<1>4. info \in Texts
  BY <1>3, TreeTypes DEF Nodes
<1>. HIDE DEF p, info
<1>5. SameShape(u, v)
  BY <1>3, <1>4, TextShape
<1>. HIDE DEF v
<1>6. SameShape(t, v)
  BY <1>2, <1>5, SameShapeTransitive
<1>7. TreeInv(v) /\ Keeps(t, v) /\ Objects(v) = Objects(t)
  BY <1>6, ShapeIsKept DEF SameShape
<1>8. Informed(t, n, data) = v
  BY DEF Informed, v, p, info, u
<1>. QED BY <1>7, <1>8

Listed == [name : Names \ {"bws"}, info : Texts, writable : Texts]
Filled(t, me, members) == LET member(m, u) == add(u, me, m.name, m)
                          IN  FoldSet(member, t, members)

\* iter adds the members of S to me, one by one.
FillsAll(iter, t, me, S) ==
    /\ iter[{}] = t /\ Filled(t, me, S) = iter[S]
    /\ \A s \in SUBSET S :
          /\ TreeInv(iter[s]) /\ Keeps(t, iter[s])
          /\ s # {} => iter[s] = add(iter[s \ {Chosen(s)}], me, Chosen(s).name, Chosen(s))

LEMMA FilledSteps ==
    ASSUME NEW t, TreeInv(t), NEW me \in Objects(t), NEW S \in SUBSET Listed, IsFiniteSet(S)
    PROVE  \E iter : FillsAll(iter, t, me, S)
<1>. DEFINE T == {u \in Trees : TreeInv(u) /\ Keeps(t, u)}
            step(m, u) == add(u, me, m.name, m)
            op == [x \in S |-> [u \in T |-> step(x, u)]]
            Body(iter, s) == IF s = {} THEN t ELSE step(Chosen(s), iter[s \ {Chosen(s)}])
            iter == CHOOSE iter : iter = [s \in SUBSET S |-> Body(iter, s)]
<1>1. t \in T
  BY DEF TreeInv, Keeps
<1>2. ASSUME NEW x \in S, NEW u \in T PROVE step(x, u) \in T
  <2>. DEFINE v == add(u, me, x.name, x)
              name == x.name
  <2>1. TreeInv(u) /\ Keeps(t, u) /\ me \in Objects(u)
    BY DEF Keeps
  <2>2. name \in Names \ {"bws"} /\ x.info \in Texts /\ x.writable \in Texts
    BY DEF Listed
  <2>. HIDE DEF name
  <2>3. TreeInv(add(u, me, name, x)) /\ Keeps(u, add(u, me, name, x))
    BY <2>1, <2>2, AddProperties
  <2>4. v = add(u, me, name, x)
    BY DEF name
  <2>. HIDE DEF v
  <2>5. Keeps(t, v) /\ TreeInv(v) /\ v \in Trees
    BY <2>1, <2>3, <2>4, KeepsIsTransitive DEF TreeInv
  <2>. QED BY <2>5 DEF v
<1>. HIDE DEF T, step
<1>3. op \in [S -> [T -> T]] /\ \A x \in S, u \in T : op[x][u] = step(x, u)
  BY <1>2
<1>. HIDE DEF op
<1>4. iter = [s \in SUBSET S |-> Body(iter, s)]
  <2>1. PICK f : IsFold(f, S, T, t, op)
    BY <1>1, <1>3, FoldExists
  <2>2. /\ f \in [SUBSET S -> T]
        /\ \A s \in SUBSET S :
              f[s] = IF s = {} THEN t ELSE op[Chosen(s)][f[s \ {Chosen(s)}]]
    BY <2>1 DEF IsFold
  <2>3. \A s \in SUBSET S : f[s] = Body(f, s)
    <3>. SUFFICES ASSUME NEW s \in SUBSET S, s # {} PROVE f[s] = Body(f, s)
      BY <2>2
    <3>1. Chosen(s) \in S /\ s \ {Chosen(s)} \in SUBSET S
      BY DEF Chosen
    <3>2. f[s \ {Chosen(s)}] \in T
      BY <2>2, <3>1
    <3>3. f[s] = op[Chosen(s)][f[s \ {Chosen(s)}]]
      BY <2>2
    <3>. QED BY <1>3, <3>1, <3>2, <3>3
  <2>4. f = [s \in SUBSET S |-> Body(f, s)]
    BY <2>2, <2>3
  <2>. HIDE DEF Body
  <2>. QED BY <2>4
<1>. HIDE DEF iter
<1>5. iter[{}] = t /\ \A s \in SUBSET S : s # {} => iter[s] = step(Chosen(s), iter[s \ {Chosen(s)}])
  BY <1>4
<1>6. \A s \in SUBSET S : iter[s] \in T
  <2>1. PICK f : IsFold(f, S, T, t, op)
    BY <1>1, <1>3, FoldExists
  <2>. SUFFICES ASSUME NEW s \in SUBSET S PROVE iter[s] \in T
    OBVIOUS
  <2>2. IsFiniteSet(s) /\ SUBSET s \subseteq SUBSET S
    BY FS_Subset
  <2>3. iter[{}] \in T
    BY <1>1, <1>5
  <2>4. \A r \in SUBSET s : r # {} /\ iter[r \ {Chosen(r)}] \in T => iter[r] \in T
    <3>. SUFFICES ASSUME NEW r \in SUBSET s, r # {}, iter[r \ {Chosen(r)}] \in T
                  PROVE  iter[r] \in T
      OBVIOUS
    <3>1. Chosen(r) \in S
      BY DEF Chosen
    <3>. QED BY <1>2, <1>5, <3>1
  <2>. QED BY <2>2, <2>3, <2>4, FoldStays
<1>7. Filled(t, me, S) = iter[S]
  BY Zenon DEF Filled, FoldSet, MapThenFoldSet, iter, step, Chosen
<1>8. \A s \in SUBSET S : s # {} => iter[s] = add(iter[s \ {Chosen(s)}], me, Chosen(s).name, Chosen(s))
  BY <1>5 DEF step
<1>9. \A s \in SUBSET S : TreeInv(iter[s]) /\ Keeps(t, iter[s])
  BY <1>6 DEF T
<1>10. FillsAll(iter, t, me, S)
  BY <1>5, <1>7, <1>8, <1>9 DEF FillsAll
<1>. QED BY <1>10

\* Members are added one by one, in any order.
LEMMA FilledProperties ==
    ASSUME NEW t, TreeInv(t), NEW me \in Objects(t), NEW S \in SUBSET Listed, IsFiniteSet(S)
    PROVE  TreeInv(Filled(t, me, S)) /\ Keeps(t, Filled(t, me, S))
<1>1. PICK iter : FillsAll(iter, t, me, S)
  BY FilledSteps
<1>. QED BY <1>1 DEF FillsAll

\* Every call of the handler of a row finds the row bound to the same object.
Handled(t, p) ==
    LET s[i \in 0 .. t.dom[p][1].handlers] ==
            IF i = 0 THEN [tree |-> t, requests |-> EmptyBag] ELSE Toggled(s[i - 1], p)
    IN  s[t.dom[p][1].handlers]

LEMMA HandledProperties ==
    ASSUME NEW t, TreeInv(t), NEW p \in Paths, t.dom[p] # <<>>, t.dom[p][1].handlers > 0
    PROVE  LET n == t.dom[p][1].node
               s == Handled(t, p)
           IN  /\ n \in Objects(t)
               /\ TreeInv(s.tree) /\ Keeps(t, s.tree)
               /\ BagToSet(s.requests) \subseteq {Ask("list", p, n)}
<1>. DEFINE n == t.dom[p][1].node
            h == t.dom[p][1].handlers
            A == {Ask("list", p, n)}
            Bags1 == UNION {[X -> Nat] : X \in SUBSET A}
            T == {s \in [tree : Trees, requests : Bags1] : KeepsRow(t, s.tree, n)}
            base == [tree |-> t, requests |-> EmptyBag]
            op == [s \in T |-> Toggled(s, p)]
            Steps(f) == [i \in 0 .. h |-> IF i = 0 THEN base ELSE Toggled(f[i - 1], p)]
            s == CHOOSE f : f = Steps(f)
<1>1. t \in Trees /\ LinkInv(t) /\ RowsInv(t)
  BY DEF TreeInv
<1>2. t.dom[p][1] \in Rows /\ 1 \in 1 .. Len(t.dom[p])
  BY <1>1, RowListTypes
<1>3. h \in Nat /\ n \in Objects(t) /\ getPath(t, n) = p
  BY <1>1, <1>2 DEF RowsInv, Rows
<1>4. Handled(t, p) = s[h]
  BY Zenon DEF Handled
<1>. HIDE DEF n, h
<1>5. base \in T
  <2>1. KeepsRow(t, t, n)
    BY DEF KeepsRow, Keeps
  <2>2. EmptyBag \in [{} -> Nat]
    BY DEF EmptyBag, SetToBag
  <2>3. EmptyBag \in Bags1
    BY <2>2
  <2>. HIDE DEF Bags1
  <2>. QED BY <1>1, <2>1, <2>3
<1>6. ASSUME NEW x \in T PROVE Toggled(x, p) \in T
  <2>. DEFINE u == x.tree
              v == collapse(u, n)
              w == Opened(u, n)
              B == List(u, n)
  <2>1. /\ KeepsRow(t, u, n) /\ u \in Trees /\ x.requests \in Bags1
        /\ x = [tree |-> u, requests |-> x.requests]
    OBVIOUS
  <2>2. TreeInv(u) /\ n \in Objects(u) /\ getPath(u, n) = p
    BY <1>3, <2>1 DEF KeepsRow
  <2>3. u.dom[p] # <<>> /\ u.dom[p][1].node = n
    <3>1. Len(p) <= Len(getPath(t, n))
      BY <1>3, PathsTypes
    <3>. QED BY <2>1, <3>1 DEF KeepsRow, n
  <2>. HIDE DEF u
  <2>4. KeepsRow(t, v, n) /\ v \in Trees
    <3>1. KeepsRow(u, v, n)
      BY <2>2, CollapseProperties
    <3>. HIDE DEF v
    <3>2. KeepsRow(t, v, n)
      BY <2>1, <3>1, KeepsRowIsTransitive
    <3>. QED BY <3>2 DEF KeepsRow, TreeInv
  <2>5. KeepsRow(t, w, n) /\ w \in Trees
    <3>1. KeepsRow(u, w, n)
      BY <2>2, OpenedProperties
    <3>. HIDE DEF w
    <3>2. KeepsRow(t, w, n)
      BY <2>1, <3>1, KeepsRowIsTransitive
    <3>. QED BY <3>2 DEF KeepsRow, TreeInv
  <2>6. x.requests (+) B \in Bags1
    <3>1. B = [e \in A |-> 1]
      BY <2>2 DEF List, SetToBag
    <3>2. PICK X \in SUBSET A : x.requests \in [X -> Nat]
      BY <2>1
    <3>. DEFINE C == x.requests
    <3>3. C (+) B = [e \in X \cup A |-> (IF e \in X THEN C[e] ELSE 0) + (IF e \in A THEN B[e] ELSE 0)]
      BY <3>1, <3>2 DEF (+)
    <3>. HIDE DEF C, A, B
    <3>4. C (+) B \in [X \cup A -> Nat]
      BY <3>1, <3>2, <3>3 DEF C
    <3>. QED BY <3>2, <3>4 DEF C
  <2>. HIDE DEF v, w, B, Bags1
  <2>7. CASE u.dom[p][1].text = "-"
    <3>1. Toggled(x, p) = [tree |-> v, requests |-> x.requests]
      <4>1. Toggled(x, p) = [x EXCEPT !.tree = v]
        BY <2>3, <2>7 DEF Toggled, u, v
      <4>. QED BY <4>1
    <3>. QED BY <2>1, <2>4, <3>1
  <2>8. CASE u.dom[p][1].text # "-"
    <3>1. Toggled(x, p) = [tree |-> w, requests |-> x.requests (+) B]
      BY <2>3, <2>8 DEF Toggled, expand, u, w, B
    <3>. QED BY <2>5, <2>6, <3>1
  <2>. QED BY <2>7, <2>8
<1>7. op \in [T -> T]
  BY <1>6
<1>. HIDE DEF T, op, base
<1>8. \E f : f = Steps(f)
  <2>1. PICK f : IsIteration(f, h, T, base, op)
    BY <1>3, <1>5, <1>7, IterationExists
  <2>2. \A i \in 0 .. h : i # 0 => op[f[i - 1]] = Toggled(f[i - 1], p)
    <3>. SUFFICES ASSUME NEW i \in 0 .. h, i # 0 PROVE op[f[i - 1]] = Toggled(f[i - 1], p)
      OBVIOUS
    <3>1. i - 1 \in 0 .. h
      BY <1>3
    <3>. QED BY <2>1, <3>1 DEF op, IsIteration
  <2>3. /\ \A i \in 0 .. h : f[i] = IF i = 0 THEN base ELSE op[f[i - 1]]
        /\ f = [i \in 0 .. h |-> f[i]]
    BY <2>1 DEF IsIteration
  <2>4. \A i \in 0 .. h : f[i] = IF i = 0 THEN base ELSE Toggled(f[i - 1], p)
    BY <2>2, <2>3
  <2>5. f = Steps(f)
    BY <2>3, <2>4
  <2>. QED BY <2>5
<1>9. s = Steps(s)
  BY <1>8
<1>. HIDE DEF s
<1>10. s[0] = base /\ \A i \in 1 .. h : s[i] = Toggled(s[i - 1], p)
  <2>1. \A i \in 0 .. h : s[i] = IF i = 0 THEN base ELSE Toggled(s[i - 1], p)
    BY <1>9
  <2>. QED BY <1>3, <2>1
<1>11. s[h] \in T
  <2>1. s[0] \in T /\ \A i \in 1 .. h : s[i - 1] \in T => s[i] \in T
    BY <1>5, <1>6, <1>10
  <2>2. \A i \in 0 .. h : s[i] \in T
    BY <1>3, <2>1, IterationStays
  <2>. QED BY <1>3, <2>2
<1>12. KeepsRow(t, s[h].tree, n) /\ s[h].requests \in Bags1
  BY <1>11 DEF T
<1>13. BagToSet(s[h].requests) \subseteq A
  BY <1>12 DEF BagToSet
<1>. QED BY <1>3, <1>4, <1>12, <1>13 DEF KeepsRow, n
-------------------------------------------------------------------------------
(* What every step has to show.                                            *)

\* What no step changes about a request.
StaticInv(r) ==
    /\ r.op \in Ops
    /\ r.op \notin {"defs", "reset"} => r.me # Null
    /\ r.value \in Texts
    /\ r.op \in Writes /\ Within(r.url, <<"bws">>) =>
         r.url = r.for \/ (r.op = "put" /\ Parent(r.url) = r.for)

\* A click keeps what is selected, forgets it, or selects the object of a row.
Selects(t) ==
    /\ \/ selected' = Null
       \/ selected' = selected /\ asked' = asked
       \/ selected' \in Objects(t) /\ getPath(t, selected') = asked'
    /\ dialog'.edit \/ dialog'.form # "none" \/ dialog'.sure # "none" => selected' # Null
    /\ \A r \in Pending' : r.op = "defs" => selected' # Null

LEMMA InvStep ==
    ASSUME ExplorerInv, NEW t, TreeInv(t), Keeps(tree, t),
           Becomes(t) \/ (tree' = tree /\ t = tree),
           NEW new, Pending' \subseteq Pending \cup new,
           \A r \in new : StaticInv(r) /\ r.me \in Objects(t) \cup {Null},
           Selects(t), DbInv', \A a \in BagToSet(answered') : ReplyInv(a)
    PROVE  ExplorerInv'
<1>1. \A r \in Pending' : StaticInv(r) /\ r.me \in Objects(t) \cup {Null}
  <2>1. \A r \in Pending : StaticInv(r) /\ r.me \in Objects(tree) \cup {Null}
    BY DEF ExplorerInv, RequestInv, StaticInv
  <2>2. Objects(tree) \subseteq Objects(t)
    BY DEF Keeps
  <2>. QED BY <2>1, <2>2
<1>2. /\ selected' \in Objects(t) \cup {Null}
      /\ selected' # Null => getPath(t, selected') = asked' \/ Relative(getPath(t, selected'))
  <2>1. CASE selected' = selected /\ asked' = asked /\ selected # Null
    <3>1. /\ selected \in Objects(tree)
          /\ getPath(tree, selected) = asked \/ Relative(getPath(tree, selected))
      BY <2>1 DEF ExplorerInv, SelectedInv
    <3>2. /\ selected \in Objects(t)
          /\ getPath(t, selected) = getPath(tree, selected) \/ Relative(getPath(t, selected))
      BY <3>1 DEF Keeps
    <3>. QED BY <2>1, <3>1, <3>2
  <2>. QED BY <2>1 DEF Selects
<1>3. /\ TreeInv(tree')
      /\ selected' \in Objects(tree') \cup {Null}
      /\ \A r \in Pending' : r.me \in Objects(tree') \cup {Null}
      /\ \A n \in Objects(tree') : getPath(tree', n) = getPath(t, n)
  <2>1. CASE Becomes(t)
    <3>. DEFINE held == {selected'} \cup {r.me : r \in BagToSet(sent')}
                                    \cup {a.request.me : a \in BagToSet(answered')}
    <3>1. tree' = Collected(t, held)
      BY <2>1 DEF Becomes
    <3>2. held \subseteq Objects(t) \cup {Null}
      BY <1>1, <1>2 DEF Pending
    <3>3. selected' \in held /\ \A r \in Pending' : r.me \in held
      BY DEF Pending
    <3>. HIDE DEF held
    <3>4. /\ TreeInv(tree') /\ held \ {Null} \subseteq Objects(tree')
          /\ \A n \in Objects(tree') : getPath(tree', n) = getPath(t, n)
      BY <3>1, <3>2, CollectedProperties
    <3>. QED BY <3>3, <3>4
  <2>2. CASE tree' = tree /\ t = tree
    BY <1>1, <1>2, <2>2
  <2>. QED BY <2>1, <2>2
<1>4. SelectedInv'
  BY <1>2, <1>3 DEF SelectedInv, Selects
<1>5. \A r \in Pending' : RequestInv(r)'
  BY <1>1, <1>3 DEF RequestInv, StaticInv, Selects
<1>6. \A a \in BagToSet(answered') : ReplyInv(a)'
  BY DEF ReplyInv
<1>. QED BY <1>3, <1>4, <1>5, <1>6 DEF ExplorerInv

LEMMA BagFacts ==
    ASSUME NEW A, NEW B, NEW S
    PROVE  /\ BagToSet(A (+) B) = BagToSet(A) \cup BagToSet(B)
           /\ BagToSet(A (-) B) \subseteq BagToSet(A)
           /\ BagToSet(SetToBag(S)) = S
           /\ BagToSet(EmptyBag) = {}
<1>1. BagToSet(A (+) B) = BagToSet(A) \cup BagToSet(B)
  BY DEF (+), BagToSet
<1>2. BagToSet(A (-) B) \subseteq BagToSet(A)
  BY DEF (-), BagToSet
<1>3. \A X : BagToSet(SetToBag(X)) = X
  BY DEF SetToBag, BagToSet
<1>. QED BY <1>1, <1>2, <1>3 DEF EmptyBag

\* closeDialogs() forgets what is selected when nothing needs it any more.
LEMMA CloseSelects ==
    ASSUME ExplorerInv, NEW t, NEW form, NEW requests, closeDialogs(form, requests),
           form # "none" => selected # Null,
           \A r \in BagToSet(requests) : r.op = "defs" => selected # Null,
           \A r \in Pending' : r.op = "defs" => r \in Pending \cup BagToSet(requests)
    PROVE  Selects(t)
<1>1. ~dialog'.edit /\ dialog'.form = form /\ dialog'.sure = "none"
  <2>1. dialog' = [Closed EXCEPT !.form = form]
    BY DEF closeDialogs
  <2>. QED BY <2>1 DEF Closed
<1>2. \A r \in Pending : r.op = "defs" => selected # Null
  BY DEF ExplorerInv, RequestInv
<1>3. CASE form # "none" \/ \E r \in Pending \cup BagToSet(requests) : r.op = "defs"
  <2>1. selected' = selected /\ asked' = asked
    BY <1>3 DEF closeDialogs
  <2>. QED BY <1>1, <1>2, <1>3, <2>1 DEF Selects
<1>4. CASE ~(form # "none" \/ \E r \in Pending \cup BagToSet(requests) : r.op = "defs")
  <2>1. selected' = Null
    BY <1>4 DEF closeDialogs
  <2>. QED BY <1>1, <1>4, <2>1 DEF Selects
<1>. QED BY <1>3, <1>4

\* Nothing is selected anew, and no dialog opens.
LEMMA SameSelects ==
    ASSUME ExplorerInv, NEW t, selected' = selected, asked' = asked,
           dialog' = dialog \/ selected # Null,
           \A r \in Pending' : r.op = "defs" => r \in Pending
    PROVE  Selects(t)
<1>1. \A r \in Pending : r.op = "defs" => selected # Null
  BY DEF ExplorerInv, RequestInv
<1>2. dialog.edit \/ dialog.form # "none" \/ dialog.sure # "none" => selected # Null
  BY DEF ExplorerInv, SelectedInv
<1>. QED BY <1>1, <1>2 DEF Selects

LEMMA PendingAfter ==
    ASSUME NEW new, BagToSet(sent') \subseteq BagToSet(sent) \cup new,
           BagToSet(answered') \subseteq BagToSet(answered)
    PROVE  Pending' \subseteq Pending \cup new
BY DEF Pending

LEMMA PendingSent ==
    ASSUME NEW B, Send(B), BagToSet(answered') \subseteq BagToSet(answered)
    PROVE  Pending' \subseteq Pending \cup BagToSet(B)
<1>1. BagToSet(sent') = BagToSet(sent) \cup BagToSet(B)
  BY BagFacts DEF Send
<1>. QED BY <1>1 DEF Pending

LEMMA AskIsStatic ==
    ASSUME NEW op \in {"list", "info", "exists"}, NEW url, NEW me, me # Null
    PROVE  StaticInv(Ask(op, url, me)) /\ Ask(op, url, me).op = op /\ Ask(op, url, me).me = me
BY DEF StaticInv, Ask, Request, Ops, Writes, Texts
-------------------------------------------------------------------------------
(* The server.                                                             *)

LEMMA KeepsItself == ASSUME NEW t PROVE Keeps(t, t)
BY DEF Keeps

\* The answer belongs to a request that was under way.
LEMMA AnswerStep ==
    ASSUME ExplorerInv, NEW r \in BagToSet(sent), NEW reply, Answer(r, reply), DbInv',
           ReplyInv([request |-> r, reply |-> reply])
    PROVE  ExplorerInv'
<1>. DEFINE a == [request |-> r, reply |-> reply]
            new == {}
<1>1. BagToSet(sent') \subseteq BagToSet(sent)
  BY BagFacts DEF Answer
<1>2. BagToSet(answered') = BagToSet(answered) \cup {a}
  <2>. DEFINE C == SetToBag({a})
  <2>1. answered' = answered (+) C
    BY DEF Answer
  <2>2. BagToSet(C) = {a}
    BY BagFacts
  <2>. HIDE DEF C, a
  <2>3. BagToSet(answered (+) C) = BagToSet(answered) \cup BagToSet(C)
    BY BagFacts
  <2>. QED BY <2>1, <2>2, <2>3
<1>3. Pending' \subseteq Pending \cup new
  BY <1>1, <1>2 DEF Pending
<1>4. \A b \in BagToSet(answered') : ReplyInv(b)
  BY <1>2 DEF ExplorerInv
<1>5. tree' = tree /\ selected' = selected /\ dialog' = dialog /\ asked' = asked
  BY DEF Answer
<1>6. Selects(tree)
  BY <1>3, <1>5, SameSelects
<1>7. \A s \in new : StaticInv(s) /\ s.me \in Objects(tree) \cup {Null}
  OBVIOUS
<1>8. TreeInv(tree) /\ Keeps(tree, tree)
  BY KeepsItself DEF ExplorerInv
<1>. HIDE DEF new
<1>. QED BY <1>3, <1>4, <1>5, <1>6, <1>7, <1>8, InvStep

LEMMA DbTypes ==
    ASSUME DbInv
    PROVE  /\ \A p \in DOMAIN db : p \in Paths /\ db[p] \in Texts
           /\ \A p : Exists(p) => Info(p) \in Texts
           /\ \A p : OwnFlag(p) \in Texts
<1>1. \A p \in DOMAIN db : p \in Paths /\ db[p] \in Texts
  BY DEF DbInv
<1>2. NoInfo \in Texts
  BY DEF Texts
<1>. QED BY <1>1, <1>2 DEF Exists, Info, OwnFlag

LEMMA MembersAreListed ==
    ASSUME DbInv, NEW p \in Paths
    PROVE  Members(p) \in SUBSET Listed /\ IsFiniteSet(Members(p))
<1>. DEFINE S == {c \in Children(p) : Exists(c) /\ NameIn(c) # Writable}
            F(q) == [name |-> NameIn(q), info |-> Info(q), writable |-> OwnFlag(q)]
<1>1. Members(p) = {F(q) : q \in S}
  BY DEF Members
<1>2. S \in SUBSET Paths
  BY DEF Children
<1>3. IsFiniteSet(S)
  BY <1>2, PathsAssumption, FS_Subset
<1>4. \A q \in S : F(q) \in Listed
  <2>. SUFFICES ASSUME NEW q \in S PROVE F(q) \in Listed
    OBVIOUS
  <2>1. q \in Paths /\ Exists(q) /\ Len(q) = Len(p) + 1
    BY DEF Children
  <2>2. Len(p) \in Nat \ {0} /\ Len(q) \in Nat /\ q \in Seq(Names)
    BY <2>1, PathsTypes
  <2>3. Len(q) \in 1 .. Len(q) /\ Len(q) # 1
    BY <2>1, <2>2
  <2>4. q[Len(q)] # "bws" /\ q[Len(q)] \in Names
    BY <2>1, <2>2, <2>3, PathsAssumption
  <2>5. Info(q) \in Texts /\ OwnFlag(q) \in Texts
    BY <2>1, DbTypes
  <2>. QED BY <2>4, <2>5 DEF Listed, NameIn
<1>5. IsFiniteSet({F(q) : q \in S})
  <2>. DEFINE f == [q \in S |-> F(q)]
              T == {F(q) : q \in S}
  <2>1. f \in Surjection(S, T)
    BY DEF Surjection
  <2>. HIDE DEF S, T, f
  <2>2. IsFiniteSet(T)
    BY <1>3, <2>1, FS_Surjection
  <2>. QED BY <2>2 DEF T
<1>. HIDE DEF S, F
<1>. QED BY <1>1, <1>4, <1>5

LEMMA PathsIn == ASSUME NEW p, Exists(p), DbInv PROVE p \in Paths
BY DEF Exists, DbInv

LEMMA ServeStep ==
    ASSUME ExplorerInv, NEW r \in BagToSet(sent), Serve(r)
    PROVE  ExplorerInv'
<1>1. DbInv /\ RequestInv(r)
  BY DEF ExplorerInv, Pending
<1>2. NoInfo \in Texts /\ "true" \in Texts /\ "false" \in Texts
  BY DEF Texts
<1>3. r.value \in Texts
  BY <1>1 DEF RequestInv
<1>4. DbInv' => \A reply : Answer(r, reply) /\ ReplyInv([request |-> r, reply |-> reply])
                             => ExplorerInv'
  BY AnswerStep
<1>5. \A reply : r.op # "list" \/ ~reply.ok => ReplyInv([request |-> r, reply |-> reply])
  BY DEF ReplyInv
<1>6. CASE ServeRead(r)
  <2>1. DbInv'
    BY <1>1, <1>6 DEF ServeRead, DbInv
  <2>2. CASE r.op # "list" \/ ~Exists(r.url)
    <3>1. (Answer(r, OK) /\ r.op # "list") \/ Answer(r, Refused)
      BY <1>6, <2>2 DEF ServeRead
    <3>2. Refused.ok = FALSE
      BY DEF Refused, Reply
    <3>. QED BY <1>4, <1>5, <2>1, <3>1, <3>2
  <2>3. CASE r.op = "list" /\ Exists(r.url)
    <3>. DEFINE flag == IF IsWritable(r.url) THEN "true" ELSE "false"
                reply == Reply(TRUE, Info(r.url), flag, Members(r.url))
    <3>1. Answer(r, reply)
      BY <1>6, <2>3 DEF ServeRead
    <3>2. flag \in Texts /\ Info(r.url) \in Texts
      BY <1>1, <1>2, <2>3, DbTypes
    <3>3. Members(r.url) \in SUBSET Listed /\ IsFiniteSet(Members(r.url))
      BY <1>1, <2>3, PathsIn, MembersAreListed
    <3>. HIDE DEF flag
    <3>4. ReplyInv([request |-> r, reply |-> reply])
      BY <3>2, <3>3 DEF ReplyInv, Reply, Listed
    <3>. QED BY <1>4, <2>1, <3>1, <3>4
  <2>. QED BY <2>2, <2>3
<1>7. CASE ServePut(r)
  <2>1. r.op = "put" /\ r.url \in Paths /\ db' = With(r.url, r.value, db) /\ Answer(r, OK)
    BY <1>7 DEF ServePut, CanPut
  <2>2. DbInv'
    BY <1>1, <1>3, <2>1 DEF DbInv, With
  <2>. QED BY <1>4, <1>5, <2>1, <2>2
<1>8. CASE ServePaste(r)
  <2>1. r.op = "paste" /\ r.url \in Paths /\ Answer(r, OK)
    BY <1>8 DEF ServePaste, CanPut
  <2>2. PICK below \in SUBSET {p \in Paths : Within(p, r.url) /\ p # r.url} :
            db' = [p \in below \cup {r.url} \cup {q \in DOMAIN db : ~Within(q, r.url)} |->
                      IF ~Within(p, r.url) THEN db[p]
                      ELSE IF canHaveValue(NameIn(p)) THEN "true" ELSE NoInfo]
    BY <1>8 DEF ServePaste
  <2>. DEFINE D == below \cup {r.url} \cup {q \in DOMAIN db : ~Within(q, r.url)}
  <2>3. D \subseteq Paths
    BY <1>1, <2>1, <2>2 DEF DbInv
  <2>4. r.url \in Seq(Names) /\ Within(r.url, r.url)
    BY <2>1, PathsTypes, WithinElements
  <2>5. \A p \in D : ~Within(p, r.url) => p \in DOMAIN db /\ db[p] \in Texts
    BY <1>1, <2>2, <2>4 DEF DbInv
  <2>6. DbInv'
    BY <1>2, <2>2, <2>3, <2>5 DEF DbInv
  <2>. QED BY <1>4, <1>5, <2>1, <2>6
<1>9. CASE ServePost(r)
  <2>1. r.op = "post" /\ Answer(r, OK)
    BY <1>9 DEF ServePost
  <2>2. PICK p \in Paths : db' = With(p, NoInfo, db)
    BY <1>9 DEF ServePost, Children
  <2>3. DbInv'
    BY <1>1, <1>2, <2>2 DEF DbInv, With
  <2>. QED BY <1>4, <1>5, <2>1, <2>3
<1>10. CASE ServeDelete(r)
  <2>1. r.op # "list" /\ Answer(r, OK)
    BY <1>10 DEF ServeDelete
  <2>2. db' = [p \in {q \in DOMAIN db : ~Within(q, r.url)} |-> db[p]]
    BY <1>10 DEF ServeDelete
  <2>3. DbInv'
    BY <1>1, <2>2 DEF DbInv
  <2>. QED BY <1>4, <1>5, <2>1, <2>3
<1>11. CASE ServeReset(r)
  <2>1. r.op = "reset" /\ db' \in Databases /\ Answer(r, OK)
    BY <1>11 DEF ServeReset
  <2>2. DbInv'
    BY <2>1, DatabasesAssumption DEF DbInv, Texts
  <2>. QED BY <1>4, <1>5, <2>1, <2>2
<1>12. CASE Refuse(r)
  <2>1. r.op # "list" /\ UNCHANGED db /\ Answer(r, Refused)
    BY <1>12 DEF Refuse
  <2>2. DbInv'
    BY <1>1, <2>1 DEF DbInv
  <2>. QED BY <1>4, <1>5, <2>1, <2>2
<1>. QED BY <1>6, <1>7, <1>8, <1>9, <1>10, <1>11, <1>12 DEF Serve
-------------------------------------------------------------------------------
(* The callbacks.                                                          *)

LEMMA HandleStep ==
    ASSUME ExplorerInv, BagToSet(answered') \subseteq BagToSet(answered),
           UNCHANGED <<db, selected, asked>>, dialog' = dialog \/ selected # Null,
           NEW t, TreeInv(t), Keeps(tree, t), Becomes(t),
           NEW new, BagToSet(sent') \subseteq BagToSet(sent) \cup new,
           \A r \in new : StaticInv(r) /\ r.me \in Objects(t) \cup {Null} /\ r.op # "defs"
    PROVE  ExplorerInv'
<1>1. Pending' \subseteq Pending \cup new
  BY PendingAfter
<1>2. selected' = selected /\ asked' = asked /\ db' = db
  OBVIOUS
<1>3. Selects(t)
  BY <1>1, <1>2, SameSelects
<1>4. DbInv'
  BY <1>2 DEF ExplorerInv, DbInv
<1>5. \A a \in BagToSet(answered') : ReplyInv(a)
  BY DEF ExplorerInv
<1>. QED BY <1>1, <1>3, <1>4, <1>5, InvStep

\* The object a callback was left with.
LEMMA CalledFor ==
    ASSUME ExplorerInv, NEW r \in Pending, r.op \notin {"defs", "reset"}
    PROVE  r.me \in Objects(tree)
BY DEF ExplorerInv, RequestInv

LEMMA ExpandedStep ==
    ASSUME ExplorerInv, NEW a \in BagToSet(answered), Expanded(a)
    PROVE  ExplorerInv'
<1>. DEFINE me == a.request.me
            reply == a.reply
            u == Informed(tree, me, reply)
            t == Filled(u, me, reply.members)
            R1 == {Ask("info", getPath(t, s), s) : s \in t.nodes[me].subs}
            R2 == {Ask("exists", Append(a.request.url, Writable), me)}
            B == SetToBag(R1 \cup R2)
<1>1. /\ Handle(a, {"list"}) /\ UNCHANGED dialog
      /\ Send(B) /\ Becomes(t)
  BY DEF Expanded, Filled
<1>2. a.request \in Pending /\ ReplyInv(a)
  BY DEF Pending, ExplorerInv
<1>3. /\ me \in Objects(tree)
      /\ reply.info \in Texts /\ reply.writable \in Texts
      /\ IsFiniteSet(reply.members) /\ reply.members \in SUBSET Listed
  <2>1. a.request.op = "list" /\ a.reply.ok
    BY <1>1 DEF Handle
  <2>. QED BY <1>2, <2>1, CalledFor DEF ReplyInv, Listed
<1>. HIDE DEF me, reply, B
<1>4. TreeInv(u) /\ Keeps(tree, u) /\ Objects(u) = Objects(tree)
  BY <1>3, InformedProperties DEF ExplorerInv
<1>. HIDE DEF u
<1>5. TreeInv(t) /\ Keeps(u, t)
  BY <1>3, <1>4, FilledProperties
<1>. HIDE DEF t
<1>6. Keeps(tree, t)
  BY <1>4, <1>5, KeepsIsTransitive
<1>7. me \in Objects(t) /\ Null \notin Objects(t) /\ t.nodes[me].subs \subseteq Objects(t)
  <2>1. me \in Objects(t)
    BY <1>3, <1>6 DEF Keeps
  <2>. QED BY <1>5, <2>1, TreeTypes DEF TreeInv, LinkInv
<1>8. \A r \in R1 \cup R2 : StaticInv(r) /\ r.me \in Objects(t) \cup {Null} /\ r.op # "defs"
  <2>1. ASSUME NEW r \in R1
        PROVE  StaticInv(r) /\ r.me \in Objects(t) \cup {Null} /\ r.op # "defs"
    <3>1. PICK s \in t.nodes[me].subs : r = Ask("info", getPath(t, s), s)
      OBVIOUS
    <3>. DEFINE q == getPath(t, s)
    <3>. HIDE DEF q
    <3>2. s # Null /\ s \in Objects(t) /\ r = Ask("info", q, s)
      BY <1>7, <3>1 DEF q
    <3>. QED BY <3>2, AskIsStatic
  <2>2. ASSUME NEW r \in R2
        PROVE  StaticInv(r) /\ r.me \in Objects(t) \cup {Null} /\ r.op # "defs"
    <3>. DEFINE q == Append(a.request.url, Writable)
    <3>1. r = Ask("exists", q, me) /\ me # Null
      BY <1>7
    <3>. HIDE DEF q
    <3>. QED BY <1>7, <3>1, AskIsStatic
  <2>. HIDE DEF R1, R2
  <2>. QED BY <2>1, <2>2
<1>. DEFINE new == R1 \cup R2
<1>9. BagToSet(sent') \subseteq BagToSet(sent) \cup new
  <2>1. BagToSet(B) = new
    BY BagFacts DEF B
  <2>. QED BY <1>1, <2>1, BagFacts DEF Send
<1>10. UNCHANGED <<db, selected, asked>> /\ BagToSet(answered') \subseteq BagToSet(answered)
  BY <1>1, BagFacts DEF Handle
<1>11. \A r \in new : StaticInv(r) /\ r.me \in Objects(t) \cup {Null} /\ r.op # "defs"
  BY <1>8
<1>. HIDE DEF new
<1>. QED BY <1>1, <1>5, <1>6, <1>9, <1>10, <1>11, HandleStep

\* After a refresh of me nothing is asked for but lists and values.
LEMMA RefreshStep ==
    ASSUME ExplorerInv, BagToSet(answered') \subseteq BagToSet(answered),
           UNCHANGED <<db, selected, asked, dialog>>,
           NEW me \in Objects(tree), Becomes(refresh(tree, me).tree),
           NEW new, Send(refresh(tree, me).requests (+) SetToBag(new))
                    \/ (new = {} /\ Send(refresh(tree, me).requests)),
           \A r \in new : \E url, n : r = Ask("info", url, n)
                                      /\ n \in Objects(refresh(tree, me).tree) \ {Null}
    PROVE  ExplorerInv'
<1>. DEFINE t == refresh(tree, me).tree
            B == refresh(tree, me).requests
<1>1. TreeInv(tree)
  BY DEF ExplorerInv
<1>2. KeepsRow(tree, t, me) /\ \E url : B = SetToBag({Ask("list", url, me)})
  BY <1>1, RefreshProperties
<1>. HIDE DEF t, B
<1>3. PICK url : B = SetToBag({Ask("list", url, me)})
  BY <1>2
<1>. DEFINE all == {Ask("list", url, me)} \cup new
<1>4. TreeInv(t) /\ Keeps(tree, t) /\ me \in Objects(t) /\ me # Null
  BY <1>1, <1>2, TreeTypes DEF KeepsRow, TreeInv
<1>5. BagToSet(sent') \subseteq BagToSet(sent) \cup all
  <2>1. BagToSet(B) = {Ask("list", url, me)}
    BY <1>3, BagFacts
  <2>2. BagToSet(B (+) SetToBag(new)) = all
    BY <2>1, BagFacts
  <2>3. CASE Send(B (+) SetToBag(new))
    <3>. DEFINE C == B (+) SetToBag(new)
    <3>1. sent' = sent (+) C /\ BagToSet(C) = all
      BY <2>2, <2>3 DEF Send
    <3>. HIDE DEF C, all
    <3>. QED BY <3>1, BagFacts
  <2>4. CASE new = {} /\ Send(B)
    BY <2>1, <2>4, BagFacts DEF Send
  <2>. QED BY <2>3, <2>4 DEF B
<1>6. \A r \in all : StaticInv(r) /\ r.me \in Objects(t) \cup {Null} /\ r.op # "defs"
  <2>1. \A r \in new : \E q, n : r = Ask("info", q, n) /\ n \in Objects(t) \ {Null}
    BY DEF t
  <2>2. ASSUME NEW r \in new
        PROVE  StaticInv(r) /\ r.me \in Objects(t) \cup {Null} /\ r.op # "defs"
    <3>1. PICK q, n : r = Ask("info", q, n) /\ n \in Objects(t) \ {Null}
      BY <2>1
    <3>. QED BY <3>1, AskIsStatic
  <2>3. LET r == Ask("list", url, me)
        IN  StaticInv(r) /\ r.me \in Objects(t) \cup {Null} /\ r.op # "defs"
    BY <1>4, AskIsStatic
  <2>. QED BY <2>2, <2>3
<1>7. Becomes(t)
  BY DEF t
<1>. HIDE DEF all
<1>. QED BY <1>4, <1>5, <1>6, <1>7, HandleStep

LEMMA WriteSucceededStep ==
    ASSUME ExplorerInv, NEW a \in BagToSet(answered), WriteSucceeded(a)
    PROVE  ExplorerInv'
<1>. DEFINE me == a.request.me
            after == refresh(tree, me)
            parent == after.tree.nodes[me].parent
            shows == /\ a.request.op = "put" /\ a.request.url = getPath(tree, me)
                     /\ tree.nodes[me].name = DisplayName /\ parent # Null
            asks == {Ask("info", getPath(after.tree, parent), parent)}
            B == IF shows THEN SetToBag(asks) ELSE EmptyBag
            new == IF shows THEN asks ELSE {}
<1>1. /\ Handle(a, {"put", "paste", "post"}) /\ UNCHANGED dialog
      /\ Send(after.requests (+) B) /\ Becomes(after.tree)
  BY DEF WriteSucceeded
<1>2. a.request \in Pending /\ TreeInv(tree)
  BY DEF Pending, ExplorerInv
<1>3. me \in Objects(tree)
  <2>1. a.request.op \in {"put", "paste", "post"}
    BY <1>1 DEF Handle
  <2>. QED BY <1>2, <2>1, CalledFor
<1>. HIDE DEF me
<1>4. KeepsRow(tree, after.tree, me)
  BY <1>2, <1>3, RefreshProperties
<1>5. parent \in Objects(after.tree) \cup {Null}
  BY <1>3, <1>4 DEF KeepsRow, TreeInv, LinkInv
<1>6. ASSUME NEW r \in new
      PROVE  \E url, n : r = Ask("info", url, n) /\ n \in Objects(after.tree) \ {Null}
  BY <1>5
<1>7. B = SetToBag(new)
  BY DEF EmptyBag
<1>8. UNCHANGED <<db, selected, asked, dialog>> /\ BagToSet(answered') \subseteq BagToSet(answered)
  BY <1>1, BagFacts DEF Handle
<1>9. Send(refresh(tree, me).requests (+) SetToBag(new)) /\ Becomes(refresh(tree, me).tree)
  BY <1>1, <1>7
<1>10. \A r \in new : \E url, n : r = Ask("info", url, n)
                                  /\ n \in Objects(refresh(tree, me).tree) \ {Null}
  BY <1>6
<1>. HIDE DEF after, parent, shows, B, new
<1>. QED BY <1>3, <1>8, <1>9, <1>10, RefreshStep

LEMMA UnchangedTreeStep ==
    ASSUME ExplorerInv, BagToSet(answered') \subseteq BagToSet(answered),
           UNCHANGED <<db, selected, asked>>, dialog' = dialog \/ selected # Null,
           Becomes(tree),
           NEW new, BagToSet(sent') \subseteq BagToSet(sent) \cup new,
           \A r \in new : StaticInv(r) /\ r.me \in Objects(tree) \cup {Null} /\ r.op # "defs"
    PROVE  ExplorerInv'
<1>1. TreeInv(tree) /\ Keeps(tree, tree)
  BY KeepsItself DEF ExplorerInv
<1>. QED BY <1>1, HandleStep

LEMMA DeleteSucceededStep ==
    ASSUME ExplorerInv, NEW a \in BagToSet(answered), DeleteSucceeded(a)
    PROVE  ExplorerInv'
<1>. DEFINE me == a.request.me
            parent == tree.nodes[me].parent
            new == {}
<1>1. /\ Handle(a, {"delete", "cutDelete"}) /\ UNCHANGED dialog
      /\ IF parent = Null THEN UNCHANGED sent /\ Becomes(tree)
         ELSE Send(refresh(tree, parent).requests) /\ Becomes(refresh(tree, parent).tree)
  BY DEF DeleteSucceeded
<1>2. a.request \in Pending /\ LinkInv(tree)
  BY DEF Pending, ExplorerInv, TreeInv
<1>3. me \in Objects(tree)
  <2>1. a.request.op \in {"delete", "cutDelete"}
    BY <1>1 DEF Handle
  <2>. QED BY <1>2, <2>1, CalledFor
<1>. HIDE DEF me
<1>4. parent \in Objects(tree) \cup {Null}
  BY <1>2, <1>3 DEF LinkInv
<1>5. UNCHANGED <<db, selected, asked, dialog>> /\ BagToSet(answered') \subseteq BagToSet(answered)
  BY <1>1, BagFacts DEF Handle
<1>. HIDE DEF parent
<1>6. CASE parent = Null
  <2>1. BagToSet(sent') \subseteq BagToSet(sent) \cup new /\ Becomes(tree)
    BY <1>1, <1>6
  <2>2. \A r \in new : StaticInv(r) /\ r.me \in Objects(tree) \cup {Null} /\ r.op # "defs"
    OBVIOUS
  <2>. HIDE DEF new
  <2>. QED BY <1>5, <2>1, <2>2, UnchangedTreeStep
<1>7. CASE parent # Null
  <2>1. Send(refresh(tree, parent).requests) /\ Becomes(refresh(tree, parent).tree)
    BY <1>1, <1>7
  <2>2. \A r \in new : \E url, n : r = Ask("info", url, n)
                                  /\ n \in Objects(refresh(tree, parent).tree) \ {Null}
    OBVIOUS
  <2>3. parent \in Objects(tree) /\ new = {}
    BY <1>4, <1>7
  <2>. HIDE DEF new
  <2>. QED BY <1>5, <2>1, <2>2, <2>3, RefreshStep
<1>. QED BY <1>6, <1>7

\* The DELETE that completes a cut is for what the cut was for.
LEMMA CutCopiedStep ==
    ASSUME ExplorerInv, NEW a \in BagToSet(answered), CutCopied(a)
    PROVE  ExplorerInv'
<1>. DEFINE r == a.request
            d == [r EXCEPT !.op = "cutDelete"]
            new == {d}
<1>1. /\ Handle(a, {"cut"}) /\ UNCHANGED dialog /\ Send(SetToBag(new)) /\ Becomes(tree)
  BY DEF CutCopied
<1>2. r \in Pending
  BY DEF Pending
<1>3. RequestInv(r) /\ r.op = "cut"
  BY <1>1, <1>2 DEF ExplorerInv, Handle
<1>4. /\ UNCHANGED <<db, selected, asked>> /\ dialog' = dialog
      /\ BagToSet(answered') \subseteq BagToSet(answered)
  BY <1>1, BagFacts DEF Handle
<1>5. BagToSet(sent') \subseteq BagToSet(sent) \cup new
  <2>. DEFINE C == SetToBag(new)
  <2>1. sent' = sent (+) C /\ BagToSet(C) = new
    BY <1>1, BagFacts DEF Send
  <2>. HIDE DEF C, new
  <2>. QED BY <2>1, BagFacts
<1>6. /\ d.url = r.url /\ d.me = r.me /\ d.value = r.value /\ d.for = r.for
      /\ d.op = "cutDelete" \/ d.op = "cut"
  OBVIOUS
<1>. HIDE DEF d
<1>7. StaticInv(d) /\ d.me \in Objects(tree) \cup {Null} /\ d.op # "defs"
  BY <1>3, <1>6 DEF RequestInv, StaticInv, Writes, Ops
<1>8. \A s \in new : StaticInv(s) /\ s.me \in Objects(tree) \cup {Null} /\ s.op # "defs"
  BY <1>7
<1>. HIDE DEF new
<1>. QED BY <1>1, <1>4, <1>5, <1>8, UnchangedTreeStep

LEMMA NothingSentStep ==
    ASSUME ExplorerInv, BagToSet(answered') \subseteq BagToSet(answered),
           UNCHANGED <<db, selected, asked>>, dialog' = dialog \/ selected # Null,
           NEW t, TreeInv(t), Keeps(tree, t), Becomes(t),
           BagToSet(sent') \subseteq BagToSet(sent)
    PROVE  ExplorerInv'
<1>. DEFINE new == {}
<1>1. /\ BagToSet(sent') \subseteq BagToSet(sent) \cup new
      /\ \A r \in new : StaticInv(r) /\ r.me \in Objects(t) \cup {Null} /\ r.op # "defs"
  OBVIOUS
<1>. HIDE DEF new
<1>. QED BY <1>1, HandleStep

LEMMA QuietAnswerStep ==
    ASSUME ExplorerInv, NEW a \in BagToSet(answered),
           DefinitionsListed(a) \/ WasReset(a) \/ Failed(a)
    PROVE  ExplorerInv'
<1>1. TreeInv(tree) /\ Keeps(tree, tree)
  BY KeepsItself DEF ExplorerInv
<1>2. BagToSet(answered (-) SetToBag({a})) \subseteq BagToSet(answered)
  BY BagFacts
<1>3. CASE DefinitionsListed(a)
  <2>1. /\ UNCHANGED <<db, selected, asked>> /\ sent' = sent /\ Becomes(tree)
        /\ answered' = answered (-) SetToBag({a}) /\ a.request.op = "defs"
    BY <1>3 DEF DefinitionsListed, Handle
  <2>2. selected # Null
    BY <2>1 DEF ExplorerInv, RequestInv, Pending
  <2>. QED BY <1>1, <1>2, <2>1, <2>2, NothingSentStep
<1>4. CASE WasReset(a)
  <2>. DEFINE t == collapse(tree, dataRoot)
  <2>1. /\ UNCHANGED <<db, selected, asked>> /\ sent' = sent /\ dialog' = dialog
        /\ Becomes(t) /\ answered' = answered (-) SetToBag({a})
    BY <1>4 DEF WasReset, Handle
  <2>2. TreeInv(t) /\ Keeps(tree, t)
    BY <1>1, CollapseProperties DEF TreeInv, LinkInv, KeepsRow
  <2>. HIDE DEF t
  <2>. QED BY <1>2, <2>1, <2>2, NothingSentStep
<1>5. CASE Failed(a)
  <2>1. /\ UNCHANGED <<db, selected, asked>> /\ sent' = sent /\ dialog' = dialog
        /\ Becomes(tree) /\ answered' = answered (-) SetToBag({a})
    BY <1>5 DEF Failed
  <2>. QED BY <1>1, <1>2, <2>1, NothingSentStep
<1>. QED BY <1>3, <1>4, <1>5

LEMMA AnswersStep ==
    ASSUME ExplorerInv, Answers
    PROVE  ExplorerInv'
BY ExpandedStep, WriteSucceededStep, DeleteSucceededStep, CutCopiedStep, QuietAnswerStep
   DEF Answers

\* The requests that follow a list.
LEMMA FollowUpStep ==
    ASSUME ExplorerInv, NEW r \in BagToSet(sent), ConfirmedToExist(r) \/ InfoRefreshed(r)
    PROVE  ExplorerInv'
<1>1. TreeInv(tree) /\ Keeps(tree, tree) /\ DbInv /\ r \in Pending
  BY KeepsItself DEF ExplorerInv, Pending
<1>2. BagToSet(sent (-) SetToBag({r})) \subseteq BagToSet(sent)
  BY BagFacts
<1>3. /\ r.op \in {"exists", "info"}
      /\ UNCHANGED <<db, selected, asked>> /\ dialog' = dialog /\ answered' = answered
  BY DEF ConfirmedToExist, InfoRefreshed, FollowUp
<1>4. r.me \in Objects(tree)
  BY <1>1, <1>3, CalledFor
<1>5. NoInfo \in Texts /\ Writable \in Names \ {"bws"}
  BY DEF Texts, Names, Writable
<1>6. CASE sent' = sent (-) SetToBag({r}) /\ Becomes(tree)
  BY <1>1, <1>2, <1>3, <1>6, NothingSentStep
<1>7. CASE InfoRefreshed(r) /\ Exists(r.url)
  <2>. DEFINE data == Reply(TRUE, Info(r.url), NoInfo, {})
              t == Informed(tree, r.me, data)
  <2>1. sent' = sent (-) SetToBag({r}) /\ Becomes(t)
    BY <1>7 DEF InfoRefreshed
  <2>2. data.info \in Texts /\ data.writable \in Texts
    BY <1>1, <1>5, <1>7, DbTypes DEF Reply
  <2>. HIDE DEF data
  <2>3. TreeInv(t) /\ Keeps(tree, t)
    BY <1>1, <1>4, <2>2, InformedProperties
  <2>. HIDE DEF t
  <2>. QED BY <1>2, <1>3, <2>1, <2>3, NothingSentStep
<1>8. CASE ConfirmedToExist(r) /\ Exists(r.url)
  <2>. DEFINE t == add(tree, r.me, Writable, OK)
              s == CHOOSE n \in t.nodes[r.me].subs : t.nodes[n].name = Writable
              q == getPath(t, s)
              new == {Ask("info", q, s)}
  <2>1. sent' = sent (-) SetToBag({r}) (+) SetToBag(new) /\ Becomes(t)
    BY <1>8 DEF ConfirmedToExist
  <2>2. OK.info \in Texts /\ OK.writable \in Texts
    BY <1>5 DEF OK, Reply
  <2>3. /\ TreeInv(t) /\ Keeps(tree, t)
        /\ Fresh(tree) \in t.nodes[r.me].subs /\ t.nodes[Fresh(tree)].name = Writable
    BY <1>1, <1>4, <1>5, <2>2, AddProperties
  <2>. HIDE DEF t
  <2>4. s \in t.nodes[r.me].subs
    BY <2>3
  <2>. HIDE DEF s, q
  <2>5. s \in Objects(t) /\ s # Null
    <3>1. r.me \in Objects(t)
      BY <1>4, <2>3 DEF Keeps
    <3>. QED BY <2>3, <2>4, <3>1, TreeTypes DEF TreeInv, LinkInv
  <2>6. \A n \in new : StaticInv(n) /\ n.me \in Objects(t) \cup {Null} /\ n.op # "defs"
    BY <2>5, AskIsStatic
  <2>7. BagToSet(sent') \subseteq BagToSet(sent) \cup new
    <3>. DEFINE A == sent (-) SetToBag({r})
                C == SetToBag(new)
    <3>1. sent' = A (+) C /\ BagToSet(C) = new /\ BagToSet(A) \subseteq BagToSet(sent)
      BY <2>1, BagFacts
    <3>. HIDE DEF A, C, new
    <3>. QED BY <3>1, BagFacts
  <2>8. BagToSet(answered') \subseteq BagToSet(answered)
    BY <1>3
  <2>. HIDE DEF new
  <2>. QED BY <1>3, <2>1, <2>3, <2>6, <2>7, <2>8, HandleStep
<1>9. \/ sent' = sent (-) SetToBag({r}) /\ Becomes(tree)
      \/ InfoRefreshed(r) /\ Exists(r.url)
      \/ ConfirmedToExist(r) /\ Exists(r.url)
  BY DEF InfoRefreshed, ConfirmedToExist
<1>. QED BY <1>6, <1>7, <1>8, <1>9

LEMMA ServesStep ==
    ASSUME ExplorerInv, Serves
    PROVE  ExplorerInv'
BY ServeStep, FollowUpStep DEF Serves
-------------------------------------------------------------------------------
(* The user.                                                               *)

LEMMA ClickStep ==
    ASSUME ExplorerInv, UserActs, NEW t, TreeInv(t), Keeps(tree, t),
           Becomes(t) \/ (tree' = tree /\ t = tree),
           NEW new, BagToSet(sent') \subseteq BagToSet(sent) \cup new,
           \A r \in new : StaticInv(r) /\ r.me \in Objects(t) \cup {Null},
           Selects(t)
    PROVE  ExplorerInv'
<1>1. db' = db /\ answered' = answered
  BY DEF UserActs
<1>2. Pending' \subseteq Pending \cup new
  BY <1>1, PendingAfter
<1>3. DbInv' /\ \A a \in BagToSet(answered') : ReplyInv(a)
  BY <1>1 DEF ExplorerInv, DbInv
<1>. QED BY <1>2, <1>3, InvStep

LEMMA DialogSelects ==
    ASSUME ExplorerInv, dialog.edit \/ dialog.form # "none" \/ dialog.sure # "none"
    PROVE  selected \in Objects(tree) /\ selected # Null
BY DEF ExplorerInv, SelectedInv

\* The path of a write is that of the selected object, or for a PUT one below.
LEMMA WrittenPath ==
    ASSUME ExplorerInv, selected # Null, NEW op, NEW url, Within(url, <<"bws">>),
           \/ url = getPath(tree, selected)
           \/ op = "put" /\ \E name \in Names : url = Append(getPath(tree, selected), name)
    PROVE  url = asked \/ (op = "put" /\ Parent(url) = asked)
<1>. DEFINE q == getPath(tree, selected)
<1>1. /\ selected \in Objects(tree) /\ TreeInv(tree)
      /\ q = asked \/ Relative(q)
  BY DEF ExplorerInv, SelectedInv
<1>2. q \in Seq(Names) /\ Len(q) \in Nat \ {0}
  BY <1>1, PathProperties DEF TreeInv
<1>3. <<"bws">> \in Seq(Names) /\ Len(<<"bws">>) = 1 /\ <<"bws">>[1] = "bws"
  <2>1. "bws" \in Names
    BY DEF Names
  <2>. QED BY <2>1
<1>. HIDE DEF q
<1>4. \A p \in Seq(Names) : Within(p, <<"bws">>) => p[1] = "bws"
  <2>. DEFINE b == <<"bws">>
  <2>1. b \in Seq(Names) /\ Len(b) = 1 /\ b[1] = "bws"
    BY <1>3
  <2>. HIDE DEF b
  <2>2. \A p \in Seq(Names) : Within(p, b) => p[1] = "bws"
    <3>. SUFFICES ASSUME NEW p \in Seq(Names), Within(p, b) PROVE p[1] = "bws"
      OBVIOUS
    <3>1. \A i \in 1 .. Len(b) : p[i] = b[i]
      BY <2>1, WithinElements
    <3>. QED BY <2>1, <3>1
  <2>. QED BY <2>2 DEF b
<1>5. CASE url = q
  BY <1>1, <1>2, <1>4, <1>5 DEF Relative
<1>6. CASE op = "put" /\ \E name \in Names : url = Append(q, name)
  <2>1. PICK name \in Names : url = Append(q, name)
    BY <1>6
  <2>2. url \in Seq(Names) /\ url[1] = q[1] /\ Parent(url) = q
    <3>1. q # <<>> /\ Len(q) # 0
      BY <1>2
    <3>. QED BY <1>2, <2>1, <3>1, AppendedName
  <2>. QED BY <1>1, <1>4, <1>6, <2>2 DEF Relative
<1>. QED BY <1>5, <1>6 DEF q

LEMMA WriteStep ==
    ASSUME ExplorerInv, UserActs, selected # Null, NEW op \in Writes, NEW url,
           NEW value \in Texts, Write(op, url, value),
           \/ url = getPath(tree, selected)
           \/ op = "put" /\ \E name \in Names : url = Append(getPath(tree, selected), name)
    PROVE  ExplorerInv'
<1>. DEFINE r == Request(op, url, selected, value, asked)
            new == {r}
<1>1. Send(SetToBag(new)) /\ closeDialogs("none", EmptyBag) /\ Becomes(tree)
  BY DEF Write
<1>2. r.op = op /\ r.url = url /\ r.me = selected /\ r.value = value /\ r.for = asked
  BY DEF Request
<1>. HIDE DEF r
<1>3. StaticInv(r)
  <2>1. op \in Ops /\ selected # Null /\ value \in Texts
    BY DEF Writes, Ops
  <2>2. Within(url, <<"bws">>) => url = asked \/ (op = "put" /\ Parent(url) = asked)
    BY WrittenPath
  <2>. QED BY <1>2, <2>1, <2>2 DEF StaticInv
<1>4. op # "defs"
  BY DEF Writes
<1>5. BagToSet(sent') \subseteq BagToSet(sent) \cup new
  <2>. DEFINE C == SetToBag(new)
  <2>1. sent' = sent (+) C /\ BagToSet(C) = new
    BY <1>1, BagFacts DEF Send
  <2>. HIDE DEF C, new
  <2>2. BagToSet(sent (+) C) = BagToSet(sent) \cup BagToSet(C)
    BY BagFacts
  <2>. QED BY <2>1, <2>2
<1>6. Pending' \subseteq Pending \cup new
  <2>1. BagToSet(answered') \subseteq BagToSet(answered)
    BY DEF UserActs
  <2>. HIDE DEF new
  <2>. QED BY <1>5, <2>1, PendingAfter
<1>7. Selects(tree)
  <2>1. \A s \in BagToSet(EmptyBag) : s.op = "defs" => selected # Null
    OBVIOUS
  <2>2. \A s \in Pending' : s.op = "defs" => s \in Pending \cup BagToSet(EmptyBag)
    BY <1>2, <1>4, <1>6
  <2>. QED BY <1>1, <2>1, <2>2, CloseSelects
<1>8. \A s \in new : StaticInv(s) /\ s.me \in Objects(tree) \cup {Null}
  BY <1>2, <1>3 DEF ExplorerInv, SelectedInv
<1>9. TreeInv(tree) /\ Keeps(tree, tree)
  BY KeepsItself DEF ExplorerInv
<1>. HIDE DEF new
<1>. QED BY <1>1, <1>5, <1>7, <1>8, <1>9, ClickStep

\* The handlers that write to the selected object, or below it.
LEMMA FormStep ==
    ASSUME ExplorerInv, UserActs, selected # Null,
           PostUnder \/ PutUnder \/ doDelete \/ doCut \/ doChange
    PROVE  ExplorerInv'
<1>. DEFINE q == getPath(tree, selected)
<1>1. NoInfo \in Texts /\ "true" \in Texts /\ "false" \in Texts
      /\ Writable \in Names /\ DisplayName \in Names
  BY DEF Texts, Names
<1>2. /\ "post" \in Writes /\ "put" \in Writes /\ "delete" \in Writes /\ "cut" \in Writes
  BY DEF Writes
<1>3. CASE PostUnder
  <2>1. Write("post", q, NoInfo)
    BY <1>3 DEF PostUnder
  <2>. QED BY <1>1, <1>2, <2>1, WriteStep
<1>4. CASE PutUnder
  <2>1. PICK name \in {Writable, DisplayName}, v \in Values : Write("put", Append(q, name), v)
    BY <1>4 DEF PutUnder
  <2>2. v \in Texts /\ name \in Names
    BY <1>1 DEF Values
  <2>. QED BY <1>2, <2>1, <2>2, WriteStep
<1>5. CASE doDelete
  <2>1. Write("delete", q, NoInfo)
    BY <1>5 DEF doDelete
  <2>. QED BY <1>1, <1>2, <2>1, WriteStep
<1>6. CASE doCut
  <2>1. Write("cut", q, NoInfo)
    BY <1>6 DEF doCut
  <2>. QED BY <1>1, <1>2, <2>1, WriteStep
<1>7. CASE doChange
  <2>1. PICK v \in Values : Write("put", q, v)
    BY <1>7 DEF doChange
  <2>2. v \in Texts
    BY <1>1 DEF Values
  <2>. QED BY <1>2, <2>1, <2>2, WriteStep
<1>. QED BY <1>3, <1>4, <1>5, <1>6, <1>7

LEMMA SureStep ==
    ASSUME ExplorerInv, UserActs, selected # Null, NEW action, Sure(action)
    PROVE  ExplorerInv'
<1>. DEFINE new == {}
<1>1. tree' = tree /\ selected' = selected /\ sent' = sent /\ asked' = asked /\ answered' = answered
  BY DEF Sure, UserActs
<1>2. Selects(tree)
  <2>1. Pending' = Pending
    BY <1>1 DEF Pending
  <2>. QED BY <1>1, <2>1, SameSelects
<1>3. /\ BagToSet(sent') \subseteq BagToSet(sent) \cup new
      /\ \A r \in new : StaticInv(r) /\ r.me \in Objects(tree) \cup {Null}
  BY <1>1
<1>4. TreeInv(tree) /\ Keeps(tree, tree)
  BY KeepsItself DEF ExplorerInv
<1>. HIDE DEF new
<1>. QED BY <1>1, <1>2, <1>3, <1>4, ClickStep

LEMMA WritesStep ==
    ASSUME ExplorerInv,
           \/ createMetadataButtonHandler \/ createChildButtonHandler
           \/ createInstanceButtonHandler \/ createCSMLButtonHandler
           \/ createDefinitionsButtonHandler
           \/ changeValueButtonHandler \/ deleteButtonHandler \/ cutButtonHandler
           \/ areYouSureYes \/ pasteOntoButtonHandler \/ pasteUnderButtonHandler
    PROVE  ExplorerInv'
<1>. DEFINE q == getPath(tree, selected)
<1>1. NoInfo \in Texts /\ "true" \in Texts /\ "false" \in Texts
      /\ "post" \in Writes /\ "put" \in Writes /\ "paste" \in Writes
  BY DEF Texts, Writes
<1>2. \A button : InEdit(button) => UserActs /\ selected # Null
  BY DialogSelects DEF InEdit
<1>3. \A form \in {"metadata", "new", "value"} : InForm(form) => UserActs /\ selected # Null
  BY DialogSelects DEF InForm
<1>4. CASE \/ createMetadataButtonHandler \/ createChildButtonHandler
           \/ createInstanceButtonHandler \/ createCSMLButtonHandler
           \/ createDefinitionsButtonHandler
  <2>1. UserActs /\ selected # Null /\ (PostUnder \/ PutUnder)
    BY <1>3, <1>4 DEF createMetadataButtonHandler, createChildButtonHandler,
       createInstanceButtonHandler, createCSMLButtonHandler, createDefinitionsButtonHandler
  <2>. QED BY <2>1, FormStep
<1>5. CASE changeValueButtonHandler
  <2>1. UserActs /\ selected # Null
    BY <1>3, <1>5 DEF changeValueButtonHandler
  <2>2. Sure("change") \/ Write("put", q, "true") \/ doChange
    BY <1>5 DEF changeValueButtonHandler
  <2>. QED BY <1>1, <2>1, <2>2, SureStep, WriteStep, FormStep
<1>6. CASE deleteButtonHandler \/ cutButtonHandler
  <2>1. UserActs /\ selected # Null
    BY <1>2, <1>6 DEF deleteButtonHandler, cutButtonHandler
  <2>2. Sure("delete") \/ Sure("cut") \/ doDelete \/ doCut
    BY <1>6 DEF deleteButtonHandler, cutButtonHandler
  <2>. QED BY <2>1, <2>2, SureStep, FormStep
<1>7. CASE areYouSureYes
  <2>1. UserActs /\ dialog.sure # "none"
    BY <1>7 DEF areYouSureYes
  <2>2. selected # Null
    BY <2>1, DialogSelects
  <2>3. doDelete \/ doCut \/ Write("put", q, "false")
    BY <1>7 DEF areYouSureYes
  <2>. QED BY <1>1, <2>1, <2>2, <2>3, WriteStep, FormStep
<1>8. CASE pasteOntoButtonHandler
  <2>1. UserActs /\ selected # Null /\ Write("paste", q, NoInfo)
    BY <1>2, <1>8 DEF pasteOntoButtonHandler
  <2>. QED BY <1>1, <2>1, WriteStep
<1>9. CASE pasteUnderButtonHandler
  <2>1. UserActs /\ selected # Null /\ Write("post", q, NoInfo)
    BY <1>2, <1>9 DEF pasteUnderButtonHandler
  <2>. QED BY <1>1, <2>1, WriteStep
<1>. QED BY <1>4, <1>5, <1>6, <1>7, <1>8, <1>9

\* Dialogs that open or close, and nothing else.
LEMMA DialogStep ==
    ASSUME ExplorerInv, UserActs, Becomes(tree) \/ tree' = tree, sent' = sent,
           NEW form, closeDialogs(form, EmptyBag), form # "none" => selected # Null
    PROVE  ExplorerInv'
<1>. DEFINE new == {}
<1>1. Pending' = Pending
  BY DEF Pending, UserActs
<1>2. Selects(tree)
  <2>1. \A s \in BagToSet(EmptyBag) : s.op = "defs" => selected # Null
    BY BagFacts
  <2>. QED BY <1>1, <2>1, CloseSelects
<1>3. /\ BagToSet(sent') \subseteq BagToSet(sent) \cup new
      /\ \A r \in new : StaticInv(r) /\ r.me \in Objects(tree) \cup {Null}
  OBVIOUS
<1>4. TreeInv(tree) /\ Keeps(tree, tree)
  BY KeepsItself DEF ExplorerInv
<1>. HIDE DEF new
<1>. QED BY <1>2, <1>3, <1>4, ClickStep

LEMMA TreeButtonStep ==
    ASSUME ExplorerInv, NEW p \in Paths, treeButtonHandler(p)
    PROVE  ExplorerInv'
<1>. DEFINE n == tree.dom[p][1].node
            after == Handled(tree, p)
            t == after.tree
            B == after.requests
            new == {Ask("list", p, n)}
<1>1. /\ UserActs /\ tree.dom[p] # <<>> /\ tree.dom[p][1].handlers > 0
      /\ closeDialogs("none", EmptyBag) /\ Send(B) /\ Becomes(t)
  BY Zenon DEF treeButtonHandler, Handled, IsShown
<1>2. TreeInv(tree)
  BY DEF ExplorerInv
<1>3. n \in Objects(tree) /\ TreeInv(t) /\ Keeps(tree, t) /\ BagToSet(B) \subseteq new
  BY <1>1, <1>2, HandledProperties
<1>4. n # Null /\ n \in Objects(t)
  BY <1>2, <1>3, TreeTypes DEF TreeInv, Keeps
<1>. HIDE DEF n, after
<1>5. \A r \in new : StaticInv(r) /\ r.me \in Objects(t) \cup {Null} /\ r.op # "defs"
  BY <1>4, AskIsStatic
<1>. HIDE DEF t, B
<1>6. BagToSet(sent') \subseteq BagToSet(sent) \cup new
  <2>1. BagToSet(sent (+) B) = BagToSet(sent) \cup BagToSet(B)
    BY BagFacts
  <2>. QED BY <1>1, <1>3, <2>1 DEF Send
<1>7. Pending' \subseteq Pending \cup new
  <2>1. BagToSet(answered') \subseteq BagToSet(answered)
    BY <1>1 DEF UserActs
  <2>. HIDE DEF new
  <2>. QED BY <1>6, <2>1, PendingAfter
<1>8. Selects(t)
  <2>1. \A s \in BagToSet(EmptyBag) : s.op = "defs" => selected # Null
    BY BagFacts
  <2>2. \A s \in Pending' : s.op = "defs" => s \in Pending \cup BagToSet(EmptyBag)
    BY <1>5, <1>7
  <2>. HIDE DEF new
  <2>. QED BY <1>1, <2>1, <2>2, CloseSelects
<1>. HIDE DEF new
<1>. QED BY <1>1, <1>3, <1>5, <1>6, <1>8, ClickStep

LEMMA EditButtonStep ==
    ASSUME ExplorerInv, NEW p \in Paths, editButtonHandler(p)
    PROVE  ExplorerInv'
<1>. DEFINE new == {}
<1>1. /\ UserActs /\ tree.dom[p] # <<>> /\ tree.dom[p][1].handlers > 0
      /\ selected' = tree.dom[p][1].node /\ asked' = p /\ sent' = sent /\ Becomes(tree)
  BY DEF editButtonHandler, IsShown
<1>2. TreeInv(tree) /\ Keeps(tree, tree)
  BY KeepsItself DEF ExplorerInv
<1>3. 1 \in 1 .. Len(tree.dom[p])
  BY <1>1, <1>2, RowListTypes DEF TreeInv
<1>4. selected' # Null /\ selected' \in Objects(tree) /\ getPath(tree, selected') = asked'
  BY <1>1, <1>2, <1>3 DEF TreeInv, RowsInv
<1>5. Selects(tree)
  BY <1>4 DEF Selects
<1>6. /\ BagToSet(sent') \subseteq BagToSet(sent) \cup new
      /\ \A r \in new : StaticInv(r) /\ r.me \in Objects(tree) \cup {Null}
  BY <1>1
<1>. HIDE DEF new
<1>. QED BY <1>1, <1>2, <1>5, <1>6, ClickStep

\* A request that is for no object.
LEMMA AskStep ==
    ASSUME ExplorerInv, createInstanceDialogButtonHandler \/ resetDatabase
    PROVE  ExplorerInv'
<1>1. PICK op \in {"defs", "reset"} :
        /\ UserActs /\ tree' = tree /\ Send(SetToBag({Ask(op, <<>>, Null)}))
        /\ \/ op = "defs" /\ selected # Null /\ closeDialogs("none", SetToBag({Ask(op, <<>>, Null)}))
           \/ op = "reset" /\ UNCHANGED <<selected, dialog, asked>>
  <2>1. CASE createInstanceDialogButtonHandler
    BY <2>1, DialogSelects DEF createInstanceDialogButtonHandler, InEdit
  <2>2. CASE resetDatabase
    BY <2>2 DEF resetDatabase
  <2>. QED BY <2>1, <2>2
<1>. DEFINE r == Ask(op, <<>>, Null)
            new == {r}
            B == SetToBag(new)
<1>2. r.op = op /\ r.me = Null /\ StaticInv(r)
  BY DEF Ask, Request, StaticInv, Ops, Writes, Texts
<1>. HIDE DEF r
<1>3. Send(B) /\ BagToSet(B) = new
  BY <1>1, BagFacts DEF r
<1>4. BagToSet(answered') \subseteq BagToSet(answered)
  BY <1>1 DEF UserActs
<1>5. BagToSet(sent') \subseteq BagToSet(sent) \cup new
  <2>. HIDE DEF B, new
  <2>1. BagToSet(sent (+) B) = BagToSet(sent) \cup BagToSet(B)
    BY BagFacts
  <2>. QED BY <1>3, <2>1 DEF Send
<1>6. Pending' \subseteq Pending \cup new
  <2>. HIDE DEF new
  <2>. QED BY <1>4, <1>5, PendingAfter
<1>7. Selects(tree)
  <2>1. CASE op = "defs"
    <3>1. selected # Null /\ closeDialogs("none", B)
      BY <1>1, <2>1 DEF r
    <3>2. \A s \in Pending' : s.op = "defs" => s \in Pending \cup BagToSet(B)
      BY <1>3, <1>6
    <3>. HIDE DEF B, new
    <3>. QED BY <3>1, <3>2, CloseSelects
  <2>2. CASE op = "reset"
    <3>1. \A s \in Pending' : s.op = "defs" => s \in Pending
      BY <1>2, <1>6, <2>2
    <3>. QED BY <1>1, <2>2, <3>1, SameSelects
  <2>. QED BY <2>1, <2>2
<1>8. TreeInv(tree) /\ Keeps(tree, tree)
  BY KeepsItself DEF ExplorerInv
<1>9. \A s \in new : StaticInv(s) /\ s.me \in Objects(tree) \cup {Null}
  BY <1>2
<1>. HIDE DEF new, B
<1>. QED BY <1>1, <1>5, <1>7, <1>8, <1>9, ClickStep

\* A page that has just been loaded.
LEMMA RootedInv == TreeInv(Rooted)
<1>. DEFINE row   == [NewRow(NoInfo) EXCEPT !.node = dataRoot, !.handlers = 1]
            node  == NewNode("bws", Null, NoInfo, NoInfo)
            nodes == [n \in {dataRoot} |-> node]
            dom   == [p \in Paths |-> IF p = <<"bws">> THEN <<row>> ELSE <<>>]
            t     == Rooted
<1>1. t = [nodes |-> nodes, dom |-> dom]
  BY DEF Rooted
<1>. HIDE DEF t
<1>2. dataRoot = 1 /\ Null = 0
  BY DEF dataRoot, Null
<1>3. NoInfo \in Texts /\ "+" \in Texts /\ "bws" \in Names
  BY DEF Texts, Names
<1>4. /\ node \in Nodes /\ node.name = "bws" /\ node.parent = Null /\ node.subs = {}
      /\ nodes \in [{dataRoot} -> Nodes]
  BY <1>2, <1>3 DEF NewNode, Nodes
<1>5. row \in Rows /\ row.node = dataRoot /\ row.handlers = 1
  BY <1>2, <1>3 DEF NewRow, Rows
<1>. HIDE DEF row, node
<1>6. dom \in [Paths -> Seq(Rows)]
  BY <1>5
<1>7. /\ t.nodes = nodes /\ t.dom = dom /\ Objects(t) = {dataRoot}
      /\ t.nodes[dataRoot] = node
  BY <1>1 DEF Objects
<1>8. t \in Trees
  <2>. DEFINE D == {dataRoot}
  <2>1. D \in SUBSET (Nat \ {Null}) /\ nodes \in [D -> Nodes]
    BY <1>2, <1>4
  <2>. HIDE DEF D, nodes, dom
  <2>. QED BY <1>1, <1>6, <2>1, MakeTree
<1>. DEFINE f == [n \in {dataRoot} |-> <<"bws">>]
<1>9. IsRoute(t, f)
  <2>1. f \in [{dataRoot} -> Seq(Names)]
    BY <1>3
  <2>. QED BY <1>4, <1>7, <2>1 DEF IsRoute
<1>10. LinkInv(t)
  <2>1. IsFiniteSet({dataRoot})
    BY FS_Singleton
  <2>2. \E g : IsRoute(t, g)
    BY <1>9
  <2>. QED BY <1>4, <1>7, <2>1, <2>2 DEF LinkInv
<1>11. getPath(t, dataRoot) = <<"bws">>
  <2>1. dataRoot \in Objects(t) /\ t.nodes[dataRoot].parent = Null
        /\ t.nodes[dataRoot].name = "bws"
    BY <1>4, <1>7
  <2>2. t.nodes[dataRoot].parent = Null => getPath(t, dataRoot) = <<t.nodes[dataRoot].name>>
    BY <1>8, <1>10, <2>1, PathProperties
  <2>. QED BY <2>1, <2>2
<1>12. RowsInv(t)
  <2>. SUFFICES ASSUME NEW p \in Paths
                PROVE  /\ \A i \in 1 .. Len(t.dom[p]) : LET o == t.dom[p][i] IN
                            /\ o.node # Null => /\ i = 1 /\ o.node \in Objects(t)
                                                /\ getPath(t, o.node) = p
                            /\ o.handlers > 0 => o.node # Null
                       /\ Len(p) > 1 /\ t.dom[p] # <<>> => t.dom[Parent(p)] # <<>>
    BY DEF RowsInv
  <2>1. CASE p = <<"bws">>
    <3>1. t.dom[p] = <<row>> /\ Len(p) = 1
      BY <1>7, <2>1
    <3>2. Len(<<row>>) = 1 /\ <<row>>[1] = row
      OBVIOUS
    <3>. QED BY <1>2, <1>5, <1>7, <1>11, <2>1, <3>1, <3>2
  <2>2. CASE p # <<"bws">>
    <3>1. t.dom[p] = <<>>
      BY <1>7, <2>2
    <3>. QED BY <3>1
  <2>. QED BY <2>1, <2>2
<1>. QED BY <1>8, <1>10, <1>12 DEF TreeInv, t

\* Nothing is under way, and nothing selected.
LEMMA FreshPage ==
    ASSUME tree = Rooted, selected = Null, dialog = Closed, DbInv,
           sent = EmptyBag, answered = EmptyBag
    PROVE  ExplorerInv
<1>1. Pending = {} /\ BagToSet(answered) = {}
  BY BagFacts DEF Pending
<1>2. TreeInv(tree)
  BY RootedInv
<1>3. SelectedInv
  BY DEF SelectedInv, Closed
<1>. QED BY <1>1, <1>2, <1>3 DEF ExplorerInv

LEMMA ReloadStep ==
    ASSUME ExplorerInv, Reload
    PROVE  ExplorerInv'
<1>1. DbInv'
  BY DEF ExplorerInv, DbInv, Reload
<1>2. /\ tree' = Rooted /\ selected' = Null /\ dialog' = Closed
      /\ sent' = EmptyBag /\ answered' = EmptyBag
  BY DEF Reload, Quiet
<1>3. Pending' = {} /\ BagToSet(answered') = {}
  BY <1>2, BagFacts DEF Pending
<1>4. TreeInv(tree')
  BY <1>2, RootedInv
<1>5. SelectedInv'
  BY <1>2 DEF SelectedInv, Closed
<1>. QED BY <1>1, <1>3, <1>4, <1>5 DEF ExplorerInv

LEMMA ClicksStep ==
    ASSUME ExplorerInv, Clicks
    PROVE  ExplorerInv'
<1>1. CASE \E p \in Paths : treeButtonHandler(p) \/ editButtonHandler(p)
  BY <1>1, TreeButtonStep, EditButtonStep
<1>2. CASE OpenForm("onto", "metadata") \/ OpenForm("under", "new") \/ OpenForm("value", "value")
  <2>1. \E form : UserActs /\ selected # Null /\ sent' = sent /\ tree' = tree
                  /\ closeDialogs(form, EmptyBag)
    BY <1>2, DialogSelects DEF OpenForm, InEdit
  <2>. QED BY <2>1, DialogStep
<1>3. CASE createInstanceDialogButtonHandler \/ resetDatabase
  BY <1>3, AskStep
<1>4. CASE areYouSureNo
  <2>1. UserActs /\ sent' = sent /\ closeDialogs("none", EmptyBag) /\ Becomes(tree)
    BY <1>4 DEF areYouSureNo
  <2>. QED BY <2>1, DialogStep
<1>5. CASE \/ createMetadataButtonHandler \/ createChildButtonHandler
           \/ createInstanceButtonHandler \/ createCSMLButtonHandler
           \/ createDefinitionsButtonHandler
           \/ changeValueButtonHandler \/ deleteButtonHandler \/ cutButtonHandler
           \/ areYouSureYes \/ pasteOntoButtonHandler \/ pasteUnderButtonHandler
  BY <1>5, WritesStep
<1>6. CASE Reload
  BY <1>6, ReloadStep
<1>. QED BY <1>1, <1>2, <1>3, <1>4, <1>5, <1>6 DEF Clicks
-------------------------------------------------------------------------------
(* The theorems.                                                           *)

LEMMA ExplorerInit == Init => ExplorerInv
<1>. SUFFICES ASSUME Init PROVE ExplorerInv
  OBVIOUS
<1>1. DbInv
  BY DatabasesAssumption DEF Init, DbInv, Texts
<1>. QED BY <1>1, FreshPage DEF Init

LEMMA ExplorerStep == ExplorerInv /\ [Next]_vars => ExplorerInv'
<1>. SUFFICES ASSUME ExplorerInv, [Next]_vars PROVE ExplorerInv'
  OBVIOUS
<1>1. CASE Clicks
  BY <1>1, ClicksStep
<1>2. CASE Serves
  BY <1>2, ServesStep
<1>3. CASE Answers
  BY <1>3, AnswersStep
<1>4. CASE UNCHANGED vars
  <2>1. /\ tree' = tree /\ db' = db /\ selected' = selected /\ asked' = asked
        /\ dialog' = dialog /\ sent' = sent /\ answered' = answered
    BY <1>4 DEF vars
  <2>2. Pending' = Pending
    BY <2>1 DEF Pending
  <2>3. DbInv' /\ SelectedInv' /\ TreeInv(tree')
    BY <2>1 DEF ExplorerInv, DbInv, SelectedInv
  <2>4. \A r \in Pending' : RequestInv(r)'
    BY <2>1, <2>2 DEF ExplorerInv, RequestInv
  <2>5. \A a \in BagToSet(answered') : ReplyInv(a)'
    BY <2>1 DEF ExplorerInv, ReplyInv
  <2>. QED BY <2>3, <2>4, <2>5 DEF ExplorerInv
<1>. QED BY <1>1, <1>2, <1>3, <1>4 DEF Next

THEOREM ExplorerInvariant == Spec => []ExplorerInv
BY ExplorerInit, ExplorerStep, PTL DEF Spec

\* However clicks, answers and refreshes follow each other, for any tree of
\* data and any number of requests under way: parents, subs, rows, callbacks
\* and the selection refer to objects that exist, and no two subs of an object
\* have the same name (what add() of playground.js sees to).
THEOREM ExplorerTypes == Spec => []TypeOK
<1>1. ExplorerInv => TypeOK
  <2>. SUFFICES ASSUME ExplorerInv PROVE TypeOK
    OBVIOUS
  <2>1. /\ tree \in Trees /\ LinkInv(tree) /\ RowsInv(tree) /\ DOMAIN db \subseteq Paths
        /\ selected \in Objects(tree) \cup {Null}
    BY DEF ExplorerInv, TreeInv, DbInv, SelectedInv
  <2>2. \A r \in Pending : r.op \in Ops /\ r.me \in DOMAIN tree.nodes \cup {Null}
    BY DEF ExplorerInv, RequestInv, Objects
  <2>3. \A n \in DOMAIN tree.nodes : LET o == tree.nodes[n] IN
          /\ {o.parent} \ {Null} \subseteq DOMAIN tree.nodes /\ o.subs \subseteq DOMAIN tree.nodes
          /\ \A s, u \in o.subs : tree.nodes[s].name = tree.nodes[u].name => s = u
    BY <2>1 DEF LinkInv, Objects
  <2>4. \A p \in Paths : \A i \in 1 .. Len(tree.dom[p]) :
          tree.dom[p][i].node \in DOMAIN tree.nodes \cup {Null}
    BY <2>1 DEF RowsInv, Objects
  <2>. QED BY <2>1, <2>2, <2>3, <2>4 DEF TypeOK, Objects
<1>. QED BY <1>1, ExplorerInvariant, PTL

\* What the page writes is the data of the row whose pencil was clicked, or new
\* metadata below it; or it goes to a path that the server does not have: the
\* handlers of playground.js take the path of g_selectedNode when they run.
THEOREM PageWritesWhereAsked == Spec => []WritesWhereAsked
<1>1. ExplorerInv => WritesWhereAsked
  BY DEF ExplorerInv, RequestInv, WritesWhereAsked, Writes
<1>. QED BY <1>1, ExplorerInvariant, PTL

\* $("#button" + path) finds the first row with a path, which is bound to an
\* object with that path, however often rows were added and removed.
THEOREM ButtonsOfRows == Spec => []ButtonsActOnTheirRow
<1>1. ExplorerInv => ButtonsActOnTheirRow
  <2>. SUFFICES ASSUME ExplorerInv, NEW p \in Paths, tree.dom[p] # <<>>,
                       tree.dom[p][1].node # Null
                PROVE  getPath(tree, tree.dom[p][1].node) = p
    BY DEF ButtonsActOnTheirRow, IsShown
  <2>1. tree \in Trees /\ RowsInv(tree)
    BY DEF ExplorerInv, TreeInv
  <2>2. 1 \in 1 .. Len(tree.dom[p])
    BY <2>1, RowListTypes
  <2>. QED BY <2>1, <2>2 DEF RowsInv
<1>. QED BY <1>1, ExplorerInvariant, PTL
===============================================================================
