------------------------------ MODULE PageTree ------------------------------
(***************************************************************************)
(* The tree of the playground's data explorer: the JavaScript Node objects *)
(* and the list items (rows) that show them, as playground.js keeps them.  *)
(*                                                                         *)
(* The two are tied by nothing but the path: a row's id is made of the     *)
(* path of its node, several rows can have the same id, and $("#id") finds *)
(* the first of them. A node knows its path only through its parents, and  *)
(* remove() cuts that link. A node that was cut off has a relative path,   *)
(* which the browser resolves under /ui and the server does not serve.     *)
(*                                                                         *)
(* A tree is a record: nodes, a function of the objects that exist, and    *)
(* dom, for every path the rows with its id, the first one first. The      *)
(* operators are the methods of Node, as functions from tree to tree.      *)
(***************************************************************************)
EXTENDS Naturals, Sequences, FiniteSets, FiniteSetsExt

CONSTANT Paths  \* the paths that can exist on the server: sequences of names
                \* that start with "bws" (the name of dataRoot)

\* ("bws" stands for serverRoot and dataRoot, "/bws" with its slash: the name
\* of no other node has one.)
ASSUME PathsAssumption ==
    /\ Paths \subseteq Seq(STRING) /\ IsFiniteSet(Paths)
    /\ <<"bws">> \in Paths
    /\ \A p \in Paths :
         /\ Len(p) > 0 /\ \A i \in 1 .. Len(p) : p[i] = "bws" <=> i = 1
         /\ Len(p) > 1 => SubSeq(p, 1, Len(p) - 1) \in Paths

Parent(p) == SubSeq(p, 1, Len(p) - 1)
Within(p, q) == Len(p) >= Len(q) /\ SubSeq(p, 1, Len(q)) = q  \* p is q or below it
Children(p) == {q \in Paths : Len(q) = Len(p) + 1 /\ Within(q, p)}
NameIn(p) == p[Len(p)]

\* The function f with x mapped to y.
With(x, y, f) == [z \in {x} \cup DOMAIN f |-> IF z = x THEN y ELSE f[z]]

dataRoot == 1
Null     == 0
NoInfo   == ""       \* nothing known: the property is null in the page

\* The fields of a Node that the model tells apart: info is what its row shows
\* (a value, or the display name), writable is its own flag.
NewNode(name, parent, info, writable) ==
    [name |-> name, parent |-> parent, subs |-> {}, info |-> info, writable |-> writable]

\* A row as add() makes it: closed, its buttons not bound yet.
NewRow(info) == [text |-> "+", info |-> info, node |-> Null, handlers |-> 0]

Rooted == [nodes |-> [n \in {dataRoot} |-> NewNode("bws", Null, NoInfo, NoInfo)],
           dom   |-> [p \in Paths |->
                        IF p = <<"bws">>
                        THEN << [NewRow(NoInfo) EXCEPT !.node = dataRoot, !.handlers = 1] >>
                        ELSE <<>>]]

getPath(t, n) ==
    LET path[m \in DOMAIN t.nodes] ==
            IF t.nodes[m].parent = Null THEN <<t.nodes[m].name>>
            ELSE Append(path[t.nodes[m].parent], t.nodes[m].name)
    IN path[n]

isWritable(t, n) ==
    LET writable[m \in DOMAIN t.nodes] ==
            IF t.nodes[m].writable # NoInfo THEN t.nodes[m].writable = "true"
            ELSE t.nodes[m].parent # Null /\ writable[t.nodes[m].parent]
    IN writable[n]

IsShown(t, p) == p \in Paths /\ t.dom[p] # <<>>

\* $("#button" + path).html(text), and $("#info" + path).html(...).
SetText(t, p, text) == IF IsShown(t, p) THEN [t EXCEPT !.dom[p][1].text = text] ELSE t
SetRowInfo(t, p, info) == IF IsShown(t, p) THEN [t EXCEPT !.dom[p][1].info = info] ELSE t

\* What the answer does not mention keeps its old value.
setInfoFrom(t, n, data) ==
    LET o == t.nodes[n]
    IN [t EXCEPT !.nodes[n] =
          [o EXCEPT !.info     = IF data.info = NoInfo THEN o.info ELSE data.info,
                    !.writable = IF data.writable = NoInfo THEN o.writable ELSE data.writable]]

Fresh(t) == CHOOSE n \in 1 .. Cardinality(DOMAIN t.nodes) + 1 : n \notin DOMAIN t.nodes

\* add(), had the object with the same name stayed in its parent.
addToList(t, me, name, data) ==
    LET sub   == Fresh(t)
        path  == Append(getPath(t, me), name)
        nodes == With(sub, NewNode(name, me, data.info, data.writable),
                      [t.nodes EXCEPT ![me].subs = @ \cup {sub}])
        rows  == Append(t.dom[path], NewRow(data.info))
    IN [nodes |-> nodes,
        dom   |-> IF path \notin Paths \/ ~IsShown(t, Parent(path)) THEN t.dom
                  ELSE [t.dom EXCEPT ![path] =
                          [rows EXCEPT ![1].node = sub, ![1].handlers = @ + 1]]]

\* The new object takes the place of one with its name; the new row is put
\* after the rows that are there, and the handlers go to the first of them.
add(t, me, name, data) ==
    LET sub   == Fresh(t)
        path  == Append(getPath(t, me), name)
        nodes == With(sub, NewNode(name, me, data.info, data.writable),
                      [t.nodes EXCEPT ![me].subs =
                           {s \in @ : t.nodes[s].name # name} \cup {sub}])
        rows  == Append(t.dom[path], NewRow(data.info))
    IN [nodes |-> nodes,
        dom   |-> IF path \notin Paths \/ ~IsShown(t, Parent(path)) THEN t.dom
                  ELSE [t.dom EXCEPT ![path] =
                          [rows EXCEPT ![1].node = sub, ![1].handlers = @ + 1]]]

\* Removing a row removes the rows inside it, which are all below the first
\* row of their parent.
RemoveRow(dom, path) ==
    [p \in Paths |-> IF p = path THEN Tail(dom[p])
                     ELSE IF Within(p, path) THEN <<>>
                     ELSE dom[p]]

\* remove(), had it cut the link to the parent before it looked for the row.
removeCutFirst(t, me, sub) ==
    LET u    == [t EXCEPT !.nodes[sub].parent = Null]
        path == getPath(u, sub)
        dom  == IF IsShown(t, path) THEN RemoveRow(t.dom, path) ELSE t.dom
    IN [dom   |-> dom,
        nodes |-> [t.nodes EXCEPT ![sub].parent = Null, ![me].subs = @ \ {sub}]]

remove(t, me, sub) ==
    LET path == getPath(t, sub)
        dom  == IF IsShown(t, path) THEN RemoveRow(t.dom, path) ELSE t.dom
    IN [dom   |-> dom,
        nodes |-> [t.nodes EXCEPT ![sub].parent = Null, ![me].subs = @ \ {sub}]]

removeAll(t, me) ==
    LET removed(sub, u) == remove(u, me, sub)
    IN  FoldSet(removed, t, t.nodes[me].subs)

collapse(t, me) == SetText(removeAll(t, me), getPath(t, me), "+")

\* The button says "-" before the server has answered.
Opened(t, me) == SetText(t, getPath(t, me), "-")

\* Objects that nothing refers to are gone. held: the objects that handlers,
\* callbacks and rows refer to.
Reachable(t, held) ==
    LET Near(S) == S \cup {t.nodes[n].parent : n \in S} \cup UNION {t.nodes[n].subs : n \in S}
        reach[i \in 0 .. Cardinality(DOMAIN t.nodes)] ==
            IF i = 0 THEN held ELSE Near(reach[i - 1]) \ {Null}
    IN reach[Cardinality(DOMAIN t.nodes)]

Collected(t, held) ==
    LET bound == {t.dom[p][1].node : p \in {q \in Paths : t.dom[q] # <<>>}}
        live  == Reachable(t, ({dataRoot} \cup held \cup bound) \ {Null})
    IN [t EXCEPT !.nodes = [n \in live |-> t.nodes[n]]]
=============================================================================
