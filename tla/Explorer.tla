------------------------------ MODULE Explorer ------------------------------
(***************************************************************************)
(* The data explorer of the playground page: its tree (PageTree), the      *)
(* dialogs that edit the data, and the requests between page and server.   *)
(*                                                                         *)
(* A handler of the page runs to its end before another starts. It sends   *)
(* requests and leaves a callback for the answer, with the node it was     *)
(* called for. Requests are served one by one, and the answers come back,  *)
(* in any order. In the meantime the user goes on clicking: what a         *)
(* callback finds when it runs is not what its handler left.               *)
(***************************************************************************)
EXTENDS PageTree, Bags, SequencesExt

CONSTANTS
    Databases,  \* the contents resetDatabase can load, as functions path -> value
    MaxCalls,   \* bound: the user acts while fewer requests are under way
    MaxRows,    \* bound: the user acts while no path has more rows than that
    MaxHurry    \* bound: the clicks from the first one that does not wait for
                \* an answer to the reloading of the page

ASSUME DatabasesAssumption ==
    \A d \in Databases : /\ DOMAIN d \subseteq Paths /\ <<"bws">> \in DOMAIN d
                           /\ d \in [DOMAIN d -> STRING]
ASSUME BoundsAssumption == MaxCalls \in Nat \ {0} /\ MaxRows \in Nat \ {0} /\ MaxHurry \in Nat

VARIABLES
    db,        \* the server's data: a function of the paths that exist
    tree,      \* the objects and rows of the page
    selected,  \* g_selectedNode
    dialog,    \* the dialogs that are open and the buttons enabled in "edit"
    sent,      \* bag of requests the server has not served
    answered,  \* bag of requests with their reply, for the page to handle
    asked,     \* history: the path shown on the row whose pencil was clicked last
    hurried    \* history: the clicks since the first one that did not wait

vars == <<db, tree, selected, dialog, sent, answered, asked, hurried>>

Writable == "$writable"
DisplayName == "$displayName"
Values == {"true", "false"}

IsMetadata(name) == name \in {Writable, DisplayName}
canHaveChildren(name) == ~IsMetadata(name)
canHaveValue(name) == IsMetadata(name)
-----------------------------------------------------------------------------
(* The server. *)

Exists(p) == p \in DOMAIN db

\* Data is writable when the closest $writable up the tree says so.
IsWritable(p) ==
    LET flags == {q \in DOMAIN db : NameIn(q) = Writable /\ Within(p, Parent(q))}
    IN \E q \in flags : /\ db[q] = "true"
                        /\ \A r \in flags : Len(r) <= Len(q)

\* What a row shows of p: its value, or its display name.
Info(p) == IF canHaveValue(NameIn(p)) THEN db[p]
           ELSE IF Exists(Append(p, DisplayName)) THEN db[Append(p, DisplayName)]
           ELSE NoInfo

OwnFlag(p) == IF Exists(Append(p, Writable)) THEN db[Append(p, Writable)] ELSE NoInfo

\* The members of p in an answer with depth=1. $writable is reported for p
\* whether p has it or inherits it, so the page asks separately.
Members(p) == {[name |-> NameIn(q), info |-> Info(q), writable |-> OwnFlag(q)] :
                 q \in {c \in Children(p) : Exists(c) /\ NameIn(c) # Writable}}

\* (for: history, the row whose pencil was clicked before the request.)
Request(op, url, me, value, for) ==
    [op |-> op, url |-> url, me |-> me, value |-> value, for |-> for]
Ask(op, url, me) == Request(op, url, me, NoInfo, <<>>)

Reply(ok, info, writable, members) ==
    [ok |-> ok, info |-> info, writable |-> writable, members |-> members]
OK      == Reply(TRUE, NoInfo, NoInfo, {})
Refused == Reply(FALSE, NoInfo, NoInfo, {})

Answer(r, reply) ==
    /\ sent' = sent (-) SetToBag({r})
    /\ answered' = answered (+) SetToBag({[request |-> r, reply |-> reply]})
    /\ UNCHANGED <<tree, selected, dialog, asked, hurried>>

ServeRead(r) ==
    /\ r.op \in {"list", "cut", "defs"}
    /\ UNCHANGED db
    /\ LET p == r.url IN
       Answer(r, IF r.op = "defs" THEN OK
                 ELSE IF ~Exists(p) THEN Refused
                 ELSE IF r.op = "cut" THEN OK
                 ELSE Reply(TRUE, Info(p), IF IsWritable(p) THEN "true" ELSE "false", Members(p)))

\* PUT makes metadata that is not there, but no child (nothing in the database
\* says what a child without a base would be).
CanPut(p) == /\ p \in Paths /\ IsWritable(p)
             /\ Exists(p) \/ (canHaveValue(NameIn(p)) /\ Exists(Parent(p)))

\* PUT of one value: creates the metadata or sets its value.
ServePut(r) ==
    /\ r.op = "put" /\ CanPut(r.url) /\ canHaveValue(NameIn(r.url))
    /\ db' = With(r.url, r.value, db)
    /\ Answer(r, OK)

\* PUT of the clipboard: the target and what is below it become what the
\* clipboard holds (here any set of items, with the value "true").
ServePaste(r) ==
    /\ r.op = "paste" /\ CanPut(r.url)
    /\ \E below \in SUBSET {p \in Paths : Within(p, r.url) /\ p # r.url} :
          /\ \A p \in below : Parent(p) \in below \cup {r.url}
          /\ db' = [p \in below \cup {r.url} \cup {q \in DOMAIN db : ~Within(q, r.url)} |->
                      IF ~Within(p, r.url) THEN db[p]
                      ELSE IF canHaveValue(NameIn(p)) THEN "true" ELSE NoInfo]
    /\ Answer(r, OK)

\* POST: the server picks a name for the new child that is not used yet.
ServePost(r) ==
    /\ r.op = "post" /\ Exists(r.url) /\ IsWritable(r.url)
    /\ \E p \in Children(r.url) :
          /\ ~Exists(p) /\ ~IsMetadata(NameIn(p))
          /\ db' = With(p, NoInfo, db)
    /\ Answer(r, OK)

ServeDelete(r) ==
    /\ r.op \in {"delete", "cutDelete"}
    /\ Exists(r.url) /\ Len(r.url) > 1 /\ IsWritable(Parent(r.url))
    /\ db' = [p \in {q \in DOMAIN db : ~Within(q, r.url)} |-> db[p]]
    /\ Answer(r, OK)

ServeReset(r) == /\ r.op = "reset"
                 /\ db' \in Databases
                 /\ Answer(r, OK)

\* A write can be refused for reasons of its own: nothing is there, it is not
\* writable, the database is locked, the data does not fit.
Refuse(r) == /\ r.op \in {"put", "paste", "post", "delete", "cutDelete", "reset"}
             /\ UNCHANGED db
             /\ Answer(r, Refused)

Serve(r) == ServeRead(r) \/ ServePut(r) \/ ServePaste(r) \/ ServePost(r)
            \/ ServeDelete(r) \/ ServeReset(r) \/ Refuse(r)
-----------------------------------------------------------------------------
(* What handlers of the page have in common. *)

Quiet == sent = EmptyBag /\ answered = EmptyBag
Pending == BagToSet(sent) \cup {a.request : a \in BagToSet(answered)}

Send(requests) == sent' = sent (+) requests

\* The page after a handler; conjoined last.
Becomes(t) ==
    tree' = Collected(t, {selected'} \cup {r.me : r \in BagToSet(sent')}
                                     \cup {a.request.me : a \in BagToSet(answered')})

Closed == [edit |-> FALSE, form |-> "none", sure |-> "none", enabled |-> {}]

\* What is selected matters to an open dialog, and to the form that opens when
\* the definitions come; without them it is forgotten, up to the next pencil.
closeDialogs(form, requests) ==
    /\ dialog' = [Closed EXCEPT !.form = form]
    /\ IF form # "none" \/ \E r \in Pending \cup BagToSet(requests) : r.op = "defs"
       THEN UNCHANGED <<selected, asked>>
       ELSE selected' = Null /\ asked' = <<>>

\* The user clicks something, or does not: within the bounds, and not behind
\* the modal "are you sure" dialog.
UserActs ==
    /\ BagCardinality(sent) + BagCardinality(answered) < MaxCalls
    /\ \A p \in Paths : Len(tree.dom[p]) <= MaxRows
    /\ hurried' = IF Quiet /\ hurried = 0 THEN 0 ELSE hurried + 1
    /\ hurried' <= MaxHurry
    /\ UNCHANGED <<db, answered>>

Unmasked == dialog.sure = "none"

List(t, n) == SetToBag({Ask("list", getPath(t, n), n)})

\* expand() and refresh() as the tree and the requests they leave.
expand(t, n)  == [tree |-> Opened(t, n), requests |-> List(t, n)]
refresh(t, n) == expand(collapse(t, n), n)
-----------------------------------------------------------------------------
(* Clicks in the tree. *)

\* One call of treeButtonHandler.
Toggled(s, p) ==
    LET n == s.tree.dom[p][1].node
        e == expand(s.tree, n)
    IN IF s.tree.dom[p][1].text = "-"
       THEN [s EXCEPT !.tree = collapse(s.tree, n)]
       ELSE [tree |-> e.tree, requests |-> s.requests (+) e.requests]

\* A row that was bound twice runs its handler twice.
treeButtonHandler(p) ==
    /\ UserActs /\ Unmasked
    /\ IsShown(tree, p) /\ tree.dom[p][1].handlers > 0
    /\ LET s[i \in 0 .. tree.dom[p][1].handlers] ==
               IF i = 0 THEN [tree |-> tree, requests |-> EmptyBag]
               ELSE Toggled(s[i - 1], p)
           after == s[tree.dom[p][1].handlers]
       IN /\ closeDialogs("none", EmptyBag)
          /\ Send(after.requests)
          /\ Becomes(after.tree)

\* The pencil of a row: select its node, enable what its data allows.
editButtonHandler(p) ==
    /\ UserActs /\ Unmasked
    /\ IsShown(tree, p) /\ tree.dom[p][1].handlers > 0
    /\ LET n      == tree.dom[p][1].node
           name   == tree.nodes[n].name
           parent == tree.nodes[n].parent
           own    == isWritable(tree, n)
           above  == parent # Null /\ isWritable(tree, parent)
       IN /\ selected' = n
          /\ dialog' = [dialog EXCEPT !.edit = TRUE,
                          !.enabled = {b \in {"cut"} : above}
                                 \cup {b \in {"onto"} : own}
                                 \cup {b \in {"under"} : own /\ canHaveChildren(name)}
                                 \cup {b \in {"value"} : own /\ canHaveValue(name)}]
    /\ asked' = p
    /\ UNCHANGED sent
    /\ Becomes(tree)
-----------------------------------------------------------------------------
(* Clicks in the dialogs. *)

InEdit(button) == UserActs /\ Unmasked /\ dialog.edit /\ button \in dialog.enabled
InForm(form)   == UserActs /\ Unmasked /\ dialog.form = form

\* The buttons that open a form: new metadata, child or special, and the value.
OpenForm(button, form) ==
    /\ InEdit(button)
    /\ closeDialogs(form, EmptyBag)
    /\ UNCHANGED <<tree, sent>>

\* The form for an instance opens when the list of definitions has come.
createInstanceDialogButtonHandler ==
    /\ InEdit("under")
    /\ LET requests == SetToBag({Ask("defs", <<>>, Null)})
       IN Send(requests) /\ closeDialogs("none", requests)
    /\ UNCHANGED tree

\* Every write goes to the path the selected node has now, and its callback
\* keeps the node.
Write(op, url, value) ==
    /\ Send(SetToBag({Request(op, url, selected, value, asked)}))
    /\ closeDialogs("none", EmptyBag)
    /\ Becomes(tree)

\* A POST to the selected node; a PUT of metadata (a name with "$") below it.
PostUnder == Write("post", getPath(tree, selected), NoInfo)
PutUnder  == \E name \in {Writable, DisplayName}, v \in Values :
                Write("put", Append(getPath(tree, selected), name), v)

\* The forms that make something new (a child, an instance, something special)
\* differ in what they send, not in what the page does: "new" is all of them.
createMetadataButtonHandler == InForm("metadata") /\ PutUnder
createChildButtonHandler    == InForm("new") /\ (PostUnder \/ PutUnder)
createInstanceButtonHandler == InForm("new") /\ PostUnder
createCSMLButtonHandler     == InForm("new") /\ PostUnder
createDefinitionsButtonHandler == InForm("new") /\ PutUnder

\* doDelete and doCut, when the question was answered or needs no asking.
doDelete == Write("delete", getPath(tree, selected), NoInfo)
doCut    == Write("cut", getPath(tree, selected), NoInfo)
doChange == \E v \in Values : Write("put", getPath(tree, selected), v)

Sure(action) ==
    /\ dialog' = [dialog EXCEPT !.sure = action]
    /\ UNCHANGED <<tree, selected, sent, asked>>

deleteButtonHandler ==
    /\ InEdit("cut")
    /\ IF tree.nodes[selected].name = Writable THEN Sure("delete") ELSE doDelete

cutButtonHandler ==
    /\ InEdit("cut")
    /\ IF tree.nodes[selected].name = Writable THEN Sure("cut") ELSE doCut

changeValueButtonHandler ==
    /\ InForm("value")
    /\ IF tree.nodes[selected].name = Writable
       THEN \/ Sure("change")
            \/ Write("put", getPath(tree, selected), "true")
       ELSE doChange

areYouSureYes ==
    /\ UserActs
    /\ CASE dialog.sure = "delete" -> doDelete
         [] dialog.sure = "cut"    -> doCut
         [] dialog.sure = "change" -> Write("put", getPath(tree, selected), "false")
         [] OTHER                  -> FALSE

areYouSureNo ==
    /\ UserActs /\ dialog.sure # "none"
    /\ closeDialogs("none", EmptyBag)
    /\ UNCHANGED sent
    /\ Becomes(tree)

pasteOntoButtonHandler  == InEdit("onto")  /\ Write("paste", getPath(tree, selected), NoInfo)
pasteUnderButtonHandler == InEdit("under") /\ Write("post", getPath(tree, selected), NoInfo)

\* The database tab.
resetDatabase ==
    /\ UserActs /\ Unmasked
    /\ Send(SetToBag({Ask("reset", <<>>, Null)}))
    /\ UNCHANGED <<tree, selected, dialog, asked>>
-----------------------------------------------------------------------------
(* Answers. *)

Handle(a, op) ==
    /\ a.request.op \in op /\ a.reply.ok
    /\ answered' = answered (-) SetToBag({a})
    /\ UNCHANGED <<db, selected, asked, hurried>>

\* genericErrorHandler: shows the error, whatever it was.
Failed(a) ==
    /\ ~a.reply.ok
    /\ answered' = answered (-) SetToBag({a})
    /\ UNCHANGED <<db, selected, dialog, sent, asked, hurried>>
    /\ Becomes(tree)

\* setInfoFrom and the row of the node.
Informed(t, n, data) ==
    LET u == setInfoFrom(t, n, data) IN SetRowInfo(u, getPath(u, n), u.nodes[n].info)

Expanded(a) ==
    /\ Handle(a, {"list"})
    /\ UNCHANGED dialog
    /\ LET me == a.request.me
           member(m, t) == add(t, me, m.name, m)
           t == FoldSet(member, Informed(tree, me, a.reply), a.reply.members)
       IN /\ Send(SetToBag({Ask("info", getPath(t, s), s) : s \in t.nodes[me].subs}
                           \cup {Ask("exists", Append(a.request.url, Writable), me)}))
          /\ Becomes(t)

\* The requests that follow a list are served and handled in one step: they
\* are late, but not out of date. (They only confirm what the list reported.)
FollowUp(r, op) ==
    /\ r.op = op
    /\ UNCHANGED <<db, selected, dialog, answered, asked, hurried>>

ConfirmedToExist(r) ==
    /\ FollowUp(r, "exists")
    /\ LET t == add(tree, r.me, Writable, OK)
           s == CHOOSE n \in t.nodes[r.me].subs : t.nodes[n].name = Writable
       IN IF Exists(r.url)
          THEN /\ sent' = sent (-) SetToBag({r}) (+) SetToBag({Ask("info", getPath(t, s), s)})
               /\ Becomes(t)
          ELSE sent' = sent (-) SetToBag({r}) /\ Becomes(tree)

InfoRefreshed(r) ==
    /\ FollowUp(r, "info")
    /\ sent' = sent (-) SetToBag({r})
    /\ IF Exists(r.url)
       THEN Becomes(Informed(tree, r.me, Reply(TRUE, Info(r.url), NoInfo, {})))
       ELSE Becomes(tree)

\* After PUT and POST the node is refreshed. A new display name also shows in
\* the row of the parent.
WriteSucceeded(a) ==
    /\ Handle(a, {"put", "paste", "post"})
    /\ UNCHANGED dialog
    /\ LET me     == a.request.me
           after  == refresh(tree, me)
           parent == after.tree.nodes[me].parent
           shows  == /\ a.request.op = "put" /\ a.request.url = getPath(tree, me)
                     /\ tree.nodes[me].name = DisplayName /\ parent # Null
       IN /\ Send(after.requests (+)
                  IF shows THEN SetToBag({Ask("info", getPath(after.tree, parent), parent)})
                  ELSE EmptyBag)
          /\ Becomes(after.tree)

\* DeleteSucceeded, had it refreshed the node and not its parent.
DeleteRefreshesNode(a) ==
    /\ Handle(a, {"delete", "cutDelete"})
    /\ UNCHANGED dialog
    /\ LET after == refresh(tree, a.request.me)
       IN Send(after.requests) /\ Becomes(after.tree)

\* After DELETE the parent is refreshed; without a parent the callback throws.
DeleteSucceeded(a) ==
    /\ Handle(a, {"delete", "cutDelete"})
    /\ UNCHANGED dialog
    /\ LET parent == tree.nodes[a.request.me].parent
           after  == refresh(tree, parent)
       IN IF parent = Null THEN UNCHANGED sent /\ Becomes(tree)
          ELSE Send(after.requests) /\ Becomes(after.tree)

\* CutCopied, had it deleted what is selected when the text has come.
CutDeletesSelected(a) ==
    /\ Handle(a, {"cut"})
    /\ UNCHANGED dialog
    /\ Send(IF selected = Null THEN EmptyBag
            ELSE SetToBag({[a.request EXCEPT !.op = "cutDelete", !.me = selected,
                                             !.url = getPath(tree, selected)]}))
    /\ Becomes(tree)

\* The text of a cut is in the clipboard now; delete what was copied.
CutCopied(a) ==
    /\ Handle(a, {"cut"})
    /\ UNCHANGED dialog
    /\ Send(SetToBag({[a.request EXCEPT !.op = "cutDelete"]}))
    /\ Becomes(tree)

DefinitionsListed(a) ==
    /\ Handle(a, {"defs"})
    /\ dialog' = [dialog EXCEPT !.form = "new"]
    /\ UNCHANGED sent
    /\ Becomes(tree)

WasReset(a) ==
    /\ Handle(a, {"reset"})
    /\ UNCHANGED <<dialog, sent>>
    /\ Becomes(collapse(tree, dataRoot))
-----------------------------------------------------------------------------
\* The page loads: $(document).ready.
Init ==
    /\ db \in Databases
    /\ tree = Rooted /\ selected = Null /\ dialog = Closed
    /\ sent = EmptyBag /\ answered = EmptyBag
    /\ asked = <<>> /\ hurried = 0

\* The user reloads the page, once it is quiet.
Reload ==
    /\ Quiet
    /\ tree' = Rooted /\ selected' = Null /\ dialog' = Closed
    /\ asked' = <<>> /\ hurried' = 0
    /\ UNCHANGED <<db, sent, answered>>

Clicks ==
    \/ \E p \in Paths : treeButtonHandler(p) \/ editButtonHandler(p)
    \/ OpenForm("onto", "metadata") \/ OpenForm("under", "new") \/ OpenForm("value", "value")
    \/ createInstanceDialogButtonHandler
    \/ createMetadataButtonHandler \/ createChildButtonHandler
    \/ createInstanceButtonHandler \/ createCSMLButtonHandler
    \/ createDefinitionsButtonHandler
    \/ changeValueButtonHandler \/ deleteButtonHandler \/ cutButtonHandler
    \/ areYouSureYes \/ areYouSureNo
    \/ pasteOntoButtonHandler \/ pasteUnderButtonHandler
    \/ resetDatabase \/ Reload

Answers ==
    \E a \in BagToSet(answered) :
        \/ Expanded(a)
        \/ WriteSucceeded(a) \/ DeleteSucceeded(a) \/ CutCopied(a)
        \/ DefinitionsListed(a) \/ WasReset(a) \/ Failed(a)

Serves == \E r \in BagToSet(sent) : Serve(r) \/ ConfirmedToExist(r) \/ InfoRefreshed(r)

Next == Clicks \/ Serves \/ Answers

Spec == Init /\ [][Next]_vars
-----------------------------------------------------------------------------
Ops == {"list", "info", "exists", "defs", "cut", "cutDelete", "delete",
        "put", "paste", "post", "reset"}

\* The page is built of nodes that exist, and rows are bound to them.
TypeOK ==
    /\ DOMAIN db \subseteq Paths
    /\ \A r \in Pending : r.op \in Ops /\ r.me \in DOMAIN tree.nodes \cup {Null}
    /\ \A n \in DOMAIN tree.nodes : LET o == tree.nodes[n] IN
         /\ {o.parent} \ {Null} \subseteq DOMAIN tree.nodes /\ o.subs \subseteq DOMAIN tree.nodes
         /\ \A s, u \in o.subs : tree.nodes[s].name = tree.nodes[u].name => s = u
    /\ \A p \in Paths : \A i \in 1 .. Len(tree.dom[p]) :
         tree.dom[p][i].node \in DOMAIN tree.nodes \cup {Null}
    /\ selected \in DOMAIN tree.nodes \cup {Null}

\* However answers, refreshes and clicks follow each other: what the page
\* changes on the server is the data of the row whose pencil was clicked, or
\* something new below it. (Or the request has a relative path and changes
\* nothing: its node was taken out of the tree in the meantime.) A DELETE that
\* completes a cut is for the row that was cut, whatever was selected since.
WritesWhereAsked ==
    \A r \in Pending :
        r.op \in {"put", "paste", "post", "delete", "cutDelete"} /\ Within(r.url, <<"bws">>) =>
            r.url = r.for \/ (r.op = "put" /\ Parent(r.url) = r.for)

\* However often rows were added twice and removed once: a row that reacts to
\* clicks is bound to a node with the path of that row.
ButtonsActOnTheirRow ==
    \A p \in Paths : IsShown(tree, p) /\ tree.dom[p][1].node # Null =>
        getPath(tree, tree.dom[p][1].node) = p

\* When the user waits for answers before the next click, then at rest the
\* rows are those of the server: one row for each item whose parents are all
\* open, reacting once to a click, with the current value.
IsOpen(p) == IsShown(tree, p) /\ tree.dom[p][1].text = "-"
TreeShowsServer ==
    hurried = 0 /\ Quiet =>
        \A p \in Paths \ {<<"bws">>} :
            IF Exists(p) /\ IsOpen(Parent(p))
            THEN /\ Len(tree.dom[p]) = 1 /\ tree.dom[p][1].handlers = 1
                 /\ canHaveValue(NameIn(p)) => tree.dom[p][1].info = db[p]
            ELSE ~IsShown(tree, p)
=============================================================================
