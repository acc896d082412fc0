-------------------------------- MODULE Shadow --------------------------------
(***************************************************************************)
(* The shadow tree of a write session (data/abstractions/AbstractData.java)*)
(* at one container and its members: preread, put, post and delete on the  *)
(* shadow, the names new members get (data/Rules.java), the dirty flags,   *)
(* commit to the original and its renumbering.  WriteSession models who is *)
(* in a session; here one session after the other edits the container.     *)
(*                                                                         *)
(* A member is a name and a content.  Every request brings new contents,   *)
(* so a content tells which request put it there.                          *)
(***************************************************************************)
EXTENDS Naturals, Sequences, SequencesExt, FiniteSetsExt, Lists

CONSTANTS
    Bases,         \* base types of the container: subset of AllBases
    Keys,          \* prefixes of member names in containers that have names
    MaxSize,       \* most members of the container
    MaxOps,        \* requests made
    Unnamed,       \* clients may leave a member that they give unnamed
    Scopes,        \* what a session commits: itself or only its target
    NoTarget       \* the target of a request is the container itself

AllBases == {"LIST", "ARRAY", "COLLECTION", "CHOICE", "OBJECT"}

ASSUME ShadowAssumption ==
    /\ Bases \subseteq AllBases
    /\ MaxSize \in Nat
    /\ MaxOps \in Nat
    /\ Unnamed \in BOOLEAN
    /\ Scopes \subseteq {"session", "target"}
    /\ "" \notin Keys /\ IsFiniteSet(Keys)

VARIABLES
    base,      \* base type of the container
    original,  \* the members in the datastore
    subs,      \* the members of the shadow
    own,       \* dirty flags of the container's shadow
    pc,        \* where the session is
    todo,      \* given members of a PUT that are still to be put
    target,    \* the member a request is addressed to
    promise,   \* what the request asks for, see Container
    answer,    \* how the last request ended
    ops        \* number of requests made

vars == <<base, original, subs, own, pc, todo, target, promise, answer, ops>>

(* A name is a prefix and a number, "a_2"; <<"a", 0>> is plain "a" and     *)
(* <<"", 2>> is the position "2".  A given member may have no name at all. *)
Position(n) == <<"", n>>
NoName == Position(0)
Names == ((Keys \cup {""}) \X Nat) \ {NoName}
Values == (1..MaxOps) \X (Nat \ {0})
Positional == base \in {"LIST", "ARRAY"}

Member == [name : Names, value : Values]
Sub == [name : Names, value : Values, state : {"clean", "dirty", "deleted", "fresh"}]
Nothing == [drops |-> {}, adds |-> {}]

NamesOf(members) == {m.name : m \in ToSet(members)}
ValuesOf(members) == {m.value : m \in ToSet(members)}
Named(members, name) == CHOOSE m \in ToSet(members) : m.name = name

NamesDiffer(members) ==
    \A j, k \in DOMAIN members : members[j].name = members[k].name => j = k

(* Every variable has its type and no two members share a name.            *)
TypeOK ==
    /\ base \in Bases
    /\ original \in Seq(Member) /\ NamesDiffer(original)
    /\ subs \in Seq(Sub) /\ NamesDiffer(subs)
    /\ own \in {"clean", "below", "dirty"}
    /\ pc \in {"idle", "putting", "edited"}
    /\ todo \in Seq(Names \cup {NoName})
    /\ target \in {NoTarget} \cup Names
    /\ promise \in [drops : SUBSET Values, adds : SUBSET Values]
    /\ answer \in {"none", "done", "failed"}
    /\ ops \in 0..MaxOps

Init ==
    /\ base \in Bases
    /\ original = <<>>
    /\ subs = <<>>
    /\ own = "clean"
    /\ pc = "idle"
    /\ todo = <<>>
    /\ target = NoTarget
    /\ promise = Nothing
    /\ answer = "none"
    /\ ops = 0

-------------------------------------------------------------------------------
(* Helpers of AbstractData and Rules.                                      *)

(* preread(): a shadow of every member of the original.                    *)
Preread ==
    [k \in DOMAIN original |-> [name |-> original[k].name, value |-> original[k].value,
                                state |-> "clean"]]

(* getChildren() does not list the deleted ones.                           *)
Children(list) == Where(list, LAMBDA s : s.state # "deleted")

(* addLocal() puts the new one at the end and replaces one of its name.    *)
AddLocal(list, s) == Append(Where(list, LAMBDA t : t.name # s.name), s)

Fresh(name, value) == [name |-> name, value |-> value, state |-> "fresh"]

(* The numbers in use after a prefix.                                      *)
Numbers(list, prefix) ==
    {s.name[2] : s \in {t \in ToSet(Children(list)) : t.name[1] = prefix}}

(* NextName(), had the search for used numbers stopped one short.          *)
LastName(list, wanted) ==
    IF Positional THEN Position(Len(Children(list)) + 1)
    ELSE IF base = "COLLECTION" /\ wanted \in NamesOf(list)
         THEN <<wanted[1], Max({0} \cup Numbers(list, wanted[1]))>>
         ELSE wanted

(* Rules.getNextAvailableChildName: positions go on from the count; in a   *)
(* collection a name that is in use gets the next number after it.         *)
NextName(list, wanted) ==
    IF Positional THEN Position(Len(Children(list)) + 1)
    ELSE IF base = "COLLECTION" /\ wanted \in NamesOf(list)
         THEN <<wanted[1], 1 + Max({0} \cup Numbers(list, wanted[1]))>>
         ELSE wanted

(* createChild(): a Choice first removes the members it has.               *)
CreateChild(list, name, value) ==
    AddLocal(IF base = "CHOICE" THEN Where(list, LAMBDA s : s.state = "deleted") ELSE list,
             Fresh(name, value))

(* put() on a member of the shadow.                                        *)
PutValue(list, name, value) ==
    [k \in DOMAIN list |->
        IF list[k].name # name THEN list[k]
        ELSE [list[k] EXCEPT !.value = value,
                             !.state = IF @ = "clean" THEN "dirty" ELSE @]]

(* delete() on a shadow only marks it.                                     *)
Delete(list, names) ==
    [k \in DOMAIN list |-> IF list[k].name \in names THEN [list[k] EXCEPT !.state = "deleted"]
                           ELSE list[k]]

(* Renumber(), had it not asked for a renumbering.                         *)
KeepNumbers(members) == members

(* Renumber(), had it counted from zero.                                   *)
RenumberFromZero(members) ==
    IF base = "LIST" THEN [k \in DOMAIN members |-> [members[k] EXCEPT !.name = Position(k - 1)]]
    ELSE members

(* Members of a List are numbered by position again on every commit.       *)
Renumber(members) ==
    IF base = "LIST" THEN [k \in DOMAIN members |-> [members[k] EXCEPT !.name = Position(k)]]
    ELSE members

(* commit() of a dirty container goes through the deleted and the dirty    *)
(* members of its shadow, and then adds the fresh ones at the end.         *)
NamesIn(list, state) == {s.name : s \in {t \in ToSet(list) : t.state = state}}
Updated(members, list) ==
    [k \in DOMAIN members |->
        IF members[k].name \in NamesIn(list, "dirty")
        THEN [members[k] EXCEPT !.value = Named(list, members[k].name).value]
        ELSE members[k]]
Kept(members, list) ==
    Where(Updated(members, list),
          LAMBDA m : m.name \notin NamesIn(list, "deleted") \cup NamesIn(list, "fresh"))
Added(list) ==
    LET fresh == Where(list, LAMBDA s : s.state = "fresh")
    IN  [k \in DOMAIN fresh |-> [name |-> fresh[k].name, value |-> fresh[k].value]]

(* Of a container that is only dirty below, the dirty members themselves   *)
(* are committed.                                                          *)
Committed(members, list) ==
    CASE own = "dirty" -> Renumber(Kept(members, list) \o Added(list))
      [] own = "below" -> Updated(members, list)
      [] own = "clean" -> members

-------------------------------------------------------------------------------
(* Requests.                                                               *)

(* A new session's request asks for drops to go and adds to come.          *)
Ask(member, drops, adds) ==
    /\ pc = "idle"
    /\ ops < MaxOps
    /\ ops' = ops + 1
    /\ target' = member
    /\ promise' = [drops |-> drops, adds |-> adds]
    /\ answer' = "none"
    /\ UNCHANGED <<base, original>>

Content(k) == <<ops + 1, k>>

(* PUT of one member: put() marks the member dirty and the container dirty *)
(* below.                                                                  *)
PutMember(name) ==
    /\ Ask(name, {Named(original, name).value}, {Content(1)})
    /\ subs' = PutValue(Preread, name, Content(1))
    /\ own' = "below"
    /\ pc' = "edited"
    /\ UNCHANGED todo

(* PUT to a path that ends where there is no member yet: one is created,    *)
(* and named by createChild() whatever the path says.                      *)
PutNewMember(name) ==
    /\ name \notin NamesOf(original)
    /\ Len(original) < MaxSize
    /\ Ask(NoTarget, {}, {Content(1)})
    /\ subs' = CreateChild(Preread, NextName(Preread, name), Content(1))
    /\ own' = "dirty"
    /\ pc' = "edited"
    /\ UNCHANGED todo

(* POST to the container: a new member, named from the given name.         *)
Post(wanted) ==
    /\ Len(original) < MaxSize
    /\ Ask(NoTarget, {}, {Content(1)})
    /\ LET name == NextName(Preread, wanted) IN
          subs' = AddLocal(CreateChild(Preread, name, Content(1)), Fresh(name, Content(1)))
    /\ own' = "dirty"
    /\ pc' = "edited"
    /\ UNCHANGED todo

(* DELETE of one member.                                                   *)
DeleteMember(name) ==
    /\ Ask(name, {Named(original, name).value}, {})
    /\ subs' = Delete(Preread, {name})
    /\ own' = "dirty"
    /\ pc' = "edited"
    /\ UNCHANGED todo

(* The names a client may give to members, and the lists of different ones *)
(* in any order that it may give in a PUT of the container.                *)
Givable ==
    IF Positional THEN {Position(n) : n \in 1..MaxSize + 1} ELSE Keys \X (0..1)
Given ==
    LET names == Givable \cup IF Unnamed /\ Positional THEN {NoName} ELSE {}
    IN  UNION {{g \in [1..n -> names] : IsInjective(g)} : n \in 0..MaxSize}

(* PUT of the container: unless the given data is partial, the members     *)
(* that are not given are deleted.  An Array must be given all positions   *)
(* and a Choice a member, or else put() throws.                            *)
PutAll(given, partial) ==
    LET missing == IF partial THEN {} ELSE NamesOf(original) \ ToSet(given)
        replaced == {m.value : m \in {x \in ToSet(original) : x.name \in missing \cup ToSet(given)}}
        throws == ~partial /\ \/ base = "ARRAY" /\ ToSet(given) # {Position(n) : n \in 1..Len(given)}
                              \/ base = "CHOICE" /\ given = <<>>
    IN  /\ ~throws
        /\ Cardinality((NamesOf(original) \ missing) \cup ToSet(given)) <= MaxSize
        /\ Ask(NoTarget, replaced, {Content(k) : k \in DOMAIN given})
        /\ subs' = Delete(Preread, missing)
        /\ own' = "dirty"
        /\ todo' = given
        /\ pc' = IF given = <<>> THEN "edited" ELSE "putting"

(* The next given member is put to the one of its name, or to one that is  *)
(* created.  createChild() numbers it by the count; when it was given      *)
(* another name, put() throws.                                             *)
PutChild ==
    LET name == Head(todo)
        value == <<ops, Cardinality(promise.adds) - Len(todo) + 1>>
    IN  /\ pc = "putting"
        /\ IF name \in NamesOf(subs) THEN subs' = PutValue(subs, name, value)
           ELSE /\ name \in {NextName(subs, name), NoName}
                /\ subs' = CreateChild(subs, NextName(subs, name), value)
        /\ todo' = Tail(todo)
        /\ pc' = IF Tail(todo) = <<>> THEN "edited" ELSE "putting"
        /\ UNCHANGED <<base, original, own, target, promise, answer, ops>>

EndSession(how) ==
    /\ subs' = <<>>
    /\ own' = "clean"
    /\ pc' = "idle"
    /\ todo' = <<>>
    /\ target' = NoTarget
    /\ promise' = Nothing
    /\ answer' = how
    /\ UNCHANGED <<base, ops>>

(* Something throws, or the session is discarded without a commit.         *)
Discard ==
    /\ pc # "idle"
    /\ UNCHANGED original
    /\ EndSession("failed")

(* session.commit(), or target.commit() in the Session.atomic... methods:  *)
(* when the target is a member, only its own value is copied then.         *)
Commit ==
    /\ pc = "edited"
    /\ \E scope \in Scopes :
          original' = IF scope = "session" \/ target = NoTarget
                      THEN Committed(original, subs)
                      ELSE [k \in DOMAIN original |->
                              IF original[k].name = target
                              THEN [original[k] EXCEPT !.value = Named(subs, target).value]
                              ELSE original[k]]
    /\ EndSession("done")

Next ==
    \/ \E name \in NamesOf(original) : PutMember(name) \/ DeleteMember(name)
    \/ \E key \in Keys : Post(<<key, 0>>)
    \/ \E name \in Givable : PutNewMember(name)
    \/ \E given \in Given, partial \in BOOLEAN : PutAll(given, partial)
    \/ PutChild
    \/ Discard
    \/ Commit

Spec == Init /\ [][Next]_vars

-------------------------------------------------------------------------------
(* The members of a stored List are always numbered 1, 2, ... in order,    *)
(* whatever was deleted, posted and replaced before (the renumbering at    *)
(* the end of commit()).                                                   *)
ListNumbered ==
    base = "LIST" => \A k \in DOMAIN original : original[k].name = Position(k)

(* A committed request has done exactly what it asked for and left all     *)
(* other members in place and in order; any other request has changed      *)
(* nothing.                                                                *)
Abstract == INSTANCE Container WITH content <- [k \in DOMAIN original |-> original[k].value]
ContainerSpec == Abstract!Spec

-------------------------------------------------------------------------------
(* Posting never costs an existing member its content: new members of an   *)
(* Array or List get "the next available position"                         *)
(* (AbstractData.java:416).                                                *)
PostKeepsMembers ==
    [][promise.drops = {} /\ answer' = "done"
          => ValuesOf(original) \subseteq ValuesOf(original')]_vars

(* Session.atomicDelete that returns has deleted its target: "clean up our *)
(* mess since we wrote outside /test-data" (IndexerTests.java:76).         *)
DeleteDeletes ==
    [][promise.adds = {} /\ target # NoTarget /\ answer' = "done"
          => target \notin NamesOf(original')]_vars

(* A request that succeeds has stored all the members it was given:        *)
(* "Unless the data has been marked $partial or $truncated, then this is   *)
(* the entire set of children" (AbstractData.java:617).                    *)
GivenIsStored ==
    [][answer' = "done" => promise.adds \subseteq ValuesOf(original')]_vars
===============================================================================
